\* Two workers, two addresses, two clients, the device of c1 seen at both.
CONSTANTS
  Worker = {w1, w2}
  Terminator = T
  Addr = {1, 2}
  Clients = {"c1", "c2"}
  Reach <- TwoAddresses
  None = None

SPECIFICATION Spec
SYMMETRY WorkerSymmetry

INVARIANTS ConHandlerInv NoCircularWait OnlyVerifiedClients
PROPERTIES ExchangeKeepsServices ExitIsFinal
