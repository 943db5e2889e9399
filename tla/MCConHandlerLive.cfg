\* Two workers and one device.
CONSTANTS
  Worker = {w1, w2}
  Terminator = T
  Addr = {1}
  Clients = {"c1"}
  Reach <- OneDevice
  None = None
SPECIFICATION FairSpec
PROPERTIES ConnectionsClosed ExitEndsServer
