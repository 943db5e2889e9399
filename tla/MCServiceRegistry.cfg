\* Two clients compete for two ids; the queue holds two messages.
CONSTANTS
  IdSpace = 3
  Client = {c1, c2}
  Service <- Objects
  nullptr = nullptr
  QueueSize = 2

SPECIFICATION RoomRegistrySpec

INVARIANTS RegistryInv NoGhosts FoundIsRegistered
PROPERTY ImplementsOwnership
