\* Three ids for two clients, and no guard against a DESC when they are taken.
CONSTANTS
  IdSpace = 4
  Client = {c1, c2}
  Service <- Objects
  nullptr = nullptr
  QueueSize = 2

SPECIFICATION RegistrySpec

INVARIANT ReservedArePartOfTable
