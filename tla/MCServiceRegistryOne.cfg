\* One client: ids are not recycled between clients.  It shares the smallest
\* queue with mqReceiveLoop(), so that both block in some states.
CONSTANTS
  IdSpace = 4
  Client = {c1}
  Service <- Objects
  nullptr = nullptr
  QueueSize = 2

SPECIFICATION FairRegistrySpec

INVARIANT MobileLearns
PROPERTIES ClientsReturn GetsAnswered
