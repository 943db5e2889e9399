\* Ids 0..4: four ids to hand out, all of them in use in some states.
CONSTANTS
  IdSpace = 5
  Service <- TwoObjects
  nullptr = nullptr

SPECIFICATION RoomSpec

INVARIANT TableInv
PROPERTY ImplementsAllocator
