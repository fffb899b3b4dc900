SPECIFICATION FairSpec
CONSTANTS
  PAGE_SIZE = 128
  Requests = {1, 17, 40}
INVARIANTS
  Tiled
  Coalesced
  RoomForRequest
PROPERTIES
  ImplementsHeap
  CallsReturn
