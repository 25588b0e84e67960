SPECIFICATION Spec
CONSTANTS
  Chunk = 2
  Room = 3
  Sizes = {1, 3}
  EndSize = 1
  MaxFriends = 1
  MaxRequests = 1
INVARIANT EndMarkerLast
CHECK_DEADLOCK FALSE
