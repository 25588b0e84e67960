SPECIFICATION FairSpec
CONSTANTS
  Chunk = 2
  Room = 3
  Sizes = {1, 2, 3}
  EndSize = 1
  MaxFriends = 2
  MaxRequests = 2
INVARIANTS TypeOK UnitsInOrder OnePlace BeginInOrder SmallPacketsWhole EndIsLastCall
PROPERTIES NothingAfterClose ImplementsWire WritesEnd
CHECK_DEADLOCK FALSE
