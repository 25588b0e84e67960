SPECIFICATION Spec
CONSTANTS
  UserId = {u1, u2}
  Name = {n1, n2}
  Password = {p1, p2}
  Path = {jpg}
  Mark = {friend}
  Null = Null
  ErrId = ErrId
  MaxRelations = 2
SYMMETRY DbSymmetry
INVARIANTS TypeOK  TrueUnlessFailed AcceptedWhole ImagesOfFriends EndsForAvatarOnly
CHECK_DEADLOCK FALSE
