CONSTANTS
  s1 = s1
  s2 = s2
  s3 = s3
  alice = alice
  bob = bob
  Session <- TwoSessions
  User <- OneUser
  Namesakes <- OwnNames
  NoUser = NoUser
  ErrId = ErrId
  NoSession = NoSession
  OddLines = {"other"}
  MaxFrames = 2
  MaxFailures = 1
CHECK_DEADLOCK FALSE
SPECIFICATION Spec
SYMMETRY SessionSymmetry
CONSTRAINT Steady
INVARIANTS OrderedOnce NewestWaits
PROPERTY ImplementsRelay
