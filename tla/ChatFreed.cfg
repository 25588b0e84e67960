CONSTANTS
  s1 = s1
  s2 = s2
  s3 = s3
  alice = alice
  bob = bob
  Session <- OneSession
  User <- OneUser
  Namesakes <- OwnNames
  NoUser = NoUser
  ErrId = alice
  NoSession = NoSession
  OddLines = {}
  MaxFrames = 0
  MaxFailures = 0
CHECK_DEADLOCK FALSE
SPECIFICATION FairSpec
PROPERTY RemovedIsFreed
