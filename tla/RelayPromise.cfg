SPECIFICATION Spec
CONSTANTS
  s1 = s1
  s2 = s2
  alice = alice
  bob = bob
  Session <- TwoSessions
  Id <- TwoIds
  NoSession = NoSession
  MaxFrames = 2
SYMMETRY RelaySymmetry
INVARIANT DirectoryTold
CHECK_DEADLOCK FALSE
