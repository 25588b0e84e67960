CONSTANTS
  s1 = s1
  s2 = s2
  s3 = s3
  alice = alice
  bob = bob
  Session <- TwoSessions
  User <- TwoUsers
  Namesakes <- OneName
  NoUser = NoUser
  ErrId = ErrId
  NoSession = NoSession
  OddLines = {"other", "mistyped", "garbage"}
  MaxFrames = 1
  MaxFailures = 0
CHECK_DEADLOCK FALSE
SPECIFICATION Spec
SYMMETRY SessionSymmetry
INVARIANTS TypeOK OnlyAddressee DirectoryConsistent NoDanglingCallback NoDanglingThis OpenIsListed PhaseConsistent
PROPERTY ReadTextForwarded
