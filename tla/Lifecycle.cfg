SPECIFICATION FairSpec
CONSTANTS
  Key <- Keys
  Word <- Words
  Address <- Addresses
  Files <- ConfigFiles
  Empty = Empty
  Missing = Missing
  NoPort = NoPort
  ip = ip
  word = word
INVARIANTS TypeOK StaysUntilStopped ListensAsConfigured WakeupNotLost
PROPERTIES SettledOnceWaiting StopIsNoticed
CHECK_DEADLOCK FALSE
