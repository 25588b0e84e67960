SPECIFICATION Spec
CONSTANTS
  Key <- Keys
  Word <- Words
  Address <- Addresses
  Files <- ConfigFiles
  Empty = Empty
  Missing = Missing
  NoPort = NoPort
  ip = ip
  word = word
INVARIANT IocOutlivesThread
CHECK_DEADLOCK FALSE
