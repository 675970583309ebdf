SPECIFICATION FairSpec
CONSTANTS
  None = None
  NoLogin = NoLogin
  Session = {"s1", "s2"}
  Caller = {}
  Login = {"u1", "u2"}
  Content = {"c1"}
  Names <- OwnNames
  Mail <- OneMail
  MaxReads <- ReadTwice
  MaxBroadcasts = 0
  MaxRestarts = 0
  MaySignal = TRUE
  Threads = 2
  Fragile = {"s1"}
PROPERTIES ShutdownCompletes
CHECK_DEADLOCK FALSE
