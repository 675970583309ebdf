SPECIFICATION Spec
CONSTANTS
  None = None
  NoLogin = NoLogin
  Session = {"s1"}
  Caller = {"places"}
  Login = {"u1", "u2"}
  Content = {"c1"}
  Names <- AnyNames
  Mail <- NamelessMail
  MaxReads <- ReadThrice
  MaxBroadcasts = 1
  MaxRestarts = 1
  MaySignal = FALSE
  Threads = 2
  Fragile = {"s1"}
INVARIANTS TypeOK WriterAwake
PROPERTY DeletedOnlyWhenPosted
CHECK_DEADLOCK FALSE
