SPECIFICATION Spec
CONSTANTS
  None = None
  NoLogin = NoLogin
  Session = {"s1", "s2"}
  Caller = {}
  Login = {"u1", "u2"}
  Content = {"c1"}
  Names <- SharedNames
  Mail <- NoMail
  MaxReads <- ReadOnce
  MaxBroadcasts = 0
  MaxRestarts = 0
  MaySignal = FALSE
  Threads = 2
  Fragile = {"s1"}
PROPERTY ListedUntilBroken
CHECK_DEADLOCK FALSE
