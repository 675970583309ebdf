SPECIFICATION FairSpec
CONSTANTS
  None = None
  NoLogin = NoLogin
  Session = {"s1", "s2"}
  Caller = {}
  Login = {"u1", "u2"}
  Content = {"c1"}
  Names <- OwnNames
  Mail <- SteadyMail
  MaxReads <- ReadOnce
  MaxBroadcasts = 0
  MaxRestarts = 0
  MaySignal = TRUE
  Threads = 2
  Fragile = {"s1"}
PROPERTIES ShutdownCompletes BrokenClientLeaves OutgoingDrains SavedMailIsHandedOver
CHECK_DEADLOCK FALSE
