SPECIFICATION Spec
CONSTANTS
  None = None
  NoLogin = NoLogin
  Session = {"s1", "s2"}
  Caller = {}
  Login = {"u1", "u2"}
  Content = {"c1"}
  Names <- OwnNames
  Mail <- OneMail
  MaxReads <- ReadOnce
  MaxBroadcasts = 0
  MaxRestarts = 1
  MaySignal = FALSE
  Threads = 2
  Fragile = {"s1", "s2"}
INVARIANTS NoSessionCycle CirclesAreInversions LockInv ConnectedClientsListed NoStalePresence LettersLostOnlyByFailure
PROPERTY FifoOutbox
CHECK_DEADLOCK FALSE
