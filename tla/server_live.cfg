SPECIFICATION ServerSpec
CONSTANTS
  None = None
  NoLogin = NoLogin
  Session = {"s1"}
  Caller = {"h1", "strand"}
  Login = {"u1"}
  Content = {"c1"}
  Names <- OwnNames
  Mail <- NoMail
  MaxReads <- ReadOnce
  MaxBroadcasts = 0
  MaxRestarts = 0
  MaySignal = TRUE
  Threads = 2
  Fragile = {"s1"}
  Http = {"h1"}
  Strand = "strand"
  Image = {"i1"}
  NoImage = ""
  MaxPlaces = 1
  MaxCalls <- CallOnce
  MaxBacklog = 2
PROPERTIES MarkersProgress BrokenClientLeaves
CHECK_DEADLOCK FALSE
