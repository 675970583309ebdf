SPECIFICATION FairSpec
CONSTANTS
  Http = {"h1", "h2"}
  Strand = "strand"
  Image = {"i1"}
  NoImage = ""
  Threads = 3
  MaxPlaces = 1
  MaxCalls <- CallOnce
  MaySignal = TRUE
PROPERTY HandlersReturn
CHECK_DEADLOCK FALSE
