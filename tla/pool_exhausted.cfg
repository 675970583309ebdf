SPECIFICATION FairSpec
CONSTANTS
  Http = {"h1", "h2"}
  Strand = "strand"
  Image = {"i1"}
  NoImage = ""
  Threads = 2
  MaxPlaces = 2
  MaxCalls <- CallOnce
  MaySignal = FALSE
PROPERTIES RequestsAnswered
CHECK_DEADLOCK FALSE
