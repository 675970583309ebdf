SPECIFICATION FairSpec
CONSTANTS
  Http = {"h1", "h2"}
  Strand = "strand"
  Image = {"i1"}
  NoImage = ""
  Threads = 3
  MaxPlaces = 1
  MaxCalls <- CallTwiceOnce
  MaySignal = TRUE
INVARIANTS TypeOK OneTick ExpiryOnce
PROPERTIES Linearizable PlacesExpire RequestsAnswered
CHECK_DEADLOCK FALSE
