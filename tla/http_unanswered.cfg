SPECIFICATION FairSpec
CONSTANTS
  Http = {h1, h2}
  Length <- MCLength
  NoText = ""
  Requests <- UnansweredRequests
  MaxRequests = 2
  MaxRestarts = 0
  MayFail = FALSE
PROPERTIES EveryRequestAnswered
CHECK_DEADLOCK FALSE
