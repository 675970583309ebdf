SPECIFICATION FairSpec
CONSTANTS
  Http = {h1, h2}
  Length <- MCLength
  NoText = ""
  Requests <- UserRequests
  MaxRequests = 2
  MaxRestarts = 1
  MayFail = TRUE
INVARIANT TypeOK
PROPERTIES RegisteredCanLogIn 
CHECK_DEADLOCK FALSE
