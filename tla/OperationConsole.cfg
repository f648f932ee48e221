SPECIFICATION FairConsoleSpec
CONSTANTS
  operator = operator
  administrator = administrator
  Session = {operator, administrator}
  Tab = {t1}
  SessionRank <- MCRank
  Trouble = TRUE
  MaxPolls = 1
  MaxSubmits = 2
  MaxClaims = 2
CHECK_DEADLOCK FALSE
INVARIANTS LeasesWereAsked
 
