SPECIFICATION PointsSpec
CONSTANTS
  ProgramStart = 2
  ProgramEnd = 12
  MinLending = 85
  Times = {0, 2, 10, 13}
  Amounts = {90}
  StakeAmounts = {50}
  Locks = {2, 8}
  Interest = 5
  MaxLoanRows = 2
  MaxStakeRows = 3
  MaxRows = 3
  Self = "self"
  Rivals <- MCRivals
  PageSize = 2
CHECK_DEADLOCK FALSE
INVARIANT PointsFollowReadme
