SPECIFICATION ListSpec
CONSTANTS
  Table <- MCTable
  Positions <- MCPositions
  StartChain <- MCStartChain
  Cap = 1000
  Limit = 5000
  Workers = {"h"}
  MaxMoves = 1
  MaxStarts = 1
  MaxFaults = 1
  Assets <- MCAssets
  RowsOf <- MCRowsOf
  Pages = {2}
INVARIANTS MetricsTypeOK ColumnsWereTrue
PROPERTIES ListedWasTrue ColumnsSettle ListSettles
