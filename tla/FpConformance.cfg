CONSTANTS
  MaxLength = 5
  MaxFileLines = 2
SPECIFICATION ScanSpec
INVARIANTS ScanTypeOK MaskIsExact GateCatchesGrowth
