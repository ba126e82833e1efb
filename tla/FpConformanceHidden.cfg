CONSTANTS
  MaxLength = 4
  MaxFileLines = 2
SPECIFICATION ScanSpec
INVARIANT NewViolationsBlock
