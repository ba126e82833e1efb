CONSTANTS
  TARGETS <- MCTargets
  Paths <- MCPaths
  NoDir = NoDir
  Names <- MCNames
  InRepo <- MCInRepo
  Shared <- MCShared
  Starts <- MCStarts
  Above <- MCAbove
  SafeDirs <- MCSafe
  RootDir = "."
  Required <- MCRequired
  Forbidden <- MCForbidden
  MatureAt = 3
  MaxRuns = 3
SPECIFICATION Spec
INVARIANTS 
  RootsAreSound RepairPlacesKept NeverRaises
  SecondRunMarksAll SettledStaysSettled PackagingIsKept
\* The host may start no further run.
CHECK_DEADLOCK FALSE
