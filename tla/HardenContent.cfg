CONSTANTS
  TARGETS <- MCTargets
  Baseline <- MCBaseline
  Starts <- MCStarts
  MaxRuns = 3
  MaxEdits = 2
SPECIFICATION Spec
INVARIANTS RerunWritesNothing TypeOK CompleteRunPasses GateSeesEdits
PROPERTY HandFilesKept
\* The maintainers may start no further run and make no further edit.
CHECK_DEADLOCK FALSE
