CONSTANTS
  TARGETS <- MCTargets
  Baseline <- MCBaseline
  Starts <- MCStarts
  MaxRuns = 2
  MaxEdits = 0
SPECIFICATION Spec
INVARIANT BaselineComplete
\* The maintainers may start no further run and make no further edit.
CHECK_DEADLOCK FALSE
