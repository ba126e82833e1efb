CONSTANTS
  SequenceNumbers <- MCSequenceNumbers
  MaxEvents = 5
  MaxSockets = 2
  MaxFailures = 1
SPECIFICATION Spec
INVARIANTS NoSilentLoss PictureHasNoHoles ReportsAreExact
PROPERTY CaughtUp
\* The tunnel may have no more events and the host no more sockets.
CHECK_DEADLOCK FALSE
