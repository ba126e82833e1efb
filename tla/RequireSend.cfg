CONSTANTS
  Locals = {"e", "f"}
  Fields = {"self.e"}
  LastPart <- MCLastPart
  TypeName = "Event"
  MaxEvents = 2
  MaxDepth = 3
  MaxLines = 6
SPECIFICATION Spec
INVARIANTS LintForgetsNothing ScannerForgetsNothing
PROPERTIES LintReportsUnsent ScannerReportsUnsent
\* A program ends.
CHECK_DEADLOCK FALSE
