\* Which line an error is said to be on.
CONSTANTS
  Lines <- FewLines
  MaxLines = 3
SPECIFICATION Spec
INVARIANT ErrorsCarryTheirLine
CHECK_DEADLOCK FALSE
