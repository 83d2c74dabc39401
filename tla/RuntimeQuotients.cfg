SPECIFICATION Spec
CONSTANTS
  Width = 16
  Operands <- Borders
INVARIANT QuotientsCorrect
CHECK_DEADLOCK FALSE
