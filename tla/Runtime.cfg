SPECIFICATION Spec
CONSTANTS
  Width = 5
  Operands <- AllOperands
INVARIANTS TypeOK ResultsCorrect RegistersKept
CHECK_DEADLOCK FALSE
