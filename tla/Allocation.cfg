\* A register file of five: two argument registers, one temporary, one
\* scratch register, one saved register.
CONSTANTS
  NumBlocks = 1
  Vreg = {0,1,2,3,4,5,6,7,8,9,10,11,12,13,14,15,16,17,18,19,20,21,22,23}
  NoVreg = NoVreg
  Functions <- MCFunctions
  ArgReg <- MCArgReg
  PrefNormal <- MCPrefNormal
  PrefCallee <- MCPrefCallee
  KFull = 5
  KCallee = 1
  NoColour = NoColour
  Spilled = Spilled
  Declared <- Objects
  Signature <- Signatures
SPECIFICATION ASpec
INVARIANTS TypeOK InterferenceExact SimplifySound ChosenProper PinsSafe SpillJustified
CHECK_DEADLOCK FALSE
