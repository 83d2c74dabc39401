\* A register file of five: two argument registers, one temporary, one
\* scratch register, one saved register.
CONSTANTS
  NumBlocks = 5
  Vreg = {0,1,2,3,4,5,6,7,8,9,10,11,12,13,14,15,16,17,18,19,20,21,22,23,24,25,26,27,28,29,30,31,32,33,34,35,36,37,38,39,40,41,42,43,44,45,46,47,48,49,50}
  NoVreg = NoVreg
  Functions <- MCFunctions
  ArgReg <- MCArgReg
  PrefNormal <- MCPrefNormal
  PrefCallee <- MCPrefCallee
  KFull = 5
  KCallee = 1
  NoColour = NoColour
  Spilled = Spilled
  Declared <- Objects
  Signature <- Signatures
SPECIFICATION Spec
INVARIANTS LoopTypeOK ValuesKept NeverTwice
PROPERTIES Converges
CHECK_DEADLOCK FALSE
