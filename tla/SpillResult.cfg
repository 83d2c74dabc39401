\* Assignments through the pointer a call returned.
CONSTANTS
  NumBlocks = 1
  Vreg = {0,1,2,3,4,5,6,7,8,9,10,11,12,13,14,15,16,17,18,19,20,21,22,23,24,25,26,27,28,29,30,31,32,33,34,35,36,37,38,39,40,41,42,43,44,45,46,47,48,49,50,51,52,53,54,55}
  NoVreg = NoVreg
  Functions <- StoredResults
  ArgReg <- MCArgReg
  PrefNormal <- MCPrefNormal
  PrefCallee <- MCPrefCallee
  KFull = 11
  KCallee = 4
  NoColour = NoColour
  Spilled = Spilled
  Declared <- Objects
  Signature <- Signatures
SPECIFICATION SafeSpec
INVARIANT ProperColouring
CHECK_DEADLOCK FALSE
