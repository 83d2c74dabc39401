\* Every graph of 3 blocks, one register.
CONSTANTS
  NumBlocks = 3
  Vreg = {1}
  NoVreg = NoVreg
  NoBlock = NoBlock
  Bodies <- MCBodies
SPECIFICATION Spec
INVARIANTS TypeOK WorklistSound LeastSolution InstructionsExact
PROPERTIES Refines Terminates
CHECK_DEADLOCK FALSE
