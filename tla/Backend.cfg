\* Relaxation is scaled: 9, 14 and 2 for 120, 127 and 16.
CONSTANTS
  Functions <- MCFunctions
  Registers <- MCRegisters
  Globals <- MCGlobals
  Threshold = 9
  Reach = 14
  Rounds = 2
  Depth = 30
  Span = 10
SPECIFICATION Spec
INVARIANTS TypeOK Agrees FrameKept RelaxationEnds
CHECK_DEADLOCK FALSE
