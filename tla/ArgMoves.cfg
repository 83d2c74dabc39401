\* The machine's argument registers and temporaries.
CONSTANTS
  a0 = a0
  a1 = a1
  a2 = a2
  t0 = t0
  t1 = t1
  t2 = t2
  t3 = t3
  s0 = s0
  imm = imm
  ArgReg <- MCArgReg
  Temps <- MCTemps
  Scratch = t3
  Saved = {s0}
  Const = {imm}
  NoDst = NoDst
  Result = Result
  Junk = Junk
  Reach = 8
  MaxArgs = 16
  Calls <- MCCalls
SPECIFICATION Spec
INVARIANTS TypeOK MovesSafe CallCorrect
PROPERTIES Completes
CHECK_DEADLOCK FALSE
