------------------------------ MODULE ArgMoves ------------------------------
(***************************************************************************)
(* The code generated for one call (codegen.c, IR_OP_CALL): the arguments  *)
(* beyond the argument registers are stored on the stack, the others are   *)
(* copied into the argument registers as one parallel copy, one move at a  *)
(* time, cycles going through a scratch register. Each move is emitted and *)
(* executed in one step: regs and stack are what the machine holds when it *)
(* has run the code emitted so far.                                        *)
(***************************************************************************)
EXTENDS Integers, Sequences, FiniteSets

CONSTANTS
  ArgReg,   \* arg_regs: a0, a1, a2
  Temps,    \* t_pool, in the order it is searched: t0 .. t3
  Scratch,  \* t3, which the allocator gives to no register
  Saved,    \* s0 .. s3, preserved by the callee
  Const,    \* immediates and addresses of globals, as emit_load_imm and LI load
            \* them (one from 8 to 15 comes out negative: see Codegen, LoadImm)
  NoDst,    \* the destination of a void call
  Result,   \* what the callee returns
  Junk,     \* anything else
  Reach,    \* the offset field of SW holds the numbers -Reach .. Reach - 1
  MaxArgs,  \* IR_MAX_ARGS
  Calls     \* the calls: their operands and their destinations

Values(s) == {s[k] : k \in DOMAIN s}
Reg == Values(ArgReg) \cup Values(Temps) \cup Saved
\* A register is the home of at most one operand's value, named after it.
Home == Reg \ {Scratch}
Value == Reg \cup Const \cup {Result, Junk}

ASSUME RegistersAssumption ==
  /\ ArgReg \in Seq(Values(ArgReg)) /\ Len(ArgReg) > 0
  /\ \A i, j \in DOMAIN ArgReg : ArgReg[i] = ArgReg[j] => i = j
  /\ Temps \in Seq(Values(Temps)) /\ Scratch \in Values(Temps)
  /\ \A i, j \in DOMAIN Temps : Temps[i] = Temps[j] => i = j
  /\ Values(ArgReg) \cap Values(Temps) = {}
  /\ Saved \cap (Values(ArgReg) \cup Values(Temps)) = {}
ASSUME ValuesAssumption == Const \cap Reg = {} /\ {Result, Junk} \cap Reg = {}
ASSUME CallsAssumption ==
  /\ Calls \subseteq [args : Seq(Home \cup Const), dst : Home \cup {NoDst}]
  /\ \A c \in Calls : Len(c.args) <= MaxArgs
\* Whatever offset wraps in the field wraps to a negative one.
ASSUME FieldAssumption ==
  Reach \in Nat \ {0} /\ MaxArgs \in Nat /\ MaxArgs <= Len(ArgReg) + 2 * Reach

VARIABLES
  call,      \* the instruction
  phase,     \* where the code generator is
  k,         \* the index of its innermost loop
  src, done, \* the copies into the argument registers (cps)
  drained, progress,
  regs,      \* the registers
  stack,     \* the words from sp up to where it was before the call
  passed     \* what the callee found in its arguments

vars == <<call, phase, k, src, done, drained, progress, regs, stack, passed>>

Phases == {"start", "stack", "drain", "break", "consts", "called", "end"}

NArgs == Len(call.args)
NReg == IF NArgs < Len(ArgReg) THEN NArgs ELSE Len(ArgReg)
NStack == NArgs - NReg
\* Mutant: one register argument too few is looked at.
RegArgsButLast == 1 .. NReg - 1
RegArgs == 1 .. NReg

IsVreg(x) == x \in Home

Init ==
  /\ call \in Calls
  /\ phase = "start" /\ k = 1
  /\ src = <<>> /\ done = <<>> /\ drained = FALSE /\ progress = FALSE
  /\ regs = [r \in Reg |-> r]
  /\ stack = <<>> /\ passed = <<>>

-----------------------------------------------------------------------------
(***************************************************************************)
(* 1. Stack arguments.                                                     *)
(***************************************************************************)
\* arg_homes_mask
ArgHomes == {x \in Values(call.args) : IsVreg(x)}

\* Mutant: the first of the pool, whoever lives there.
FirstTemp == Temps[1]
StackScratch ==
  Temps[CHOOSE n \in DOMAIN Temps :
          /\ Temps[n] \notin ArgHomes
          /\ \A m \in DOMAIN Temps : m < n => Temps[m] \in ArgHomes]

Reserve ==
  /\ phase = "start"
  /\ phase' = "stack"
  /\ stack' = [i \in 1 .. NStack |-> Junk]
  /\ UNCHANGED <<call, k, src, done, drained, progress, regs, passed>>

\* SW without a prefix: the assembler keeps the low bits of the offset, and the
\* machine reads them as a signed number.
Offset(n) == ((n + Reach) % (2 * Reach)) - Reach

\* A word below sp is nobody's, and the next push overwrites it.
StackArg ==
  /\ phase = "stack" /\ k <= NStack
  /\ LET a == call.args[Len(ArgReg) + k]
         at == Offset(k - 1)
         from == IF IsVreg(a) THEN a ELSE StackScratch
     IN  /\ regs' = IF IsVreg(a) THEN regs ELSE [regs EXCEPT ![StackScratch] = a]
         /\ stack' = IF at < 0 THEN stack ELSE [stack EXCEPT ![at + 1] = regs'[from]]
  /\ k' = k + 1
  /\ UNCHANGED <<call, phase, src, done, drained, progress, passed>>

(***************************************************************************)
(* 2. Register arguments. A copy whose source is its destination is done   *)
(* from the start.                                                         *)
(***************************************************************************)
StackDone ==
  /\ phase = "stack" /\ k > NStack
  /\ src' = [i \in RegArgs |-> call.args[i]]
  /\ done' = [i \in RegArgs |-> call.args[i] = ArgReg[i]]
  /\ phase' = "drain" /\ k' = 1 /\ drained' = FALSE /\ progress' = FALSE
  /\ UNCHANGED <<call, regs, stack, passed>>

Pending == {i \in RegArgs : ~done[i] /\ IsVreg(call.args[i])}
\* Mutant: only the copies still to come in this pass are looked at.
BlockedByLater(i) == \E j \in Pending : j > i /\ src[j] = ArgReg[i]
Blocked(i) == \E j \in Pending \ {i} : src[j] = ArgReg[i]

Copy ==
  /\ phase = "drain" /\ k \in Pending /\ ~Blocked(k)
  /\ regs' = [regs EXCEPT ![ArgReg[k]] = regs[src[k]]]
  /\ done' = [done EXCEPT ![k] = TRUE]
  /\ drained' = TRUE /\ progress' = TRUE /\ k' = k + 1
  /\ UNCHANGED <<call, phase, src, stack, passed>>

Skip ==
  /\ phase = "drain" /\ k \in RegArgs
  /\ k \notin Pending \/ Blocked(k)
  /\ k' = k + 1
  /\ UNCHANGED <<call, phase, src, done, drained, progress, regs, stack, passed>>

Again == drained
PassDone ==
  /\ phase = "drain" /\ k > NReg
  /\ phase' = IF Again THEN "drain" ELSE "break"
  /\ k' = 1 /\ drained' = FALSE
  /\ UNCHANGED <<call, src, done, progress, regs, stack, passed>>

\* Mutant: the copies still read the old source.
Unredirected(c) == src
Redirected(c) ==
  [i \in RegArgs |-> IF i \in Pending /\ src[i] = src[c] THEN Scratch ELSE src[i]]

\* What is left are cycles: the source of the first copy goes to the scratch
\* register, and whoever was to read it reads that.
BreakCycle ==
  /\ phase = "break"
  /\ \E c \in Pending :
       /\ \A i \in Pending : c <= i
       /\ regs' = [regs EXCEPT ![Scratch] = regs[src[c]]]
       /\ src' = Redirected(c)
  /\ phase' = "drain" /\ k' = 1 /\ progress' = FALSE
  /\ UNCHANGED <<call, done, drained, stack, passed>>

\* while (progress): a round that only drained is followed by an idle one.
RoundDone ==
  /\ phase = "break" /\ Pending = {}
  /\ phase' = IF progress THEN "drain" ELSE "consts"
  /\ k' = 1 /\ progress' = FALSE
  /\ UNCHANGED <<call, src, done, drained, regs, stack, passed>>

\* Immediates and globals come last.
ConstArg ==
  /\ phase = "consts" /\ k <= NReg
  /\ regs' = IF ~done[k] /\ ~IsVreg(call.args[k])
             THEN [regs EXCEPT ![ArgReg[k]] = call.args[k]] ELSE regs
  /\ k' = k + 1
  /\ UNCHANGED <<call, phase, src, done, drained, progress, stack, passed>>

-----------------------------------------------------------------------------
(***************************************************************************)
(* 3. The call: the callee takes its arguments where it expects them and   *)
(* leaves nothing but its result and the preserved registers.              *)
(***************************************************************************)
Invoke ==
  /\ phase = "consts" /\ k > NReg
  /\ passed' = [i \in 1 .. NArgs |->
                  IF i <= Len(ArgReg) THEN regs[ArgReg[i]] ELSE stack[i - Len(ArgReg)]]
  /\ regs' = [r \in Reg |-> IF r \in Saved THEN regs[r]
                            ELSE IF r = ArgReg[1] THEN Result ELSE Junk]
  /\ phase' = "called"
  /\ UNCHANGED <<call, k, src, done, drained, progress, stack>>

Freed == SubSeq(stack, NStack + 1, Len(stack))

\* 4. and 5. Stack clean-up and the result.
Return ==
  /\ phase = "called"
  /\ stack' = Freed
  /\ regs' = IF call.dst = NoDst THEN regs ELSE [regs EXCEPT ![call.dst] = regs[ArgReg[1]]]
  /\ phase' = "end"
  /\ UNCHANGED <<call, k, src, done, drained, progress, passed>>

Next ==
  \/ Reserve \/ StackArg \/ StackDone
  \/ Copy \/ Skip \/ PassDone \/ BreakCycle \/ RoundDone
  \/ ConstArg \/ Invoke \/ Return

SafeSpec == Init /\ [][Next]_vars
\* One thread generates the code: nothing else is scheduled.
Spec == SafeSpec /\ WF_vars(Next)
-----------------------------------------------------------------------------
(***************************************************************************)
(* Properties.                                                             *)
(***************************************************************************)
TypeOK ==
  /\ call \in Calls
  /\ phase \in Phases
  /\ k \in 1 .. (IF phase = "stack" THEN NStack ELSE NReg) + 1
  /\ phase \in {"drain", "break", "consts"} =>
       src \in [1 .. NReg -> Reg \cup Const] /\ done \in [1 .. NReg -> BOOLEAN]
  /\ drained \in BOOLEAN /\ progress \in BOOLEAN
  /\ regs \in [Reg -> Value]
  /\ stack \in Seq(Value) /\ Len(stack) = IF phase \in {"start", "end"} THEN 0 ELSE NStack
  /\ passed \in Seq(Value)

\* Whatever has been moved so far, each argument still to be copied is where
\* its copy will read it (the order of the drain, redirection to t3).
SourcesIntact ==
  phase \in {"drain", "break"} => \A i \in Pending : regs[src[i]] = call.args[i]

\* "If anything remains, the survivors form one or more cycles": what is
\* pending at the end of a drain permutes its own registers, so each register
\* has one reader, and the scratch register is free to be taken.
OnlyCyclesLeft ==
  phase = "break" =>
    /\ {src[i] : i \in Pending} = {ArgReg[i] : i \in Pending}
    /\ \A i, j \in Pending : src[i] = src[j] => i = j

\* The drain and the breaking of cycles destroy no argument.
MovesSafe == SourcesIntact /\ OnlyCyclesLeft

\* An argument, once in its register or on the stack, stays there to the call.
\* The callee, which reads with a prefix where it has to, finds each argument
\* in its register or at the offset the ABI gives it, "args[PHYS_ARG_REGS + i]
\* at sp + i" (codegen.c:1169), as far as the field of the store reaches; the
\* words of those behind, which the comment promises too, are never written.
InReach(i) == i <= Len(ArgReg) + Reach
ArgumentsArrive ==
  phase \in {"called", "end"} =>
    passed = [i \in 1 .. NArgs |-> IF InReach(i) THEN call.args[i] ELSE Junk]

\* Up to the call, the code writes nothing but argument and temporary
\* registers; after it, the stack pointer is back, the result is where the
\* function wants it and no other preserved register has changed.
FrameKept ==
  /\ \A r \in Saved : regs[r] = r \/ (phase = "end" /\ r = call.dst)
  /\ phase = "end" => /\ stack = <<>>
                      /\ call.dst # NoDst => regs[call.dst] = Result

\* The callee gets the arguments in reach, and the caller everything back.
CallCorrect == ArgumentsArrive /\ FrameKept

\* Generating the code of a call ends, whatever its arguments.
Completes == <>(phase = "end")
=============================================================================
