------------------------------ MODULE Backend -------------------------------
(***************************************************************************)
(* A function from its allocated form to the machine: emission, relaxation *)
(* (codegen_emit_function), assembly (generate_code), and the run of what  *)
(* was assembled, beside the meaning of the function it was made from.     *)
(***************************************************************************)
EXTENDS Relaxation

CONSTANTS Functions,  \* the functions to be compiled
          Registers,  \* what the caller-saved registers hold at first
          Rounds,     \* the most rounds of relaxation: 16
          Globals,    \* the words of the globals
          Depth       \* the words of the stack that are modelled

ASSUME RoundsAssumption == Rounds \in Nat
ASSUME WellMadeAssumption == \A f \in Functions : WellMade(f)

VARIABLES fn, code,   \* the function and its text
          round, ids, \* rounds of relaxation, and the next label's number
          status,     \* "relaxing", "running", "returned", "refused"
          pc, m,      \* the next item; registers, memory, the pair compared, prefix
          ir          \* the state the function means

vars == <<fn, code, round, ids, status, pc, m, ir>>

Means == INSTANCE IrMeaning

\* The stack pointer, frame pointer and return address of the caller.
Sp0 == 1000
Fp0 == 1010
Lr0 == 4000
Words == (Sp0 - Depth .. Sp0 + 8) \cup Globals
\* A caller's word holds its own address.
Memory0 == [a \in Words |-> a]
Saved0 == [s0 |-> 801, s1 |-> 802, s2 |-> 803, s3 |-> 804]
Special == [r0 |-> 0, t3 |-> 9999, fp |-> Fp0, sp |-> Sp0, lr |-> Lr0]

SlotAddress(n) == Sp0 - 1 + SlotOffset(n, fn)

\* The words a function knows when it starts: its parameters and the globals.
Known0(f) ==
  [a \in Globals |-> a]
    @@ [a \in {Sp0 - 1 + SlotOffset(p, f) : p \in ArgRegs .. f.params - 1} |->
          LET p == CHOOSE q \in ArgRegs .. f.params - 1 : a = Sp0 - 1 + SlotOffset(q, f)
          IN  Sp0 + p - ArgRegs]

Init ==
  /\ fn \in Functions
  /\ code = EmitFunction(fn)
  /\ round = 0 /\ ids = 0
  /\ status = "relaxing"
  /\ pc = 1
  /\ \E given \in Registers :
       /\ m = [r |-> given @@ Saved0 @@ Special, mem |-> Memory0, cmp |-> <<0, 0>>, pre |-> <<>>]
       /\ ir = [r |-> given @@ Saved0, mem |-> Known0(fn), next |-> 1, ret |-> <<>>]

-----------------------------------------------------------------------------
(* Relaxation and assembly.                                                *)

Relaxable == round < Rounds /\ Far(code) # {}

Relax ==
  /\ status = "relaxing" /\ Relaxable
  /\ LET far == Far(code)
     IN  /\ code' = Rewritten(code, far, ids)
         /\ ids' = ids + Cardinality(Conditional(code, far))
  /\ round' = round + 1
  /\ UNCHANGED <<fn, status, pc, m, ir>>

Assemble ==
  /\ status = "relaxing" /\ ~Relaxable
  /\ status' = IF OutOfRange(code) = {} THEN "running" ELSE "refused"
  /\ UNCHANGED <<fn, code, round, ids, pc, m, ir>>

-----------------------------------------------------------------------------
(* The run. A branch lands on the first item with its address.             *)

At(op) == status = "running" /\ code[pc].op = op
Here == code[pc]
Landing(place) == Min({k \in DOMAIN code : Place(code, k) = place})
Operand == Immediate(m.pre, Here.n)
Goes(k, machine) ==
  /\ pc' = k
  /\ m' = machine
  /\ UNCHANGED <<fn, code, round, ids, status, ir>>
\* The prefix is for one instruction.
Plain(machine) == [machine EXCEPT !.pre = <<>>]

Compute ==
  /\ status = "running" /\ Here.op \in Computes
  /\ LET v == Result(Here, m.r[Here.x], IF Here.y = "" THEN 0 ELSE m.r[Here.y], Operand)
     IN  Goes(pc + 1, Plain([m EXCEPT !.r[Here.x] = v]))

Address == Wrap(m.r[Here.y] + Operand)
\* A byte is the low half of its word.
Read ==
  /\ status = "running" /\ Here.op \in {"LW", "LB"}
  /\ LET w == m.mem[Address]
     IN  Goes(pc + 1, Plain([m EXCEPT !.r[Here.x] = IF Here.op = "LB" THEN w % 256 ELSE w]))
Write ==
  /\ status = "running" /\ Here.op \in {"SW", "SB"}
  /\ LET v == m.r[Here.x]
     IN  Goes(pc + 1, Plain([m EXCEPT !.mem[Address] =
           IF Here.op = "SB" THEN (@ - (@ % 256)) + (v % 256) ELSE v]))

Compare ==
  /\ status = "running" /\ Here.op \in {"CMP", "RCMPI"}
  /\ Goes(pc + 1, Plain([m EXCEPT !.cmp =
       IF Here.op = "CMP" THEN <<m.r[Here.x], m.r[Here.y]>> ELSE <<Operand, m.r[Here.x]>>]))

\* IMM, with a number or the upper half of a label's address.
Prefix ==
  /\ At("IMM")
  /\ LET upper == CASE Here.x = "" -> Here.n
                    [] Here.x \in {"callee", "__mul"} -> 0
                    [] OTHER -> Lc(code, LastSite(code, Here)) \div 16
     IN  Goes(pc + 1, [m EXCEPT !.pre = <<upper>>])

Branch ==
  /\ status = "running" /\ Here.op \in Branches
  /\ Goes(IF Taken(Here.op, m.cmp) THEN Landing(Place(code, pc) + Displacement(code, pc))
          ELSE pc + 1, Plain(m))

Jump ==
  /\ At("JAL")
  /\ LET low == Lc(code, LastSite(code, Here)) % 16
     IN  Goes(Landing((m.pre[1] * 16 + low) \div 2), Plain(m))

\* The callee of the ABI: the result in a0, its other registers and the words
\* below the stack pointer as it likes.
Junk == 4369
Callee(machine) ==
  [machine EXCEPT
    !.r = [x \in DOMAIN @ |->
             CASE x = "a0" -> IF Here.x = "__mul" THEN Wrap(@["a0"] * @["a1"]) ELSE Means!CallResult
               [] x \in {"a1", "a2", "t0", "t1", "t2", "t3", "lr"} -> Junk
               [] OTHER -> @[x]],
    !.mem = [a \in DOMAIN @ |-> IF a \in Sp0 - Depth .. machine.r["sp"] - 1 THEN Junk ELSE @[a]]]
Calling == At("CALL") /\ Goes(pc + 1, Plain(Callee(m)))

Returning ==
  /\ At("RET")
  /\ status' = "returned"
  /\ UNCHANGED <<fn, code, round, ids, pc, m, ir>>

Pass == At("label") /\ Goes(pc + 1, m)

\* The function's own step, before the code of the instruction runs.
Marked == fn.blocks[Here.n \div Span][Here.n % Span]
Follow ==
  /\ At("ir")
  /\ ir' = Means!Stepped(Marked, ir, SlotAddress)
  /\ pc' = pc + 1
  /\ UNCHANGED <<fn, code, round, ids, status, m>>

Next ==
  \/ Relax \/ Assemble
  \/ Compute \/ Read \/ Write \/ Compare \/ Prefix
  \/ Branch \/ Jump \/ Calling \/ Returning \/ Pass \/ Follow
Spec == Init /\ [][Next]_vars

-----------------------------------------------------------------------------
(* Properties.                                                             *)

Word == 0 .. 65535

\* What the variables range over: the machine's registers and words hold words,
\* and the item to come is one of the text.
TypeOK ==
  /\ round \in 0 .. Rounds /\ ids \in Nat
  /\ status \in {"relaxing", "running", "returned", "refused"}
  /\ pc \in DOMAIN code
  /\ DOMAIN m.r = Allocatable \cup DOMAIN Special
  /\ \A x \in DOMAIN m.r : m.r[x] \in Word
  /\ DOMAIN m.mem = Words
  /\ \A a \in Words : m.mem[a] \in Word
  /\ DOMAIN ir.r \subseteq Allocatable
  /\ \A x \in DOMAIN ir.r : ir.r[x] \in Word

\* Where an instruction of the function begins, the machine is in the state the
\* instructions before it mean: every live register and every written word has
\* its value, and the block is the one the terminator chose. The code returns
\* with the value the function returns.
Agrees ==
  /\ (status = "running" /\ Here.op = "ir") =>
       /\ \A x \in DOMAIN ir.r : m.r[x] = ir.r[x]
       /\ \A a \in DOMAIN ir.mem : m.mem[a] = ir.mem[a]
       /\ Here.n % Span = 1 => Here.n \div Span = ir.next
  /\ status = "returned" =>
       /\ \A v \in Range(ir.ret) : m.r["a0"] = v
       /\ \A a \in Globals : m.mem[a] = ir.mem[a]

\* A function returns to its caller with the caller's stack pointer, frame
\* pointer and saved registers, and leaves the caller's part of the stack alone.
FrameKept ==
  status = "returned" =>
    /\ m.r["sp"] = Sp0 /\ m.r["fp"] = Fp0 /\ m.r["lr"] = Lr0
    /\ \A x \in Range(SavedRegs) : m.r[x] = Saved0[x]
    /\ \A a \in Words : a >= Sp0 => m.mem[a] = a

\* The assembler refuses a branch only when relaxation ran out of rounds.
RefusedAtTheCap == status = "refused" => round = Rounds

\* The branches of the function, in the text and as long ones, stay as many as
\* were emitted, and a round makes one of them long at least: so the rounds are
\* no more than they, and no trampoline's branch ever becomes long.
OwnNames == {"bb", "found", "done", "loop"}
Own(c, ops) == {k \in DOMAIN c : c[k].op \in ops /\ c[k].x \in OwnNames}
Settles ==
  status = "relaxing" /\ round > 0 =>
    /\ Cardinality(Own(code, Branches)) + Cardinality(Own(code, {"JAL"}))
         = Cardinality(Own(EmitFunction(fn), Branches))
    /\ round <= Cardinality(Own(code, {"JAL"}))

\* Relaxation ends by itself, and what it leaves is in reach unless it was cut off.
RelaxationEnds == RefusedAtTheCap /\ Settles
=============================================================================
