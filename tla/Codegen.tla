------------------------------ MODULE Codegen -------------------------------
(***************************************************************************)
(* Code generation (src/CodeGen/codegen.c): the instructions emitted for a *)
(* function whose virtual registers have their colours, with the macros of *)
(* abi.m4 expanded. The moves of a call's arguments are in ArgMoves.       *)
(*                                                                         *)
(* An IR instruction is [op, d, a, b, w]: the register of its target, two  *)
(* operands, and a width: the stride of a GEP, the bits of what a cast or  *)
(* an access is about. A function is [blocks, slots, params]: the sequence *)
(* of its blocks, next_slot_id, param_count.                               *)
(***************************************************************************)
EXTENDS Machine, FiniteSets, SequencesExt

CONSTANT Span  \* for numbering labels: no block has as many instructions

ASSUME SpanAssumption == Span \in Nat \ {0}

None == [k |-> "none", r |-> "", n |-> 0]
V(r) == [k |-> "vreg", r |-> r, n |-> 0]
N(n) == [k |-> "imm", r |-> "", n |-> n]
G(n) == [k |-> "global", r |-> "", n |-> n]
Slot(n) == [k |-> "slot", r |-> "", n |-> n]
Ir(op, d, a, b, w) == [op |-> op, d |-> d, a |-> a, b |-> b, w |-> w]

Allocatable == {"a0", "a1", "a2", "t0", "t1", "t2", "s0", "s1", "s2", "s3"}
SavedRegs == <<"s0", "s1", "s2", "s3">>
ArgRegs == 3

-----------------------------------------------------------------------------
(* The functions that reach the generator.                                 *)

BranchOf ==
  [EQ |-> "BEQ", NEQ |-> "BEQ", LTS |-> "BLT", LES |-> "BLE", GTS |-> "BLT",
   GES |-> "BLE", LTU |-> "BLEU", LEU |-> "BLETU", GTU |-> "BLEU", GEU |-> "BLETU"]
Comparisons == DOMAIN BranchOf
IrOps ==
  Comparisons \cup
    {"CONST", "COPY", "TRUNC", "BITCAST", "ADD", "SUB", "AND", "XOR", "OR", "NEG", "NOT",
     "SHL", "SHRU", "SHRS", "ADDR_OF", "LOAD", "STORE", "GEP", "ZEXT", "SEXT",
     "GOTO", "BRANCH", "SWITCH", "RET", "CALL"}
IrOperand ==
  [k : {"none", "vreg", "imm", "global", "slot"}, r : Allocatable \cup {""}, n : Int]
IrInstr ==
  [op : IrOps, d : Allocatable \cup {""}, a : IrOperand, b : IrOperand, w : Nat]

\* The blocks an instruction may go to.
NextBlocks(i) ==
  CASE i.op = "GOTO" -> {i.w}
    [] i.op = "BRANCH" -> {i.w, i.b.n}
    [] i.op = "SWITCH" -> 2 .. i.w + 2
    [] OTHER -> {}
\* What the lowering hands over: targets and stack slots are numbers of the function.
WellMade(fn) ==
  /\ fn.blocks \in Seq(Seq(IrInstr)) /\ fn.slots \in Nat /\ fn.params \in Nat
  /\ \A b \in DOMAIN fn.blocks :
       /\ Len(fn.blocks[b]) < Span
       /\ \A k \in DOMAIN fn.blocks[b] : NextBlocks(fn.blocks[b][k]) \subseteq DOMAIN fn.blocks

-----------------------------------------------------------------------------
(* Immediates and scratch registers.                                       *)

\* emit_addi_imm
AddImm(x, y, n) ==
  IF n \in -8 .. 7 THEN ADDI(x, y, n)
  ELSE IMM(Wrap(n) \div 16) \o ADDI(x, y, Wrap(n) % 16)

\* emit_load_imm
LoadImm(x, n) ==
  CASE n = 0 -> MOV(x, "r0")
    [] n \in 1 .. 15 -> ADDI(x, "r0", n)
    [] OTHER -> LI(x, Wrap(n))

Unless(c, code) == IF c THEN <<>> ELSE code
EachOf(s, op(_)) == FlattenSeq([k \in DOMAIN s |-> op(s[k])])

\* emit_sp_adj: as far as the field reaches, as often as it takes, and the rest.
SpAdj(n) ==
  LET step == IF n < 0 THEN -8 ELSE 7
      full == IF n < 0 THEN (-n) \div 8 ELSE n \div 7
      rest == n - full * step
  IN  [k \in 1 .. full |-> Ins("ADDI", "sp", "sp", step)]
        \o Unless(rest = 0, ADDI("sp", "sp", rest))

\* pick_scratch3
Candidates == <<"t3", "t2", "t1", "t0">>
Scratch(avoid) ==
  Candidates[CHOOSE k \in 1 .. 4 :
    Candidates[k] \notin avoid /\ \A j \in 1 .. k - 1 : Candidates[j] \in avoid]

\* materialize_operand: where the operand is, and the code that puts it there.
Materialize(o, x) ==
  CASE o.k = "vreg" -> [at |-> o.r, code |-> <<>>]
    [] o.k = "imm" /\ o.n = 0 -> [at |-> "r0", code |-> <<>>]
    [] o.k = "imm" -> [at |-> x, code |-> LoadImm(x, o.n)]
    [] o.k = "global" -> [at |-> x, code |-> LI(x, o.n)]
    [] OTHER -> [at |-> x, code |-> <<>>]

MoveTo(x, y) == IF x = y THEN <<>> ELSE MOV(x, y)

-----------------------------------------------------------------------------
(* The frame.                                                              *)

Instrs(fn) == UNION {Range(fn.blocks[b]) : b \in DOMAIN fn.blocks}
Homes(fn) == UNION {{i.d, i.a.r, i.b.r} : i \in Instrs(fn)}
\* callee_used_mask
CalleeUsed(fn) == EachOf(SavedRegs, LAMBDA r : Unless(r \notin Homes(fn), <<r>>))
\* function_is_leaf
Leaf(fn) == \A i \in Instrs(fn) : i.op # "CALL"
Ultra(fn) == Leaf(fn) /\ fn.slots = 0 /\ CalleeUsed(fn) = <<>> /\ fn.params <= ArgRegs

\* Mutant: the word of lr is counted in leaf functions too, and only there.
SlotOffsetSwapped(s, fn) == -(s + 1 + (IF Leaf(fn) THEN 1 ELSE 0) + Len(CalleeUsed(fn)))
\* slot_fp_offset
SlotOffset(s, fn) == -(s + 1 + (IF Leaf(fn) THEN 0 ELSE 1) + Len(CalleeUsed(fn)))

\* A load or a store at an offset of fp, with a prefix if it needs one.
AtFp(op, x, off) ==
  IF off \in -8 .. 7 THEN <<Ins(op, x, "fp", off)>>
  ELSE IMM(Wrap(off) \div 16) \o <<Ins(op, x, "fp", Wrap(off) % 16)>>

\* emit_prologue. A parameter's slot has its number, as the parameters are
\* the first to get one; those on the stack are copied through t3.
StackParam(p, fn) ==
  AtFp("LW", "t3", p - ArgRegs + 1) \o AtFp("SW", "t3", SlotOffset(p, fn))
Prologue(fn) ==
  Unless(Ultra(fn),
    PUSH("fp") \o MOV("fp", "sp") \o Unless(Leaf(fn), PUSH("lr"))
      \o EachOf(CalleeUsed(fn), PUSH) \o SpAdj(-fn.slots)
      \o EachOf([k \in 1 .. fn.params - ArgRegs |-> ArgRegs + k - 1],
                LAMBDA p : StackParam(p, fn)))

\* emit_epilogue. Mutant: only the short form returns.
EpilogueOpen(fn) ==
  IF Ultra(fn) THEN RET
  ELSE SpAdj(fn.slots) \o EachOf(Reverse(CalleeUsed(fn)), POP)
         \o Unless(Leaf(fn), POP("lr")) \o POP("fp")
Epilogue(fn) ==
  Unless(Ultra(fn),
    SpAdj(fn.slots) \o EachOf(Reverse(CalleeUsed(fn)), POP)
      \o Unless(Leaf(fn), POP("lr")) \o POP("fp")) \o RET

-----------------------------------------------------------------------------
(* Two addresses for three.                                                *)

\* emit_binop_rr
Commutative(op, d, a, b) ==
  CASE d = a -> RR(op, d, b)
    [] d # a /\ d = b -> RR(op, d, a)
    [] OTHER -> MOV(d, a) \o RR(op, d, b)

\* emit_binop_rr_nc. Mutant: without regard to where b is.
OrderedPlain(op, d, a, b) == MoveTo(d, a) \o RR(op, d, b)
Ordered(op, d, a, b) ==
  CASE d = a -> RR(op, d, b)
    [] d # a /\ d = b /\ op = "SUB" -> NEG(d) \o RR("ADD", d, a)
    [] d # a /\ d = b /\ op # "SUB" -> MOV("t3", b) \o MOV(d, a) \o RR(op, d, "t3")
    [] OTHER -> MOV(d, a) \o RR(op, d, b)

\* emit_or_rr: the macro without its t0, the conjunction in s instead.
OrIn(s, d, l, r) ==
  MoveTo(d, l) \o MOV(s, d) \o RR("AND", s, r) \o RR("XOR", d, r) \o RR("XOR", d, s)
Disjunction(d, a, b) ==
  LET swap1 == d = b /\ d # a
      l1 == IF swap1 THEN b ELSE a
      r1 == IF swap1 THEN a ELSE b
      swap2 == r1 = "t0" /\ l1 # "t0"
      l2 == IF swap2 THEN r1 ELSE l1
      r2 == IF swap2 THEN l1 ELSE r1
  IN  CASE d = "t0" /\ r1 = "t3" -> PUSH("t1") \o OrIn("t1", d, l1, r1) \o POP("t1")
        [] d = "t0" /\ r1 # "t3" -> OrIn("t3", d, l1, r1)
        [] OTHER -> MoveTo(d, l2) \o OR(d, r2)

\* emit_comparison, cmp_to_branch; k is the number of its labels.
Unequal == "NEQ"
Swapped(op) == op \in {"NEQ", "GTS", "GES", "GTU", "GEU"}
Comparison(op, d, a, b, k) ==
  LET found == IF op = Unequal THEN 0 ELSE 1
  IN  (IF Swapped(op) THEN RR("CMP", b, a) ELSE RR("CMP", a, b))
        \o ADDI(d, "r0", 1 - found)
        \o To(BranchOf[op], "found", k) \o To("BR", "done", k)
        \o Label("found", k) \o ADDI(d, "r0", found) \o Label("done", k)

-----------------------------------------------------------------------------
(* emit_instr.                                                             *)

\* Both operands in registers, and what is done with them.
Binary(i, avoid, emit(_, _)) ==
  LET a == Materialize(i.a, Scratch({i.d} \cup avoid))
      b == Materialize(i.b, Scratch({i.d, a.at} \cup avoid))
  IN  a.code \o b.code \o emit(a.at, b.at)

\* The operand in the target.
Moved(i) ==
  LET a == Materialize(i.a, Scratch({i.d})) IN a.code \o MoveTo(i.d, a.at)
Loaded(i) ==
  LET a == Materialize(i.a, i.d) IN a.code \o MoveTo(i.d, a.at)

IsImm(o) == o.k = "imm"
IsVreg(o) == o.k = "vreg"

Add(i) ==
  CASE IsVreg(i.a) /\ IsImm(i.b) -> AddImm(i.d, i.a.r, i.b.n)
    [] IsVreg(i.b) /\ IsImm(i.a) -> AddImm(i.d, i.b.r, i.a.n)
    [] OTHER -> Binary(i, {}, LAMBDA a, b : Commutative("ADD", i.d, a, b))
Sub(i) ==
  IF IsVreg(i.a) /\ IsImm(i.b) THEN AddImm(i.d, i.a.r, -i.b.n)
  ELSE Binary(i, {}, LAMBDA a, b : Ordered("SUB", i.d, a, b))

Times(n, code) == FlattenSeq([k \in 1 .. n |-> code])
ShiftLeft(i, k) ==
  LET a == Materialize(i.a, Scratch({i.d}))
      b == Materialize(i.b, Scratch({i.d, a.at}))
      c == Scratch({i.d, a.at, b.at})
      test == RR("CMP", c, "r0") \o To("BEQ", "done", k)
  IN  a.code \o MoveTo(i.d, a.at) \o
      IF IsImm(i.b) THEN Times(IF i.b.n < 16 THEN i.b.n ELSE 16, SLL(i.d))
      ELSE b.code \o MOV(c, b.at) \o test \o Label("loop", k) \o SLL(i.d)
             \o ADDI(c, c, -1) \o test \o To("BR", "loop", k) \o Label("done", k)

AddrOf(i, fn) ==
  IF i.a.k = "slot" THEN AddImm(i.d, "fp", SlotOffset(i.a.n, fn)) ELSE LI(i.d, i.a.n)
Load(i) ==
  LET p == Materialize(i.a, Scratch({i.d}))
  IN  p.code \o <<Ins(IF i.w = 8 THEN "LB" ELSE "LW", i.d, p.at, 0)>>
Store(i) ==
  LET p == Materialize(i.a, Scratch({}))
      v == Materialize(i.b, Scratch({p.at}))
  IN  p.code \o v.code \o <<Ins(IF i.w = 8 THEN "SB" ELSE "SW", v.at, p.at, 0)>>
Scaled(d, a, b, shifts) == MoveTo(d, b) \o Times(shifts, SLL(d)) \o RR("ADD", d, a)
Multiplied(d, a, b, w) ==
  PUSH(a) \o MoveTo("a0", b) \o LoadImm("a1", w) \o CALL("__mul")
    \o POP("t0") \o RR("ADD", "a0", "t0") \o MoveTo(d, "a0")
Gep(i) ==
  Binary(i, {}, LAMBDA a, b :
    CASE i.w = 1 -> Commutative("ADD", i.d, a, b)
      [] i.w = 2 -> Scaled(i.d, a, b, 1)
      [] i.w = 4 -> Scaled(i.d, a, b, 2)
      [] OTHER -> Multiplied(i.d, a, b, i.w))

Mask(n, w) == IF w = 1 THEN n % 2 ELSE IF w = 8 THEN n % 256 ELSE n
Extended(n, w) ==
  CASE w = 1 -> 0 - (n % 2)
    [] w = 8 -> IF n % 256 >= 128 THEN (n % 256) - 256 ELSE n % 256
    [] OTHER -> n
ZeroExtend(i) ==
  IF IsImm(i.a) THEN LoadImm(i.d, Mask(i.a.n, i.w))
  ELSE Moved(i) \o
    CASE i.w = 1 -> <<Ins("ANDI", i.d, "", 1)>>
      [] i.w = 8 -> LET s == Scratch({i.d}) IN LI(s, 255) \o RR("AND", i.d, s)
      [] OTHER -> <<>>
SignExtend(i) ==
  IF IsImm(i.a) THEN LoadImm(i.d, Extended(i.a.n, i.w))
  ELSE Moved(i) \o
    CASE i.w = 8 -> LET s == Scratch({i.d})
                    IN  ADDI(s, "r0", 8) \o Times(8, SLL(i.d)) \o RR("SRA", i.d, s)
      [] i.w = 1 -> NEG(i.d)
      [] OTHER -> <<>>

Negated(i) ==
  IF IsImm(i.a) THEN LoadImm(i.d, -i.a.n) ELSE Moved(i) \o NEG(i.d)
Inverted(i) ==
  IF IsImm(i.a) THEN LoadImm(i.d, -i.a.n - 1) ELSE Moved(i) \o COM(i.d)

\* Terminators; w and b name the blocks.
Goto(i) == To("BR", "bb", i.w)
CondBranch(i) ==
  LET p == Materialize(i.a, Scratch({}))
  IN  p.code \o RR("CMP", p.at, "r0") \o To("BEQ", "bb", i.b.n) \o To("BR", "bb", i.w)
\* The w cases have the values from b.n on; the k-th goes to block k + 1.
Case(v, s, n, k) ==
  (IF n \in 0 .. 15 THEN <<Ins("RCMPI", v, "", n)>> ELSE LoadImm(s, n) \o RR("CMP", v, s))
    \o To("BEQ", "bb", k)
Switch(i) ==
  LET v == Materialize(i.a, Scratch({}))
      cases == [k \in 1 .. i.w |-> Case(v.at, Scratch({v.at}), i.b.n + k - 1, k + 1)]
  IN  v.code \o FlattenSeq(cases) \o To("BR", "bb", i.w + 2)
Return(i, fn) ==
  (CASE i.a.k = "vreg" -> MoveTo("a0", i.a.r)
     [] i.a.k = "imm" -> LoadImm("a0", i.a.n)
     [] i.a.k = "global" -> LI("a0", i.a.n)
     [] OTHER -> <<>>) \o Epilogue(fn)
Call(i) == CALL("callee") \o Unless(i.d = "", MoveTo(i.d, "a0"))

EmitInstr(i, fn, k) ==
  CASE i.op = "CONST" -> LoadImm(i.d, i.a.n)
    [] i.op \in {"COPY", "TRUNC", "BITCAST"} -> Loaded(i)
    [] i.op = "ADD" -> Add(i)
    [] i.op = "SUB" -> Sub(i)
    [] i.op \in {"AND", "XOR"} ->
         Binary(i, {}, LAMBDA a, b : Commutative(i.op, i.d, a, b))
    [] i.op = "OR" -> Binary(i, {"t0"}, LAMBDA a, b : Disjunction(i.d, a, b))
    [] i.op = "NEG" -> Negated(i)
    [] i.op = "NOT" -> Inverted(i)
    [] i.op = "SHL" -> ShiftLeft(i, k)
    [] i.op = "SHRU" -> Binary(i, {}, LAMBDA a, b : Ordered("SRL", i.d, a, b))
    [] i.op = "SHRS" -> Binary(i, {}, LAMBDA a, b : Ordered("SRA", i.d, a, b))
    [] i.op = "ADDR_OF" -> AddrOf(i, fn)
    [] i.op = "LOAD" -> Load(i)
    [] i.op = "STORE" -> Store(i)
    [] i.op = "GEP" -> Gep(i)
    [] i.op = "ZEXT" -> ZeroExtend(i)
    [] i.op = "SEXT" -> SignExtend(i)
    [] i.op \in Comparisons ->
         Binary(i, {}, LAMBDA a, b : Comparison(i.op, i.d, a, b, k))
    [] i.op = "GOTO" -> Goto(i)
    [] i.op = "BRANCH" -> CondBranch(i)
    [] i.op = "SWITCH" -> Switch(i)
    [] i.op = "RET" -> Return(i, fn)
    [] i.op = "CALL" -> Call(i)

\* A mark before the code of an instruction, for the properties.
Mark(b, k) == <<Ins("ir", "", "", Span * b + k)>>
EmitBlock(b, fn) ==
  Label("bb", b) \o FlattenSeq([k \in DOMAIN fn.blocks[b] |->
                      Mark(b, k) \o EmitInstr(fn.blocks[b][k], fn, Span * b + k)])
\* codegen_emit_function, before relaxation
EmitFunction(fn) ==
  Prologue(fn) \o FlattenSeq([b \in DOMAIN fn.blocks |-> EmitBlock(b, fn)])
=============================================================================
