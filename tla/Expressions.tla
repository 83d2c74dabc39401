---------------------------- MODULE Expressions ----------------------------
(***************************************************************************)
(* The way of one expression through the compiler: pass 2 types it, the    *)
(* lowering translates it, and the instructions run on a memory of words,  *)
(* beside what C says of the same tree (CExpressions).                     *)
(***************************************************************************)
EXTENDS LowerExpr, CExpressions, TLC

CONSTANTS
  Programs,   \* [e, returns]: the expression, and whether its value is returned
  Memories    \* what the cells of the objects may hold at first: words

VARIABLES
  prog,       \* the program
  given,      \* its memory at the start
  phase,      \* "check", "lower", "run", "done" or "refused"
  tree,       \* the expression, with its types once it is checked
  cx,         \* the lowering context: the code
  pc,         \* [b, i]: the instruction that is next
  regs,       \* the registers that have a value
  mem,        \* memory: the objects, and the result slots
  result      \* the word returned

vars == <<prog, given, phase, tree, cx, pc, regs, mem, result>>

\* No text is emitted here, so its labels' numbers are of no account.
Means == INSTANCE IrMeaning WITH Span <- 1

-----------------------------------------------------------------------------
Init ==
  /\ prog \in Programs /\ given \in Memories
  /\ phase = "check"
  /\ tree = prog.e /\ cx = Context(0)
  /\ pc = [b |-> 0, i |-> 1] /\ regs = <<>> /\ mem = given /\ result = 0

\* walk_pass2, on an expression statement or a return of a function to int.
Check ==
  /\ phase = "check"
  /\ tree' = Infer(prog.e)
  /\ LET mismatch == prog.returns /\ tree'.ty # Invalid /\ ~Assignable(SInt, tree'.ty)
     IN  phase' = IF tree'.bad \/ mismatch THEN "refused" ELSE "lower"
  /\ UNCHANGED <<prog, given, cx, pc, regs, mem, result>>

\* ir_lower_single_stmt, on the same.
Translate ==
  /\ phase = "lower"
  /\ LET x == Lower(cx, tree)
     IN  cx' = Emit(x.cx, "RET", Nothing, <<IF prog.returns THEN x.v ELSE Nothing>>, <<>>, 0)
  /\ phase' = IF cx'.bad THEN "refused" ELSE "run"
  /\ UNCHANGED <<prog, given, tree, pc, regs, mem, result>>

-----------------------------------------------------------------------------
(* The instructions, one a step.                                           *)

SlotBase == 700
Word(o) ==
  CASE o.k = "vreg" -> regs[o.n]
    [] o.k = "imm" -> Means!Wrap(o.n)
    [] o.k = "var" -> Address[o.n]
    [] o.k = "slot" -> SlotBase + o.n
    [] o.k = "none" -> 0
\* What a word of memory is before it is written.
Junk == 43690
At(p) == IF p \in DOMAIN mem THEN mem[p] ELSE Junk
Width(t) == IF t \in DOMAIN Bitcount THEN Bitcount[t] ELSE 16

Instr == cx.code[pc.b][pc.i]
Doing(ops) == phase = "run" /\ Instr.op \in ops
Source(n) == IF n <= Len(Instr.src) THEN Word(Instr.src[n]) ELSE 0
Onwards == pc' = [pc EXCEPT !.i = @ + 1]
Put(v) == regs' = (Instr.dst.n :> v) @@ regs
Going == UNCHANGED <<prog, given, tree, cx>>

Elsewhere == {"LOAD", "STORE", "CALL", "GOTO", "BRANCH", "RET"}
Compute ==
  /\ phase = "run" /\ Instr.op \notin Elsewhere
  /\ LET width == IF Instr.op = "GEP" THEN Instr.a ELSE Width(Instr.src[1].t)
     IN  Put(Means!Meaning(Instr.op, Source(1), Source(2), width))
  /\ Onwards
  /\ UNCHANGED <<phase, mem, result>> /\ Going

\* A byte is the low half of its word.
Read ==
  /\ Doing({"LOAD"})
  /\ Put(Means!Narrow(0, At(Source(1)), Width(Instr.dst.t)))
  /\ Onwards
  /\ UNCHANGED <<phase, mem, result>> /\ Going

Write ==
  /\ Doing({"STORE"})
  /\ LET p == Source(1)
     IN  mem' = (p :> Means!Narrow(At(p), Source(2), Width(Instr.src[2].t))) @@ mem
  /\ Onwards
  /\ UNCHANGED <<phase, regs, result>> /\ Going

\* The helpers of the runtime compute what they are for.
Helping ==
  [__mul |-> "*", __divu |-> "/", __divs |-> "/", __modu |-> "%", __mods |-> "%"]
Answer(f, vs) ==
  IF f \in DOMAIN Helping
  THEN LET t == IF f \in {"__divs", "__mods"} THEN SInt ELSE Unsigned(SInt)
       IN  Operation(Helping[f], t, vs[1], t, vs[2]).v
  ELSE Outcome(f, vs, mem)
Invoke ==
  /\ Doing({"CALL"})
  /\ Put(Means!Wrap(Answer(Instr.a, [n \in DOMAIN Instr.src |-> Source(n)])))
  /\ Onwards
  /\ UNCHANGED <<phase, mem, result>> /\ Going

Jump ==
  /\ Doing({"GOTO", "BRANCH"})
  /\ pc' = [b |-> IF Instr.op = "BRANCH" /\ Source(1) = 0 THEN Instr.tgt[2] ELSE Instr.tgt[1],
            i |-> 1]
  /\ UNCHANGED <<phase, regs, mem, result>> /\ Going

Return ==
  /\ Doing({"RET"})
  /\ phase' = "done" /\ result' = Source(1)
  /\ UNCHANGED <<pc, regs, mem>> /\ Going

Stop == phase \in {"done", "refused"} /\ UNCHANGED vars

Next ==
  \/ Check \/ Translate
  \/ Compute \/ Read \/ Write \/ Invoke \/ Jump \/ Return
  \/ Stop

Spec == Init /\ [][Next]_vars

-----------------------------------------------------------------------------
(* The same program by the rules of C.                                     *)

CTyped == CTree(prog.e)
Legal ==
  /\ ~CTyped.bad
  /\ prog.returns => Converts(SInt, Rvalue(CTyped.ty), CTyped)

\* What the object that begins at an address, or covers it, holds for C.
Holder(p) ==
  LET before == {x \in DOMAIN Declared : Address[x] <= p}
  IN  CHOOSE x \in before : \A y \in before : Address[y] <= Address[x]
Cell(p) == LET t == Declared[Holder(p)] IN IF t.k = "array" THEN t.to[1] ELSE t
Held(m) == [p \in DOMAIN given |-> To(Cell(p), m[p])]

Expected == Evaluate(CTyped, Held(given))

\* The inner nodes, each as pass 2 typed it and as C does.
RECURSIVE Nodes(_, _)
Nodes(t, s) ==
  IF t.kid = <<>> THEN {}
  ELSE {<<t, s>>} \cup UNION {Nodes(t.kid[n], s.kid[n]) : n \in DOMAIN t.kid}
First(t) == t.kid[1]
Last(t) == t.kid[Len(t.kid)]

-----------------------------------------------------------------------------
(***************************************************************************)
(* Where pass 2 and the lowering are stricter than C, and where laxer.     *)
(***************************************************************************)
Divides(t) == t.op \in {"/", "%"} \/ (t.op = "op=" /\ t.a \in {"/", "%"})
PointerAmong(s) == \E n \in DOMAIN s.kid : Rvalue(s.kid[n].ty).k = "ptr"

StricterAt(t, s) ==
  \* A cast has its type as its first child, and the lowering takes that for the operand.
  \/ t.op = "cast"
  \/ Divides(t) /\ Zero(Last(t))
  \* Pointers are neither added to nor subtracted.
  \/ t.op \in {"+", "-", "op="} /\ PointerAmong(s)
  \* Zero is no null pointer.
  \/ t.op \in {"=", "==", "!=", "?:"} /\ PointerAmong(s) /\ \E n \in DOMAIN t.kid : Zero(t.kid[n])
  \/ t.op = "call" /\ \E n \in DOMAIN t.kid : Zero(t.kid[n]) /\ Signature[t.a].params[n].k = "ptr"
  \* An array becomes a pointer only where it is indexed or passed.
  \/ t.op \notin {"index", "&x", "sizeof", "call"} /\ \E n \in DOMAIN t.kid : t.kid[n].ty.k = "array"
  \* Arms that point to const and to what is not.
  \/ t.op = "?:" /\ t.kid[2].ty # t.kid[3].ty /\ t.kid[2].ty.k = "ptr"

LaxerAt(t, s) ==
  LET l == First(t).ty  r == Last(t).ty
  IN  \/ t.op = "op=" /\ (l.c \/ ~Numeric(l))
      \/ t.op \in {"=", "pre", "post"} /\ l.k = "array"
      \/ t.op = "=" /\ l.k = "ptr" /\ l.to # r.to
      \/ t.op = "neg" /\ ~Numeric(l)
      \/ t.op \in Comparisons /\ l.k = "ptr" /\ l.to # r.to

(***************************************************************************)
(* Where values differ from C's. A truth value is one bit, which widens to *)
(* -1; a byte in a register need not be extended as its type says.         *)
(***************************************************************************)
\* The value of an update that has not been made a byte.
Wide(t) ==
  /\ t.ty.k = "char"
  /\ \/ t.op \in {"=", "op=", "pre", "post"} /\ First(t).op = "*p"
     \/ t.op = "op=" /\ t.a \in Helped
Raw(t) == t.op \in Comparisons \cup {"!"} \/ Wide(t)
Byte(t) == t.ty.k = "char" /\ t.op # "chr"
\* Only a byte that is unsigned and comes from memory is the whole word.
Loose(t) == Byte(t) /\ ~(t.ty.u /\ t.op \in {"var", "*p", "index"})

\* An operation on l and r, done with the other sign than C does it with.
OtherSign(op, l, r, x, y) ==
  /\ Numeric(x) /\ Numeric(y)
  /\ \/ op \in {"/", "%", "<", "<=", ">", ">="} /\ EitherUnsigned(l, r) # Usual(x, y).u
     \/ op = ">>" /\ EitherUnsigned(l, r) # Promoted(x).u
\* A byte is extended by the sign of the operation, not by its own.
Misextended(l, r) == \E x \in {l, r} : Byte(x) /\ x.ty.u # EitherUnsigned(l, r)
\* The same for one that is given to an int; through a pointer, none is extended.
Ungiven(l, r, u) ==
  l.ty.k # "char" /\ Byte(r) /\ (IF l.op = "*p" THEN Loose(r) ELSE r.ty.u # u)

DepartsAt(t, s) ==
  LET l == First(t)  r == Last(t)
      x == Rvalue(First(s).ty)  y == Rvalue(Last(s).ty)
  IN CASE t.op \in Binary ->
            \/ Raw(l) \/ Raw(r) \/ Misextended(l, r) \/ OtherSign(t.op, l, r, x, y)
            \/ t.op \in Bits /\ Byte(l)
       \* A comma is an addition.
       [] t.op = "," -> TRUE
       [] t.op \in {"neg", "~"} -> Raw(l) \/ Byte(l)
       [] t.op = "=" -> Raw(r) \/ Ungiven(l, r, l.ty.u)
       [] t.op = "op=" ->
            \/ Raw(r) \/ Ungiven(l, r, EitherUnsigned(l, r)) \/ OtherSign(t.a, l, r, x, y)
            \/ l.ty.k = "char" /\ t.a \in {"/", "%", ">>"}
       [] t.op \in {"!", "&&", "||"} -> Wide(l) \/ Wide(r)
       [] t.op = "?:" ->
            \/ Wide(l)
            \/ IrType(t.kid[2].ty) # IrType(r.ty)
            \/ Byte(r) /\ t.kid[2].ty.u # r.ty.u
       \* Arguments are not converted; for an array its first element is passed.
       [] t.op = "call" ->
            \E n \in DOMAIN t.kid : Loose(t.kid[n]) \/ t.kid[n].ty.k = "array"
       [] t.op = "index" -> Raw(r)
       [] t.op = "sizeof" -> l.ty.k = "array" \/ l.op = "chr"
       [] OTHER -> FALSE

-----------------------------------------------------------------------------
(* Properties.                                                             *)

\* Every register is written by one instruction and, where an instruction
\* reads it, has been; memory and registers hold words.
TypeOK ==
  /\ phase \in {"check", "lower", "run", "done", "refused"}
  /\ phase = "run" =>
       /\ pc.b \in DOMAIN cx.code /\ pc.i \in DOMAIN cx.code[pc.b]
       /\ \A n \in DOMAIN Instr.src : Instr.src[n].k = "vreg" => Instr.src[n].n \in DOMAIN regs
       /\ Instr.dst.k = "vreg" => Instr.dst.n \notin DOMAIN regs
  /\ \A n \in DOMAIN regs : regs[n] \in 0 .. 65535
  /\ \A p \in DOMAIN mem : mem[p] \in 0 .. 65535

\* infer_expr_type refuses what C refuses and nothing else, and what it lets
\* pass can be lowered, but for the forms named above.
AcceptsAsC ==
  /\ phase = "refused" /\ Legal => \E n \in Nodes(tree, CTyped) : StricterAt(n[1], n[2])
  /\ phase = "run" /\ ~Legal => \E n \in Nodes(tree, CTyped) : LaxerAt(n[1], n[2])

\* What the lowered instructions return and leave in memory is what C says,
\* for every legal expression C defines, but for the operators named above; of
\* a byte that is returned only the low half is promised.
ValuesAsC ==
  LET end == Expected
      promised == IF Loose(tree) THEN 256 ELSE 65536
  IN  phase = "done" /\ Legal /\ end.def =>
        \/ \E n \in Nodes(tree, CTyped) : DepartsAt(n[1], n[2])
        \/ /\ Held(mem) = end.m
           /\ prog.returns => (result - end.v) % promised = 0
=============================================================================
