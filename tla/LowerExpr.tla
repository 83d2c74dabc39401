----------------------------- MODULE LowerExpr ------------------------------
(***************************************************************************)
(* Expression lowering (src/IR/ir_lower_expr.c): the instructions a typed  *)
(* tree becomes, in what order, with the types of their operands. Strings  *)
(* and members are left out.                                               *)
(*                                                                         *)
(* An instruction is [op, dst, src, tgt, a]: where its result goes, its    *)
(* operands, the blocks it names, the callee or the stride. The lowering   *)
(* context is a record of the blocks, the current block, the counters of   *)
(* blocks, registers and result slots, and whether there was a diagnostic. *)
(***************************************************************************)
EXTENDS ExprTypes

\* ir_type_from_sem; what has no type is a word.
IrType(t) ==
  CASE t.k = "char" -> "i8"
    [] t.k = "ptr" -> "ptr"
    [] t.k = "array" -> "arr"
    [] OTHER -> "i16"

Value(k, n, t) == [k |-> k, n |-> n, t |-> t]
Reg(n, t) == Value("vreg", n, t)
Imm(n, t) == Value("imm", n, t)
Named(x) == Value("var", x, "")
SlotRef(n) == Value("slot", n, "")
Nothing == Value("none", 0, "")

Context(regs) ==
  [code |-> [b \in {0} |-> <<>>], cur |-> 0, nb |-> 1, nv |-> regs, ns |-> 0, bad |-> FALSE]

\* ir_instr_push on the current block.
Emit(cx, op, dst, src, tgt, a) ==
  [cx EXCEPT !.code[cx.cur] =
     Append(@, [op |-> op, dst |-> dst, src |-> src, tgt |-> tgt, a |-> a])]
\* What lowering returns: the context, the value, and the type it is said to have.
Val(cx, v) == [cx |-> cx, v |-> v, out |-> v.t]
\* Mutant: the register is not counted.
DefineSame(cx, op, t, src) ==
  LET d == Reg(cx.nv, t) IN Val(Emit(cx, op, d, src, <<>>, 0), d)

\* An instruction with a fresh destination register.
Define(cx, op, t, src) ==
  LET d == Reg(cx.nv, t)
  IN  Val([Emit(cx, op, d, src, <<>>, 0) EXCEPT !.nv = @ + 1], d)
Scaled(cx, base, i, stride) ==
  LET d == Reg(cx.nv, "ptr")
  IN  Val([Emit(cx, "GEP", d, <<base, i>>, <<>>, stride) EXCEPT !.nv = @ + 1], d)
Called(cx, f, t, args) ==
  LET d == Reg(cx.nv, t)
  IN  Val([Emit(cx, "CALL", d, args, <<>>, f) EXCEPT !.nv = @ + 1], d)

AddrOf(cx, o) == Define(cx, "ADDR_OF", "ptr", <<o>>)
Load(p, t) == Define(p.cx, "LOAD", t, <<p.v>>)
Store(cx, p, v) == Emit(cx, "STORE", Nothing, <<p, v>>, <<>>, 0)
Refuse(cx) == Val([cx EXCEPT !.bad = TRUE], Nothing)

\* ir_new_block, ir_seal_goto, ir_seal_branch, and the switch to another block.
NewBlocks(cx, n) ==
  [cx EXCEPT !.nb = @ + n,
             !.code = [b \in 0 .. cx.nb + n - 1 |-> IF b < cx.nb THEN cx.code[b] ELSE <<>>]]
Goto(cx, t) == Emit(cx, "GOTO", Nothing, <<>>, <<t>>, 0)
Branch(p, t, f) == Emit(p.cx, "BRANCH", Nothing, <<p.v>>, <<t, f>>, 0)
Enter(cx, b) == [cx EXCEPT !.cur = b]

-----------------------------------------------------------------------------
(* Conversions.                                                            *)

Bytes == {"i1", "i8"}
Bitcount == [i1 |-> 1, i8 |-> 8, i16 |-> 16]

\* Mutant: every byte is taken for unsigned.
WidenZero(x, u) == IF x.v.t \in Bytes THEN Define(x.cx, "ZEXT", "i16", <<x.v>>) ELSE x

\* maybe_widen
Widen(x, u) ==
  IF x.v.t \in Bytes THEN Define(x.cx, IF u THEN "ZEXT" ELSE "SEXT", "i16", <<x.v>>) ELSE x

\* cast_value: integers by their width, whatever else to a pointer or from one.
Cast(x, t, u) ==
  LET ints == {x.v.t, t} \subseteq DOMAIN Bitcount
      longer == IF ints THEN Bitcount[t] - Bitcount[x.v.t] ELSE 0
  IN  CASE x.v.t = t -> x
        [] ~ints /\ x.v.t # t /\ "ptr" \in {x.v.t, t} -> Define(x.cx, "BITCAST", t, <<x.v>>)
        [] longer > 0 -> Define(x.cx, IF u THEN "ZEXT" ELSE "SEXT", t, <<x.v>>)
        [] longer < 0 -> Define(x.cx, "TRUNC", t, <<x.v>>)
        [] OTHER -> x

\* sem_type_is_unsigned, binop_is_unsigned.
IsUnsigned(t) == Numeric(t) /\ t.u
EitherUnsigned(l, r) == IsUnsigned(l.ty) \/ IsUnsigned(r.ty)

\* binop_opcode, needs_runtime_call. A comma is an addition too.
Opcode(op, u) ==
  CASE op \in {"+", ","} -> "ADD"
    [] op = "-" -> "SUB"
    [] op = "&" -> "AND"
    [] op = "|" -> "OR"
    [] op = "^" -> "XOR"
    [] op = "<<" -> "SHL"
    [] op = ">>" -> IF u THEN "SHRU" ELSE "SHRS"
    [] op = "==" -> "EQ"
    [] op = "!=" -> "NEQ"
    [] op = "<" -> IF u THEN "LTU" ELSE "LTS"
    [] op = "<=" -> IF u THEN "LEU" ELSE "LES"
    [] op = ">" -> IF u THEN "GTU" ELSE "GTS"
    [] op = ">=" -> IF u THEN "GEU" ELSE "GES"
Helped == {"*", "/", "%"}
Helper(op, u) ==
  CASE op = "*" -> "__mul"
    [] op = "/" -> IF u THEN "__divu" ELSE "__divs"
    [] op = "%" -> IF u THEN "__modu" ELSE "__mods"

\* One operation on two values; its result has type t where no helper computes it.
Apply(cx, op, u, t, v, w) ==
  IF op \in Helped THEN Called(cx, Helper(op, u), "i16", <<v, w>>)
  ELSE Define(cx, Opcode(op, u), t, <<v, w>>)

\* ir_type_size_words of an element that is a scalar.
Words == 1
\* sizeof, by the kind of the type alone.
SizeOf(t) == IF t.k = "char" THEN 1 ELSE 2

-----------------------------------------------------------------------------
(* Trees.                                                                  *)

NonZero(x) == LET w == Widen(x, FALSE) IN Define(w.cx, "NEQ", "i1", <<w.v, Imm(0, w.v.t)>>)

\* A constant stored in the result slot of a logical operator.
Result(cx, b, n, s, merge) ==
  LET p == AddrOf(Enter(cx, b), SlotRef(s)) IN Goto(Store(p.cx, p.v, Imm(n, "i16")), merge)

RECURSIVE Lower(_, _), LvalueAddr(_, _), Operands(_, _, _)

\* ir_lower_lvalue_addr. What a pointer points to is given the pointer's type.
LvalueAddr(cx, e) ==
  CASE e.op = "var" -> [AddrOf(cx, Named(e.a)) EXCEPT !.out = IrType(e.ty)]
    [] e.op = "*p" -> Lower(cx, e.kid[1])
    [] e.op = "index" ->
         LET b == e.kid[1]
             base == CASE b.ty.k = "array" -> LvalueAddr(cx, b)
                       [] b.ty.k # "array" /\ b.op = "var" -> Load(LvalueAddr(cx, b), "ptr")
                       [] OTHER -> Lower(cx, b)
             i == Widen(Lower(base.cx, e.kid[2]), FALSE)
         IN  [Scaled(i.cx, base.v, i.v, Words) EXCEPT !.out = IrType(e.ty)]
    [] OTHER -> Refuse(cx)

\* The operands from the n-th on; their values in order.
Operands(cx, es, n) ==
  IF n > Len(es) THEN [cx |-> cx, vs |-> <<>>]
  ELSE LET a == Lower(cx, es[n])
           rest == Operands(a.cx, es, n + 1)
       IN  [cx |-> rest.cx, vs |-> <<a.v>> \o rest.vs]

\* l && r and l || r: four blocks, made before l is lowered.
Logical(cx, and, l, r) ==
  LET rhs == cx.nb  yes == cx.nb + 1  no == cx.nb + 2  merge == cx.nb + 3  s == cx.ns
      p1 == NonZero(Lower([NewBlocks(cx, 4) EXCEPT !.ns = @ + 1], l))
      b1 == Branch(p1, IF and THEN rhs ELSE yes, IF and THEN no ELSE rhs)
      b2 == Branch(NonZero(Lower(Enter(b1, rhs), r)), yes, no)
      done == Result(Result(b2, yes, 1, s, merge), no, 0, s, merge)
  IN  Load(AddrOf(Enter(done, merge), SlotRef(s)), "i16")

\* Each arm is stored with the type of its own value.
Conditional(cx, e) ==
  LET s == cx.ns
      p == NonZero(Lower([cx EXCEPT !.ns = @ + 1], e.kid[1]))
      yes == p.cx.nb  no == p.cx.nb + 1  merge == p.cx.nb + 2
      b == Branch([p EXCEPT !.cx = NewBlocks(@, 3)], yes, no)
      Arm(x, at, arm) ==
        LET v == Lower(Enter(x, at), arm)
            a == AddrOf(v.cx, SlotRef(s))
        IN  Goto(Store(a.cx, a.v, v.v), merge)
      done == Arm(Arm(b, yes, e.kid[2]), no, e.kid[3])
  IN  Load(AddrOf(Enter(done, merge), SlotRef(s)), IrType(e.ty))

Assign(cx, e) ==
  LET p == LvalueAddr(cx, e.kid[1])
      x == Cast(Lower(p.cx, e.kid[2]), p.out, IsUnsigned(e.ty))
  IN  [Val(Store(x.cx, p.v, x.v), x.v) EXCEPT !.out = p.out]

\* lv op= r, ++lv and lv++: address, old value, operand, result, store.
Compound(cx, e) ==
  LET l == e.kid[1]  r == e.kid[2]
      p == LvalueAddr(cx, l)
      old == Load(p, p.out)
      u == EitherUnsigned(l, r)
      x == Cast(Lower(old.cx, r), p.out, u)
      res == Apply(x.cx, e.a, u, p.out, old.v, x.v)
  IN  [Val(Store(res.cx, p.v, res.v), res.v) EXCEPT !.out = p.out]
Increment(cx, e) ==
  LET p == LvalueAddr(cx, e.kid[1])
      old == Load(p, p.out)
      new == Define(old.cx, Opcode(e.a, FALSE), p.out, <<old.v, Imm(1, p.out)>>)
  IN  Val(Store(new.cx, p.v, new.v), IF e.op = "pre" THEN new.v ELSE old.v)

Arithmetic(cx, e) ==
  LET l == Lower(cx, e.kid[1])
      r == Lower(l.cx, e.kid[2])
      u == EitherUnsigned(e.kid[1], e.kid[2])
      lw == Widen([l EXCEPT !.cx = r.cx], u)
      rw == Widen([r EXCEPT !.cx = lw.cx], u)
  IN  Apply(rw.cx, e.op, u, IF e.op \in Comparisons THEN "i1" ELSE IrType(e.ty), lw.v, rw.v)

Lower(cx, e) ==
  CASE e.op \in {"int", "chr"} -> Val(cx, Imm(e.a, IrType(e.ty)))
    [] e.op = "var" -> Load(AddrOf(cx, Named(e.a)), IrType(e.ty))
    [] e.op = "*p" -> Load(Lower(cx, e.kid[1]), IrType(e.ty))
    [] e.op = "index" -> LET p == LvalueAddr(cx, e) IN Load(p, p.out)
    [] e.op = "&x" -> [LvalueAddr(cx, e.kid[1]) EXCEPT !.out = "ptr"]
    [] e.op = "=" -> Assign(cx, e)
    [] e.op = "op=" -> Compound(cx, e)
    [] e.op \in {"pre", "post"} -> Increment(cx, e)
    [] e.op = "sizeof" -> Val(cx, Imm(SizeOf(e.kid[1].ty), "i16"))
    [] e.op = "!" -> LET x == Widen(Lower(cx, e.kid[1]), FALSE)
                     IN  Define(x.cx, "EQ", "i1", <<x.v, Imm(0, x.v.t)>>)
    [] e.op = "neg" -> LET x == Lower(cx, e.kid[1]) IN Define(x.cx, "NEG", x.out, <<x.v>>)
    [] e.op = "~" -> LET x == Lower(cx, e.kid[1]) IN Define(x.cx, "NOT", x.out, <<x.v>>)
    [] e.op \in Logicals -> Logical(cx, e.op = "&&", e.kid[1], e.kid[2])
    [] e.op = "?:" -> Conditional(cx, e)
    [] e.op \in Binary \cup {","} -> Arithmetic(cx, e)
    [] e.op = "call" ->
         LET args == Operands(cx, e.kid, 1) IN Called(args.cx, e.a, IrType(e.ty), args.vs)
    [] e.op = "cast" -> Refuse(cx)
=============================================================================
