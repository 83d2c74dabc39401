----------------------------- MODULE ExprTypes ------------------------------
(***************************************************************************)
(* Types of expressions in pass 2 (src/Semantic/semantic_pass2.c):         *)
(* infer_expr_type and the functions it calls, for char and int, signed    *)
(* or not, const or not, pointers and arrays. What a diagnostic says is    *)
(* left out, that there is one is kept.                                    *)
(*                                                                         *)
(* An expression is [op, a, kid]: its operator, what is written in the     *)
(* node (a name, a number, the operator of an assignment, a type), its     *)
(* operands. Inference adds to each node what semantic_set_node_info notes *)
(* of it: its type, whether it is an lvalue, and that it was refused.      *)
(***************************************************************************)
EXTENDS Integers, Sequences

CONSTANTS
  Declared,   \* the type of each object, by its name
  Signature   \* the parameters and the result of each function, by its name

T(op, a, kid) == [op |-> op, a |-> a, kid |-> kid]

\* type_t: the qualifiers unsigned and const; what is pointed to, or the element.
Type(k, u, c, to) == [k |-> k, u |-> u, c |-> c, to |-> to]
SInt == Type("int", FALSE, FALSE, <<>>)
SChar == Type("char", FALSE, FALSE, <<>>)
Unsigned(t) == [t EXCEPT !.u = TRUE]
Const(t) == [t EXCEPT !.c = TRUE]
Pointer(t) == Type("ptr", FALSE, FALSE, <<t>>)
Array(t) == Type("array", FALSE, FALSE, <<t>>)
Invalid == Type("invalid", FALSE, FALSE, <<>>)

Numeric(t) == t.k \in {"int", "char"}
Scalar(t) == Numeric(t) \/ t.k = "ptr"

Sums == {"+", "-", "*", "/"}
Bits == {"&", "|", "^", "<<", ">>"}
Comparisons == {"==", "!=", "<", "<=", ">", ">="}
Logicals == {"&&", "||"}
Binary == Sums \cup {"%"} \cup Bits \cup Comparisons

\* Mutant: what a pointer points to is not compared.
AssignableByKind(l, r) == l.k = r.k \/ (Numeric(l) /\ Numeric(r))

\* assignment_compatible, argument_compatible, is_comparison_compatible
Assignable(l, r) == l = r \/ (Numeric(l) /\ Numeric(r))
Passable(param, t) ==
  Assignable(param, t) \/ (param.k = "ptr" /\ t.k = "array" /\ param.to = t.to)
Comparable(l, r) == Assignable(l, r) \/ (l.k = "ptr" /\ r.k = "ptr")

\* is_constant_zero
Zero(e) == e.op \in {"int", "chr"} /\ e.a = 0

\* What is noted of a node: its type, lvalue or not, and a diagnostic.
Of(ty) == [ty |-> ty, lv |-> FALSE, bad |-> FALSE]
Object(ty) == [ty |-> ty, lv |-> TRUE, bad |-> FALSE]
Refused(ty) == [ty |-> ty, lv |-> FALSE, bad |-> TRUE]
\* An error unless the condition holds; without a type, when it does not.
If(c, ty) == IF c THEN Of(ty) ELSE Refused(ty)
Only(c, ty) == IF c THEN Of(ty) ELSE Refused(Invalid)

\* The checks of an assignment, in order; for an array, those of an initialiser.
Assignment(l, r) ==
  LET lt == l.ty  rt == r.ty
      pointers == lt.k = "ptr" /\ rt.k = "ptr"
  IN  IF Invalid \in {lt, rt} THEN Of(lt)
      ELSE CASE lt.k = "array" -> Only(Assignable(lt.to[1], rt), lt)
             [] pointers ->
                  If(l.lv /\ ~lt.c /\ (rt.to[1].c => lt.to[1].c) /\ lt.to[1].k = rt.to[1].k, lt)
             [] OTHER -> If(l.lv /\ ~lt.c /\ Assignable(lt, rt), lt)

\* infer_operator_type, given the operands.
Operator(e, l, r) ==
  LET lt == l.ty  rt == r.ty
      divides == e.op \in {"/", "%"} \/ (e.op = "op=" /\ e.a \in {"/", "%"})
      known == Invalid \notin {lt, rt}
  IN  IF divides /\ Zero(r) THEN Refused(Invalid)
      ELSE CASE e.op = "=" -> Assignment(l, r)
             [] e.op = "op=" -> If(Invalid \in {lt, rt} \/ Assignable(lt, rt), lt)
             [] e.op \in Sums -> Only(Numeric(lt) /\ Numeric(rt), SInt)
             [] e.op \in Bits -> Only(Numeric(lt) /\ Numeric(rt), lt)
             [] e.op = "~" -> Only(Numeric(lt), lt)
             [] e.op \in {"%"} \cup Comparisons \cup Logicals \cup {"!"} /\ ~known -> Of(Invalid)
             [] e.op = "%" /\ known -> Only(Numeric(lt) /\ Numeric(rt), SInt)
             [] e.op \in Comparisons /\ known -> Only(Comparable(lt, rt), SInt)
             [] e.op \in Logicals \cup {"!"} /\ known -> Only(Scalar(lt) /\ Scalar(rt), SInt)
             [] e.op = "neg" -> Of(IF Numeric(lt) THEN lt ELSE Invalid)
             [] e.op = "sizeof" -> Of(SInt)
             [] e.op = "," -> Of(rt)

Call(e, kid) ==
  LET f == Signature[e.a]
  IN  If(/\ Len(kid) = Len(f.params)
         /\ \A n \in DOMAIN kid : (n <= Len(f.params) /\ kid[n].ty # Invalid) =>
                                     Passable(f.params[n], kid[n].ty),
         f.result)

Ternary(c, x, y) ==
  IF Invalid \in {c, x, y} THEN Of(Invalid)
  ELSE IF Assignable(x, y) THEN Of(x) ELSE Only(Assignable(y, x), y)

Index(base, i) ==
  LET fits == i = Invalid \/ Numeric(i)
  IN  IF base.k \in {"array", "ptr"} THEN [Object(base.to[1]) EXCEPT !.bad = ~fits]
      ELSE [Of(Invalid) EXCEPT !.bad = ~fits \/ base # Invalid]

\* What is noted of a node whose operands have been inferred.
Noted(e, kid) ==
  LET x == kid[1].ty
      y == kid[Len(kid)]
  IN  CASE e.op = "int" -> Of(SInt)
        [] e.op = "chr" -> Of(SChar)
        [] e.op = "var" -> Object(Declared[e.a])
        [] e.op = "call" -> Call(e, kid)
        [] e.op = "?:" -> Ternary(x, kid[2].ty, kid[3].ty)
        [] e.op = "index" -> Index(x, kid[2].ty)
        [] e.op = "cast" -> Of(e.a)
        [] e.op \in {"&x", "*p", "pre", "post"} /\ x = Invalid -> Of(Invalid)
        [] e.op = "&x" /\ x # Invalid -> Only(kid[1].op \in {"var", "index", "*p"}, Pointer(x))
        [] e.op = "*p" /\ x # Invalid -> IF x.k = "ptr" THEN Object(x.to[1]) ELSE Refused(Invalid)
        [] e.op \in {"pre", "post"} /\ x # Invalid -> If(kid[1].lv /\ ~x.c, x)
        [] OTHER -> Operator(e, kid[1], y)

RECURSIVE Infer(_)
Infer(e) ==
  LET kid == [n \in DOMAIN e.kid |-> Infer(e.kid[n])]
      note == Noted(e, kid)
  IN  [op |-> e.op, a |-> e.a, kid |-> kid, ty |-> note.ty, lv |-> note.lv,
       bad |-> note.bad \/ \E n \in DOMAIN kid : kid[n].bad]
=============================================================================
