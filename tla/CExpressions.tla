---------------------------- MODULE CExpressions ----------------------------
(***************************************************************************)
(* Expressions by the rules of C, on words of sixteen bits and signed      *)
(* bytes: which are legal and of what type, and what they evaluate to. The *)
(* reference pass 2 and lowering are compared with. Sums, differences and  *)
(* products wrap; operands are evaluated from left to right.               *)
(***************************************************************************)
EXTENDS ExprTypes

CONSTANTS
  Address,          \* of each object, by its name
  Outcome(_, _, _)  \* what a function returns: its name, its arguments, memory

\* The type of a value of an object: no array, no qualifier const.
Rvalue(t) == IF t.k = "array" THEN Pointer(t.to[1]) ELSE [t EXCEPT !.c = FALSE]
Promoted(t) == IF t.k = "char" THEN SInt ELSE t
Usual(t, s) == IF Promoted(t).u \/ Promoted(s).u THEN Unsigned(SInt) ELSE SInt

Pointers(t, s) == t.k = "ptr" /\ s.k = "ptr"
SamePointee(t, s) == Rvalue(t.to[1]) = Rvalue(s.to[1])
\* An rvalue of type s, written x, converts to t as if by assignment.
Converts(t, s, x) ==
  \/ Numeric(t) /\ Numeric(s)
  \/ Pointers(t, s) /\ SamePointee(t, s) /\ (s.to[1].c => t.to[1].c)
  \/ t.k = "ptr" /\ Zero(x)
Modifiable(x) == x.lv /\ x.ty.k # "array" /\ ~x.ty.c

\* What C says of a node; "bad" is that a constraint is violated.
CNoted(e, kid) ==
  LET x == Rvalue(kid[1].ty)
      y == Rvalue(kid[Len(kid)].ty)
      r == kid[Len(kid)]
      ints == Numeric(x) /\ Numeric(y)
  IN CASE e.op \in {"int", "chr"} -> Of(SInt)
       [] e.op = "var" -> Object(Declared[e.a])
       [] e.op = "sizeof" -> Of(Unsigned(SInt))
       [] e.op = "cast" -> If(Scalar(e.a) /\ Scalar(x), e.a)
       [] e.op \in {"<<", ">>"} -> If(ints, Promoted(x))
       [] e.op \in {"*", "/", "%", "&", "|", "^"} -> If(ints, Usual(x, y))
       [] e.op \in {"+", "-"} /\ ints -> Of(Usual(x, y))
       [] e.op \in {"+", "-"} /\ x.k = "ptr" /\ Numeric(y) -> Of(x)
       [] e.op = "+" /\ y.k = "ptr" /\ Numeric(x) -> Of(y)
       [] e.op = "-" /\ Pointers(x, y) -> If(SamePointee(x, y), SInt)
       [] e.op \in Comparisons ->
            If(\/ ints
               \/ Pointers(x, y) /\ SamePointee(x, y)
               \/ e.op \in {"==", "!="} /\ x.k = "ptr" /\ Zero(r)
               \/ e.op \in {"==", "!="} /\ y.k = "ptr" /\ Zero(kid[1]), SInt)
       [] e.op \in Logicals \cup {"!"} -> If(Scalar(x) /\ Scalar(y), SInt)
       [] e.op \in {"neg", "~"} -> If(Numeric(x), Promoted(x))
       [] e.op = "," -> Of(y)
       [] e.op = "=" -> If(Modifiable(kid[1]) /\ Converts(x, y, r), x)
       [] e.op = "op=" ->
            If(Modifiable(kid[1]) /\ (ints \/ (x.k = "ptr" /\ Numeric(y) /\ e.a \in {"+", "-"})), x)
       [] e.op \in {"pre", "post"} -> If(Modifiable(kid[1]) /\ Scalar(x), x)
       [] e.op = "&x" -> If(kid[1].lv, Pointer(kid[1].ty))
       [] e.op = "*p" -> IF x.k = "ptr" THEN Object(x.to[1]) ELSE Refused(Invalid)
       [] e.op = "index" ->
            IF x.k = "ptr" /\ Numeric(y) THEN Object(x.to[1]) ELSE Refused(Invalid)
       [] e.op = "?:" ->
            LET t == Rvalue(kid[2].ty)
            IN  IF ~Scalar(x) THEN Refused(Invalid)
                ELSE CASE Numeric(t) /\ Numeric(y) -> Of(Usual(t, y))
                       [] Pointers(t, y) -> If(SamePointee(t, y), IF t.to[1].c THEN t ELSE y)
                       [] t.k = "ptr" /\ Zero(r) -> Of(t)
                       [] y.k = "ptr" /\ Zero(kid[2]) -> Of(y)
                       [] OTHER -> Refused(Invalid)
       [] e.op = "call" ->
            LET f == Signature[e.a]
            IN  If(/\ Len(kid) = Len(f.params)
                   /\ \A n \in DOMAIN kid :
                        n <= Len(f.params) => Converts(f.params[n], Rvalue(kid[n].ty), kid[n]),
                   f.result)
       [] OTHER -> Refused(Invalid)

RECURSIVE CTree(_)
CTree(e) ==
  LET kid == [n \in DOMAIN e.kid |-> CTree(e.kid[n])]
      note == CNoted(e, kid)
  IN  [op |-> e.op, a |-> e.a, kid |-> kid, ty |-> note.ty, lv |-> note.lv,
       bad |-> note.bad \/ \E n \in DOMAIN kid : kid[n].bad]

-----------------------------------------------------------------------------
(* Values: numbers in the range of their type. Memory has them by address. *)

Signed(n, m) == IF n % m >= m \div 2 THEN (n % m) - m ELSE n % m
To(t, n) ==
  CASE t.k = "char" /\ t.u -> n % 256
    [] t.k = "char" /\ ~t.u -> Signed(n, 256)
    [] t.k = "int" /\ ~t.u -> Signed(n, 65536)
    [] OTHER -> n % 65536

\* Division that truncates, its remainder, and shifts of a number in range.
Magnitude(n) == IF n < 0 THEN -n ELSE n
Quotient(m, n) ==
  LET q == Magnitude(m) \div Magnitude(n) IN IF (m < 0) # (n < 0) THEN -q ELSE q
Bit(p) == IF p THEN 1 ELSE 0
Bitwise(op(_, _), m, n) ==
  LET d[k \in 0 .. 16] ==
        IF k = 0 THEN 0
        ELSE d[k - 1] + op((m \div 2 ^ (k - 1)) % 2, (n \div 2 ^ (k - 1)) % 2) * 2 ^ (k - 1)
  IN  d[16]
Defined(op, m, n) ==
  /\ op \in {"/", "%"} => n # 0 /\ ~(m = -32768 /\ n = -1)
  /\ op \in {"<<", ">>"} => n \in 0 .. 15
Computed(op, m, n) ==
  CASE op = "+" -> m + n
    [] op = "-" -> m - n
    [] op = "*" -> Signed(m, 65536) * Signed(n, 65536)
    [] op = "/" -> Quotient(m, n)
    [] op = "%" -> m - n * Quotient(m, n)
    [] op = "&" -> Bitwise(LAMBDA a, b : a * b, m % 65536, n % 65536)
    [] op = "|" -> Bitwise(LAMBDA a, b : a + b - a * b, m % 65536, n % 65536)
    [] op = "^" -> Bitwise(LAMBDA a, b : (a + b) % 2, m % 65536, n % 65536)
    [] op = "<<" -> (m % 2 ^ (16 - n)) * 2 ^ n
    [] op = ">>" -> m \div 2 ^ n
    [] op = "==" -> Bit(m = n)
    [] op = "!=" -> Bit(m # n)
    [] op = "<" -> Bit(m < n)
    [] op = "<=" -> Bit(m <= n)
    [] op = ">" -> Bit(m > n)
    [] op = ">=" -> Bit(m >= n)

\* The result of an operator on values m of type t and n of type s.
Operation(op, t, m, s, n) ==
  LET both == IF Numeric(t) /\ Numeric(s) THEN Usual(t, s) ELSE Pointer(SInt)
      left == IF op \in {"<<", ">>"} THEN Promoted(t) ELSE both
      v == To(left, m)
      w == IF op \in {"<<", ">>"} THEN To(Promoted(s), n) ELSE To(both, n)
  IN  [def |-> Defined(op, v, w),
       v |-> IF ~Defined(op, v, w) THEN 0
             ELSE IF op \in Comparisons THEN Computed(op, v, w) ELSE To(left, Computed(op, v, w))]

\* A value, the memory after it, and whether C defines both.
Got(v, m, def) == [v |-> v, m |-> m, def |-> def]
\* The contents of an object; an array's are its address.
Contents(t, g) ==
  IF t.k = "array" THEN g
  ELSE IF g.v \in DOMAIN g.m THEN [g EXCEPT !.v = g.m[g.v]] ELSE Got(0, g.m, FALSE)
\* A value given to the object at p.
Stored(t, p, g, n) ==
  Got(To(t, n), IF p \in DOMAIN g.m THEN [g.m EXCEPT ![p] = To(t, n)] ELSE g.m,
      g.def /\ p \in DOMAIN g.m)

RECURSIVE Evaluate(_, _), Locate(_, _), Arguments(_, _, _)

Locate(e, m) ==
  CASE e.op = "var" -> Got(Address[e.a], m, TRUE)
    [] e.op = "*p" -> Evaluate(e.kid[1], m)
    [] e.op = "index" ->
         LET b == Evaluate(e.kid[1], m)
             i == Evaluate(e.kid[2], b.m)
         IN  Got(b.v + i.v, i.m, b.def /\ i.def)

Arguments(es, m, n) ==
  IF n > Len(es) THEN [vs |-> <<>>, m |-> m, def |-> TRUE]
  ELSE LET g == Evaluate(es[n], m)
           rest == Arguments(es, g.m, n + 1)
       IN  [vs |-> <<g.v>> \o rest.vs, m |-> rest.m, def |-> g.def /\ rest.def]

Evaluate(e, m) ==
  LET x == e.kid[1]
      y == e.kid[2]
      l == Evaluate(x, m)
      r == Evaluate(y, l.m)
      p == Locate(x, m)
      old == Contents(x.ty, p)
  IN CASE e.op \in {"int", "chr"} -> Got(e.a, m, TRUE)
       [] e.op = "sizeof" ->
            Got(CASE x.ty.k = "char" -> 1 [] x.ty.k = "array" -> 4 [] OTHER -> 2, m, TRUE)
       [] e.op \in {"var", "*p", "index"} -> Contents(e.ty, Locate(e, m))
       [] e.op = "&x" -> p
       [] e.op \in Binary ->
            LET o == Operation(e.op, Rvalue(x.ty), l.v, Rvalue(y.ty), r.v)
            IN  Got(o.v, r.m, l.def /\ r.def /\ o.def)
       [] e.op = "," -> [r EXCEPT !.def = l.def /\ @]
       [] e.op = "neg" -> Got(To(e.ty, -l.v), l.m, l.def)
       [] e.op = "~" -> Got(To(e.ty, -l.v - 1), l.m, l.def)
       [] e.op = "!" -> Got(Bit(l.v = 0), l.m, l.def)
       [] e.op \in Logicals ->
            IF (l.v = 0) = (e.op = "&&") THEN Got(Bit(e.op = "||"), l.m, l.def)
            ELSE Got(Bit(r.v # 0), r.m, l.def /\ r.def)
       [] e.op = "?:" ->
            LET arm == Evaluate(IF l.v # 0 THEN y ELSE e.kid[3], l.m)
            IN  Got(To(e.ty, arm.v), arm.m, l.def /\ arm.def)
       [] e.op = "=" ->
            LET g == Evaluate(y, p.m) IN Stored(x.ty, p.v, [g EXCEPT !.def = p.def /\ @], g.v)
       [] e.op = "op=" ->
            LET g == Evaluate(y, old.m)
                o == Operation(e.a, x.ty, old.v, Rvalue(y.ty), g.v)
            IN  Stored(x.ty, p.v, [g EXCEPT !.def = old.def /\ o.def /\ @], o.v)
       [] e.op \in {"pre", "post"} ->
            LET new == Stored(x.ty, p.v, old, old.v + (IF e.a = "+" THEN 1 ELSE -1))
            IN  IF e.op = "pre" THEN new ELSE [new EXCEPT !.v = old.v]
       [] e.op = "call" ->
            LET args == Arguments(e.kid, m, 1)
                vs == [n \in DOMAIN args.vs |-> To(Signature[e.a].params[n], args.vs[n])]
            IN  Got(Outcome(e.a, vs, args.m), args.m, args.def)
=============================================================================
