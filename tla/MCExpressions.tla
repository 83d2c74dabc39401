--------------------------- MODULE MCExpressions ---------------------------
(***************************************************************************)
(* Objects of each type, functions, and the expressions of the run: every  *)
(* operator on every leaf, updates of every lvalue, and operators on the   *)
(* values of others.                                                       *)
(***************************************************************************)
EXTENDS Expressions

IntPointer == Pointer(SInt)
Objects ==
  [i |-> SInt, u |-> Unsigned(SInt), c |-> SChar, d |-> Unsigned(SChar), k |-> Const(SInt),
   p |-> IntPointer, q |-> Pointer(SChar), r |-> Pointer(Const(SInt)), v |-> Array(SInt)]
Functions ==
  [f |-> [params |-> <<SInt>>, result |-> SInt],
   fp |-> [params |-> <<IntPointer>>, result |-> SInt],
   g |-> [params |-> <<>>, result |-> IntPointer]]
\* With gaps between them, which belong to no object.
Addresses ==
  [i |-> 10, u |-> 12, c |-> 14, d |-> 16, k |-> 18, p |-> 20, q |-> 22, r |-> 24, v |-> 26]
\* Of a char only the low byte is its value. In order: i, u, c, d, k, p, q, r, v[0], v[1].
Places == 10 .. 27 \ {11, 13, 15, 17, 19, 21, 23, 25}
Cells(ws) == [n \in Places |-> ws[IF n = 27 THEN 10 ELSE n \div 2 - 4]]
Starts ==
  {Cells(<<512, 65533, 43648, 43760, 3, 26, 14, 18, 7, 65535>>),
   Cells(<<65529, 3, 43521, 43523, 65535, 10, 14, 10, 1, 9>>)}

\* f is the identity, fp what its argument points to, g the address of i.
Answers(f, vs, m) ==
  CASE f = "f" -> vs[1]
    [] f = "fp" -> IF vs[1] \in DOMAIN m THEN m[vs[1]] ELSE 0
    [] f = "g" -> Addresses["i"]

Var(x) == T("var", x, <<>>)
Lit(n) == T("int", n, <<>>)
Chr(n) == T("chr", n, <<>>)
Un(op, x) == T(op, "", <<x>>)
Bin(op, x, y) == T(op, "", <<x, y>>)
Upd(op, x, y) == T("op=", op, <<x, y>>)
Step(at, op, x) == T(at, op, <<x>>)
Calls(f, xs) == T("call", f, xs)
If3(x, y, z) == T("?:", "", <<x, y, z>>)

Ints == {Var(x) : x \in {"i", "u", "c", "d"}} \cup {Lit(3)}
Leaves == {Var(x) : x \in DOMAIN Objects} \cup {Lit(3), Lit(0), Chr(65)}
At1(x) == Bin("index", x, Lit(1))
Lvalues ==
  {Var(x) : x \in DOMAIN Objects} \cup {Un("*p", Var(x)) : x \in {"p", "q", "r"}}
    \cup {At1(Var(x)) : x \in {"v", "p"}} \cup {Lit(3)}
Updates == {"+", "-", "*", "/", "%", "&", "|", "^", "<<", ">>"}

Flat ==
  {Bin(op, x, y) : op \in Binary \cup Logicals \cup {","}, x \in Leaves, y \in Leaves}
    \cup {Un(op, x) : op \in {"neg", "~", "!", "sizeof", "&x", "*p"}, x \in Leaves \cup Lvalues}
    \cup {If3(x, y, z) : x \in {Var("i"), Lit(0), Var("v")}, y \in Leaves, z \in Leaves}
    \cup {Calls(f, <<x>>) : f \in {"f", "fp"}, x \in Leaves} \cup {Calls("g", <<>>), Calls("f", <<>>)}
    \cup {Bin("index", x, y) : x \in Leaves, y \in {Lit(0), Chr(0), Var("p"), Var("c")}}
    \cup {T("cast", t, <<Var("i")>>) : t \in {SChar, IntPointer}}
    \cup {Bin("=", x, y) : x \in Lvalues, y \in Leaves \cup {Un("&x", Var(x)) : x \in {"i", "u", "c", "k"}}}
    \cup {Upd(op, x, y) : op \in Updates, x \in Lvalues, y \in Leaves}
    \cup {Step(at, op, x) : at \in {"pre", "post"}, op \in {"+", "-"}, x \in Lvalues}

\* Values of every kind, and values that come with an effect.
Pure ==
  {Bin("+", Var("i"), Var("u")), Bin("-", Var("u"), Lit(3)), Bin("*", Var("c"), Var("d")),
   Bin("/", Var("c"), Lit(3)), Bin("<", Var("i"), Var("u")), Un("!", Var("i")), Un("!", Lit(0)), Un("~", Var("c")), Un("~", Var("d")),
   Un("neg", Var("u")), Bin("&", Var("c"), Var("i")), Bin("&", Var("u"), Var("i")),
   Bin(">>", Var("u"), Lit(3)), At1(Var("v")), Calls("f", <<Var("c")>>), Un("*p", Var("q")),
   Un("*p", Calls("g", <<>>)), If3(Lit(0), Var("c"), Var("d")), If3(Var("i"), Var("c"), Chr(65)),
   Bin("&&", Var("i"), Var("u")), Un("sizeof", Var("c"))}
Effects ==
  {Bin("=", Var("c"), Var("i")), Bin("=", Var("i"), Var("c")), Bin("=", Un("*p", Var("q")), Var("i")),
   Upd("+", Var("c"), Var("i")), Upd("*", Var("c"), Var("i")), Upd("*", Var("d"), Var("i")),
   Upd("-", Var("i"), Var("c")), Upd("+", Un("*p", Var("q")), Var("u")), Step("post", "+", Var("c")),
   Step("pre", "-", Var("d")), Step("post", "-", Un("*p", Var("q"))), Step("pre", "+", Var("p"))}
Nested ==
  {Bin(op, x, y) : op \in Binary \cup Logicals, x \in Pure, y \in Ints}
    \cup {Bin(op, y, x) : op \in Binary \cup Logicals, x \in Pure, y \in Ints}
    \cup {Bin(op, x, y) : op \in Binary \cup Logicals, x \in Effects, y \in {Var("u"), Lit(3)}}
    \cup {Bin(op, y, x) : op \in {"+", "-", "<", "&&", "||"}, x \in Effects, y \in {Var("u"), Lit(3)}}
    \cup {Un(op, x) : op \in {"neg", "~", "!", "*p"}, x \in Pure \cup Effects}
    \cup {Bin("=", Var(x), y) : x \in {"i", "u", "c", "d"}, y \in Pure}
    \cup {Bin("=", Un("*p", Var(x)), y) : x \in {"p", "q"}, y \in Pure}
    \cup {Upd(op, Var(x), y) : op \in {"+", "*", "/", ">>"}, x \in {"i", "u", "c"}, y \in Pure}
    \cup {Bin("=", Var("u"), y) : y \in Effects}
    \cup {If3(x, y, Var("u")) : x \in Pure \cup Effects, y \in Pure}
    \cup {Calls("f", <<x>>) : x \in Pure \cup Effects}
    \cup {At1(Un("&x", At1(Var("v")))), Un("*p", Un("&x", Var("d"))), Bin("index", Var("v"), Bin("<", Lit(0), Lit(3))),
          Bin("+", Un("~", Un("!", Lit(0))), Lit(3))}
    \cup {Calls("fp", <<Un("&x", x)>>) : x \in {Var("i"), Var("c"), At1(Var("v")), Lit(3)}}

\* A value that is a number is returned; any other, or none, is computed only.
Program(e) == [e |-> e, returns |-> Numeric(Rvalue(CTree(e).ty))]
Every ==
  {Program(e) : e \in Flat \cup Nested}
    \cup {[e |-> Var(x), returns |-> TRUE] : x \in DOMAIN Objects}
=============================================================================
