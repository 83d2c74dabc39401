---------------------------- MODULE MCStatements ----------------------------
(***************************************************************************)
(* The programs of the runs: bodies whose statements are nested to depth   *)
(* three, each kind in each other where it makes a difference.             *)
(***************************************************************************)
EXTENDS Statements

E == Stmt("expr", <<>>, FALSE)
Tern == Stmt("expr", <<>>, TRUE)
Brk == Stmt("break", <<>>, FALSE)
Cont == Stmt("continue", <<>>, FALSE)
Ret0 == Stmt("return", <<>>, FALSE)
Empty == Stmt("empty", <<>>, FALSE)
Decl(init) == Stmt("decl", <<>>, init)
B(ss) == Stmt("block", ss, FALSE)
IfS(t) == Stmt("if", <<t>>, FALSE)
IfElse(t, e) == Stmt("if", <<t, e>>, FALSE)
Wh(b) == Stmt("while", <<b>>, FALSE)
DoS(b) == Stmt("do", <<b>>, FALSE)
ForS(i, cond, step, b) == Stmt("for", <<i, b>>, [cond |-> cond, step |-> step])
Case(v, ss) == Stmt("case", ss, [value |-> v, enum |-> FALSE])
EnumCase(v, ss) == Stmt("case", ss, [value |-> v, enum |-> TRUE])
Dflt(ss) == Stmt("default", ss, [value |-> 0, enum |-> FALSE])
Sw(cs) == Stmt("switch", cs, FALSE)

Simple == {E, Tern, Brk, Cont, Ret0}

\* Statements around one inner statement.
Around(b) ==
  {IfS(b), IfElse(b, E), IfElse(Ret0, b), Wh(b), DoS(b), B(<<b, E>>), B(<<Decl(TRUE), b>>),
   ForS(E, TRUE, TRUE, b), ForS(Empty, FALSE, TRUE, b), ForS(Decl(FALSE), TRUE, FALSE, b),
   Sw(<<Case(1, <<b, Brk>>), Case(2, <<>>), Dflt(<<E, Brk>>)>>),
   Sw(<<Case(1, <<E>>), Case(2, <<b, Brk>>)>>),
   Sw(<<Case(1, <<E, Brk>>), Case(2, <<b, Brk>>), Case(3, <<Ret0>>)>>),
   Sw(<<EnumCase(0, <<IfElse(Brk, b), Brk>>), Dflt(<<b, Brk>>)>>),
   Sw(<<Dflt(<<b, Brk>>)>>)}

\* What cannot be lowered, and clauses that do not end in a break.
Odd == {Sw(<<Case(1, <<E, Brk>>), Dflt(<<E>>)>>), Sw(<<Case(1, <<>>), Dflt(<<Tern>>)>>),
        Sw(<<Case(1, <<IfElse(Brk, Ret0)>>), Case(2, <<Ret0>>)>>),
        Wh(Empty), IfS(Empty), DoS(Empty), ForS(Empty, TRUE, TRUE, Empty), IfElse(E, Empty)}

One1 == UNION {Around(b) : b \in Simple} \cup Odd
Two == UNION {Around(b) : b \in One1}
Three == UNION {Around(b) : b \in {Wh(Sw(<<Case(1, <<Brk>>), Dflt(<<IfS(Ret0), Brk>>)>>)),
                                   DoS(Wh(IfElse(Brk, Cont))), ForS(E, TRUE, TRUE, IfS(Cont)),
                                   Sw(<<Case(1, <<Wh(IfS(Brk)), Brk>>)>>)}}

\* A body, with a statement before and after; without them the statement is
\* the last of the function.
Bodies(ss) == {B(<<s>>) : s \in ss} \cup {B(<<E, s, E>>) : s \in ss}

Legal(p) == Accepted(Ast(p, <<>>)[1], 0, 0)

\* Loops the return analysis takes for their bodies, with jumps in them that
\* leave the loop before its return, or after it, or leave another statement.
Returning ==
  {DoS(B(<<b, Ret0>>)) :
     b \in {IfS(Cont), IfS(Brk), IfElse(Brk, Ret0), Cont, IfElse(Ret0, Ret0),
            Wh(IfS(Brk)), DoS(IfS(Cont)), Sw(<<Case(1, <<E, Brk>>), Dflt(<<Ret0>>)>>)}}
  \cup {DoS(B(<<Ret0, b>>)) : b \in {Brk, Cont}}
  \cup {IfElse(Ret0, DoS(IfElse(b, Ret0))) : b \in {Ret0, Cont, B(<<Wh(Brk), Ret0>>)}}

\* Enumeration constants other than 0 as labels, in a table and in a chain.
Enums ==
  {Sw(<<EnumCase(v, <<E, Brk>>), Dflt(<<Tern, Brk>>)>>) : v \in {0, 2}}
  \cup {Sw(<<Case(1, <<E>>), EnumCase(v, <<Ret0>>), EnumCase(3, <<Brk>>)>>) : v \in {0, 2}}

\* Clauses that end in a statement which opens blocks, in front and last.
Open ==
  LET ends == {IfS(E), IfS(Brk), IfElse(E, E), IfElse(Brk, Ret0), Wh(E), DoS(E), DoS(Tern), Tern,
               ForS(E, TRUE, TRUE, E), B(<<IfS(E), Decl(FALSE)>>), Sw(<<Case(1, <<E, Brk>>)>>),
               B(<<Brk, IfS(E)>>)}
  IN  {Sw(<<Case(1, <<b>>), Dflt(<<E, Brk>>)>>) : b \in ends}
      \cup {Sw(<<Case(1, <<b, E>>), Case(2, <<Ret0>>)>>) : b \in ends}
      \cup {Sw(<<Case(1, <<E>>), Dflt(<<E, b>>)>>) : b \in ends}
      \cup {Sw(<<Case(1, <<Brk>>), Case(2, <<b, E>>)>>) : b \in ends}

Ordinary ==
  {p \in Bodies(One1 \cup Two \cup Three \cup Returning \cup Enums \cup Open) : Legal(p)}

\* for (int i = 0; ...): a declaration with an initialiser in a for.
Declaring == {B(<<ForS(Decl(TRUE), TRUE, TRUE, E)>>)}
=============================================================================
