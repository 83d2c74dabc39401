-------------------------- MODULE AllocationInputs --------------------------
(***************************************************************************)
(* Functions for the runs of Allocation and SpillLoop: lowered expressions,*)
(* never instruction sequences put together by hand. The allocator is not  *)
(* told the types: of a lowered instruction it sees the registers, and of  *)
(* the operations that only compute, that they do.                         *)
(***************************************************************************)
EXTENDS Ir, LowerExpr, TLC

\* An int x, a pointer p, functions of up to four ints, and one that returns
\* a pointer.
Taking(n) == [params |-> [k \in 1 .. n |-> SInt], result |-> SInt]
Objects == [x |-> SInt, p |-> Pointer(SInt)]
Signatures ==
  [f0 |-> Taking(0), f1 |-> Taking(1), f2 |-> Taking(2), f3 |-> Taking(3), f4 |-> Taking(4),
   g |-> [params |-> <<>>, result |-> Pointer(SInt)]]

Tree(op, kid) == T(op, "", kid)
Var == T("var", "x", <<>>)
Lit == T("int", 5, <<>>)
Calling(args) == T("call", <<"f0", "f1", "f2", "f3", "f4">>[Len(args) + 1], args)
Updating(op, l, r) == T("op=", op, <<l, r>>)
\* What may be pointed through.
PVar == T("var", "p", <<>>)
PCall == T("call", "g", <<>>)

\* The lvalues and expressions one operator above those of E; a pointer may
\* be any of P.
Lvalues(P) == {Var} \cup {Tree("*p", <<p>>) : p \in P}
Grow(E, P) ==
  {Tree("+", <<a, b>>) : a \in E, b \in E}
    \cup {Calling(<<>>)} \cup {Calling(<<a>>) : a \in E}
    \cup {Calling(<<a, b>>) : a \in E, b \in E}
    \cup {Tree("*p", <<p>>) : p \in P}
    \cup {Tree("=", <<l, a>>) : l \in Lvalues(P), a \in E}
    \cup {Updating(op, l, a) : op \in {"+", "*"}, l \in Lvalues(P), a \in E}
    \cup {T(op, "+", <<l>>) : op \in {"pre", "post"}, l \in Lvalues(P)}

Leaves == {Var, Lit}
OneDeep == Leaves \cup Grow(Leaves, {PVar, PCall})

\* The two operand trees that combine a value with one kept across it.
Chain(e, n) ==
  LET c[k \in 0 .. n] == IF k = 0 THEN e ELSE Tree("+", <<Var, c[k - 1]>>) IN c[n]
Calls(e, n) ==
  LET c[k \in 0 .. n] == IF k = 0 THEN e ELSE Tree("+", <<Var, Calling(<<c[k - 1]>>)>>)
  IN  c[n]
\* A call whose arguments are all kept at once, across each other's calls.
Results(n) == Calling([k \in 1 .. n |-> Calling(<<>>)])

-----------------------------------------------------------------------------
\* An instruction as the passes of the allocator see it.
Register(v) == IF v.k = "vreg" THEN v.n ELSE NoVreg
Seen(i) ==
  [op |-> IF i.op \in Opcodes THEN i.op ELSE "ARITH", dst |-> Register(i.dst),
   src |-> [k \in DOMAIN i.src |-> Register(i.src[k])], tgt |-> i.tgt]

(***************************************************************************)
(* A function with np parameters whose body is "return e;" or "e;": the    *)
(* first registers are the parameters', and those passed in registers are  *)
(* stored to their slots (ir_lower_function). The block opened behind a    *)
(* return, unreachable and with no register in it, is left out.            *)
(***************************************************************************)
Stored(np, regs) ==
  LET c[k \in 0 .. np] ==
        IF k = 0 THEN Context(np)
        ELSE IF k > regs THEN c[k - 1]
        ELSE LET p == AddrOf(c[k - 1], SlotRef(k - 1))
             IN  Store(p.cx, p.v, Reg(k - 1, "i16"))
  IN  c[np]

Returned(x, returns) ==
  Emit(x.cx, "RET", Nothing, <<IF returns THEN x.v ELSE Nothing>>, <<>>, 0)
\* The function the allocator is given, if the instance has room for it.
Shown(cx, np) ==
  IF 0 .. cx.nv - 1 \subseteq Vreg /\ cx.nb <= NumBlocks /\ ~cx.bad
  THEN [code |-> [b \in Block |->
                    IF b < cx.nb THEN [k \in DOMAIN cx.code[b] |-> Seen(cx.code[b][k])] ELSE <<>>],
        nv |-> cx.nv, np |-> np]
  ELSE Assert(FALSE, "the instance is too small, or the function is refused")
\* Lowering after pass 2, and only of what that accepts.
Accepted(tree) == IF tree.bad THEN Assert(FALSE, "pass 2 refuses the function") ELSE tree

Function(np, regs, returns, e) ==
  Shown(Returned(Lower(Stored(np, regs), Accepted(Infer(e))), returns), np)
=============================================================================
