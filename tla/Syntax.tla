------------------------------- MODULE Syntax -------------------------------
(***************************************************************************)
(* Statements of the source language and the tree the parser makes of them *)
(* (src/Parser/parser.y, src/Parser/ASTree.c). Expressions are opaque.     *)
(*                                                                         *)
(* A source statement is [s, kid, a]: its kind, its parts in order, and    *)
(* what the kind needs besides. Its place is the path that leads to it     *)
(* from the body, which also names the expression evaluated there.         *)
(*   expr    a: it opens blocks of its own (a ?: in it)                    *)
(*   decl    a: it has an initialiser                                      *)
(*   if      kid: then, and else if there is one                           *)
(*   for     kid: first clause, body; a = [cond, step]: those present      *)
(*   switch  kid: its clauses, each [s |-> "case" or "default", kid, a]    *)
(*           with a = [value, enum]: the label's value, and whether it is  *)
(*           the name of an enumeration constant                           *)
(***************************************************************************)
EXTENDS Naturals, Sequences

Stmt(s, kid, a) == [s |-> s, kid |-> kid, a |-> a]

CondAt(p) == Append(p, 0)    \* the path of a loop's condition ...
StepAt(p) == Append(p, 9)    \* ... and of the third clause of a for

\* A node of the tree: NodeType, the place it comes from, children, data.
Node(k, id, kid, a) == [k |-> k, id |-> id, kid |-> kid, a |-> a]
Exp(p) == Node("EXPR", p, <<>>, FALSE)
NullNode == Node("NULL", <<>>, <<>>, FALSE)

(***************************************************************************)
(* The rules of the grammar: the node each of them builds from the chains  *)
(* of its parts. NodeAddChild appends the whole chain it is given to the   *)
(* children, and leaves out one that is NULL.                              *)
(***************************************************************************)
\* expression_statement: an empty statement is no node at all.
EmptyStatement == <<>>
ExpressionStatement(p, branches) == <<Node("EXPR", p, <<>>, branches)>>
\* declaration, init_declarator: the initialiser is an assignment behind it.
Declaration(p, init) ==
  <<Node("VAR", p, <<>>, FALSE)>> \o IF init THEN <<Exp(p)>> ELSE <<>>
CompoundStatement(p, kids) == <<Node("BLOCK", p, kids, FALSE)>>
IfStatement(p, arms) == <<Node("IF", p, <<Exp(p)>> \o arms, FALSE)>>
WhileLoop(p, body) == <<Node("WHILE", p, <<Exp(CondAt(p))>> \o body, FALSE)>>
DoWhileLoop(p, body) == <<Node("DO", p, Append(body, Exp(CondAt(p))), FALSE)>>
\* for_loop: a part left out becomes a NODE_NULL.
OrNull(ns) == IF ns = <<>> THEN <<NullNode>> ELSE ns
ForLoop(p, init, a, body) ==
  LET cond == IF a.cond THEN <<Exp(CondAt(p))>> ELSE <<>>
      step == IF a.step THEN <<Exp(StepAt(p))>> ELSE <<>>
  IN  <<Node("FOR", p, OrNull(init) \o OrNull(cond) \o OrNull(step) \o OrNull(body), FALSE)>>
\* switch_statement, switch_body, case_clause, default_clause.
SwitchStatement(p, clauses) == <<Node("SWITCH", p, clauses, FALSE)>>
SwitchClause(k, p, body, label) == <<Node(k, p, body, label)>>
JumpStatement(k, p) ==
  <<Node(CASE k = "break" -> "BREAK" [] k = "continue" -> "CONTINUE"
           [] k = "return" -> "RETURN", p, <<>>, FALSE)>>

RECURSIVE Ast(_, _), AstChain(_, _, _)

\* statement_sequence: chains appended.
AstChain(ss, p, n) ==
  IF n > Len(ss) THEN <<>>
  ELSE Ast(ss[n], Append(p, n)) \o AstChain(ss, p, n + 1)

\* statement: the sibling chain a statement becomes.
Ast(s, p) ==
  LET kids == AstChain(s.kid, p, 1)
  IN CASE s.s = "empty" -> EmptyStatement
       [] s.s = "expr" -> ExpressionStatement(p, s.a)
       [] s.s = "decl" -> Declaration(p, s.a)
       [] s.s = "block" -> CompoundStatement(p, kids)
       [] s.s = "if" -> IfStatement(p, kids)
       [] s.s = "while" -> WhileLoop(p, kids)
       [] s.s = "do" -> DoWhileLoop(p, kids)
       [] s.s = "for" ->
            ForLoop(p, Ast(s.kid[1], Append(p, 1)), s.a, Ast(s.kid[2], Append(p, 2)))
       [] s.s = "switch" -> SwitchStatement(p, kids)
       [] s.s \in {"case", "default"} -> SwitchClause(s.s, p, kids, s.a)
       [] s.s \in {"break", "continue", "return"} -> JumpStatement(s.s, p)

(***************************************************************************)
(* semantic_pass2.c: the statements it accepts. break asks for a loop or a *)
(* switch around it, continue for a loop, a switch for distinct labels.    *)
(***************************************************************************)
\* check_switch_labels: one default, no value and no name twice; a value and
\* the name of an enumeration constant are never compared.
LabelsDistinct(clauses) ==
  \A i, j \in 1 .. Len(clauses) :
    i < j /\ clauses[i].k = clauses[j].k =>
      clauses[i].k = "case" /\ clauses[i].a # clauses[j].a

RECURSIVE Accepted(_, _, _)
\* walk_pass2, with its loop_depth and switch_depth.
Accepted(n, loops, switches) ==
  /\ n.k = "BREAK" => loops + switches > 0
  /\ n.k = "CONTINUE" => loops > 0
  /\ n.k = "SWITCH" => LabelsDistinct(n.kid)
  /\ \A i \in 1 .. Len(n.kid) :
       Accepted(n.kid[i],
                IF n.k \in {"WHILE", "DO", "FOR"} THEN loops + 1 ELSE loops,
                IF n.k = "SWITCH" THEN switches + 1 ELSE switches)

\* Mutant: the last statement of a sequence decides, and an if needs no else.
RECURSIVE ReturnsAnyBranch(_)
ReturnsAnyBranch(n) ==
  CASE n.k = "RETURN" -> TRUE
    [] n.k = "BLOCK" -> \E i \in 1 .. Len(n.kid) : ReturnsAnyBranch(n.kid[i])
    [] n.k = "IF" -> \E i \in 2 .. Len(n.kid) : ReturnsAnyBranch(n.kid[i])
    [] n.k = "DO" -> Len(n.kid) > 0 /\ ReturnsAnyBranch(n.kid[1])
    [] OTHER -> FALSE

\* statement_guarantees_return.
RECURSIVE GuaranteesReturn(_)
GuaranteesReturn(n) ==
  CASE n.k = "RETURN" -> TRUE
    [] n.k = "BLOCK" -> \E i \in 1 .. Len(n.kid) : GuaranteesReturn(n.kid[i])
    [] n.k = "IF" -> Len(n.kid) > 2 /\ GuaranteesReturn(n.kid[2])
                       /\ GuaranteesReturn(n.kid[3])
    [] n.k = "DO" -> Len(n.kid) > 0 /\ GuaranteesReturn(n.kid[1])
    [] OTHER -> FALSE
=============================================================================
