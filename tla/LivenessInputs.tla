-------------------------- MODULE LivenessInputs ----------------------------
(***************************************************************************)
(* Inputs of the Liveness runs: control-flow graphs over NumBlocks blocks  *)
(* of the shapes ir_lower produces (bb0 never a target; the last block of  *)
(* a switch clause may be left open, and a pruned id has no block), and    *)
(* the placements of the registers in them that lowering can make: one     *)
(* defining instruction each, before every read of it on every path from   *)
(* the entry.                                                              *)
(***************************************************************************)
EXTENDS Ir, FiniteSets

Targets == Block \ {Entry}
Ret == [op |-> "RET", dst |-> NoVreg, src |-> <<NoVreg>>, tgt |-> <<>>]
Goto(t) == [op |-> "GOTO", dst |-> NoVreg, src |-> <<>>, tgt |-> <<t>>]
Branch(t, f) ==
  [op |-> "BRANCH", dst |-> NoVreg, src |-> <<NoVreg>>, tgt |-> <<t, f>>]

Open == [op |-> "OPEN", dst |-> NoVreg, src |-> <<>>, tgt |-> <<>>]

\* The order of the two targets of a BRANCH is immaterial to liveness.
Terms == {Ret} \cup {Goto(t) : t \in Targets}
           \cup {Branch(t, f) : t \in Targets, f \in Targets}
OneOrder == {e \in Terms : e.op = "BRANCH" => e.tgt[1] < e.tgt[2]}

Const(v) == [op |-> "CONST", dst |-> v, src |-> <<NoVreg>>, tgt |-> <<>>]
Store(v) == [op |-> "STORE", dst |-> NoVreg, src |-> <<NoVreg, v>>,
             tgt |-> <<>>]

VoidCall == [op |-> "CALL", dst |-> NoVreg, src |-> <<>>, tgt |-> <<>>]

\* A register is defined in one block and read in a set of blocks.
Places == [defin : Block, reads : SUBSET Block]

\* Blocks the entry reaches without passing through d.
Avoiding(term, d) ==
  LET closed(S) ==
        /\ Entry \in S \cup {d}
        /\ \A b \in S : \A k \in 1 .. Len(term[b].tgt) : term[b].tgt[k] \in S \cup {d}
  IN  {b \in Block \ {d} : \A S \in SUBSET (Block \ {d}) : closed(S) => b \in S}

Dominated(term, p) == p.reads \cap Avoiding(term, p.defin) = {}

OneOrNone(c, i) == IF c THEN <<i>> ELSE <<>>

\* The registers are numbered from 1; placements are given per register.
RegCode(b, v, p) ==
  (IF p.defin = b THEN <<VoidCall, Const(v)>> ELSE <<>>) \o OneOrNone(b \in p.reads, Store(v))

BodyOf(term, place) ==
  [b \in Block |->
     LET c[n \in 0 .. Cardinality(Vreg)] ==
           IF n = 0 THEN <<>> ELSE c[n - 1] \o RegCode(b, n, place[n])
     IN  c[Cardinality(Vreg)] \o OneOrNone(term[b] # Open, term[b])]

BodiesOver(graphs, places) ==
  UNION { {BodyOf(term, place) :
             place \in [Vreg -> {p \in places : Dominated(term, p)}]}
          : term \in graphs }
=============================================================================
