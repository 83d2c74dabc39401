------------------------------ MODULE Dataflow ------------------------------
(***************************************************************************)
(* What the liveness pass promises, with no worklist, no order and no      *)
(* cursor: blocks are recomputed one at a time, in any order, from the     *)
(* current live-in sets of their successors, until nothing changes in the  *)
(* blocks the entry reaches.                                               *)
(***************************************************************************)
EXTENDS Ir

VARIABLES
  code,                  \* the function being analysed; never changes
  in                     \* live-in set of every block

dvars == <<code, in>>

\* Registers read by the first n instructions of a block before any of them
\* writes it, and registers they write; use[B] and def[B] for all of them.
ExposedUpTo(c, n) ==
  {v \in Vreg : \E k \in 1 .. n :
      /\ v \in InstrUses(c[k])
      /\ \A j \in 1 .. k - 1 : v \notin InstrDef(c[j])}

KilledUpTo(c, n) == {v \in Vreg : \E k \in 1 .. n : v \in InstrDef(c[k])}

UpwardExposed(c) == ExposedUpTo(c, Len(c))
Killed(c) == KilledUpTo(c, Len(c))

Out(f, b) == UNION {f[s] : s \in SuccSet(code[b])}

\* The transfer function of block b applied to the live-in sets f.
Transfer(f, b) == UpwardExposed(code[b]) \cup (Out(f, b) \ Killed(code[b]))

\* f solves the liveness equations of every block in S.
Solves(f, S) == \A b \in S : f[b] = Transfer(f, b)

\* S holds the entry and is closed under control flow.
Closed(S) == Entry \in S /\ \A b \in S : SuccSet(code[b]) \subseteq S

Reachable == {b \in Block : \A S \in SUBSET Block : Closed(S) => b \in S}

Init ==
  /\ code \in Body
  /\ in = [b \in Block |-> {}]

Recompute(b) ==
  /\ in' = [in EXCEPT ![b] = Transfer(in, b)]
  /\ UNCHANGED code

Next == \E b \in Block : Recompute(b)

Fairness == \A b \in Block : WF_dvars(b \in Reachable /\ Recompute(b))

SafeSpec == Init /\ [][Next]_dvars
Spec == SafeSpec /\ Fairness

-----------------------------------------------------------------------------
TypeOK ==
  /\ code \in Body
  /\ in \in [Block -> SUBSET Vreg]

(***************************************************************************)
(* No live-in set ever holds more than any solution of the equations does: *)
(* when the iteration stops it stops at the least one, so no register is   *)
(* kept live (and no colour withheld) without a read that can reach it.    *)
(***************************************************************************)
BelowEverySolution ==
  \A f \in [Block -> SUBSET Vreg] :
    Solves(f, Block) => \A b \in Block : in[b] \subseteq f[b]

\* Recomputing a block can only add to what is stored for it.
Inflationary == \A b \in Block : in[b] \subseteq Transfer(in, b)

\* A step never takes a register out of a live-in set.
Grows == [][\A b \in Block : in[b] \subseteq in'[b]]_dvars

\* The equations of the reachable blocks eventually hold for good.
Converges == <>[]Solves(in, Reachable)
=============================================================================
