----------------------------- MODULE Relaxation -----------------------------
(***************************************************************************)
(* Branch relaxation (src/CodeGen/codegen.c) and the addresses the         *)
(* assembler gives (src/assembler). Both walk the same text: relaxation    *)
(* counts instructions before the macros are expanded, by a table of their *)
(* sizes; the assembler counts what m4 leaves.                             *)
(***************************************************************************)
EXTENDS Codegen

CONSTANTS Threshold,  \* BRANCH_RELAX_THRESHOLD
          Reach       \* the largest displacement a branch holds: 127

ASSUME RangeAssumption == Threshold \in Nat /\ Reach \in Nat /\ 4 <= Threshold /\ Threshold <= Reach

\* macro_size_instr, for the macros that are emitted
MacroSize ==
  [MOV |-> 1, NEG |-> 1, SLL |-> 1, RET |-> 1, PUSH |-> 2, POP |-> 2, LI |-> 2,
   CALL |-> 2, J |-> 2, COM |-> 2, OR |-> 4]
\* What abi.m4 makes of them.
Expansion ==
  [MOV |-> MOV("a0", "a1"), NEG |-> NEG("a0"), SLL |-> SLL("a0"), RET |-> RET,
   PUSH |-> PUSH("a0"), POP |-> POP("a0"), LI |-> LI("a0", 300),
   CALL |-> CALL("callee"), J |-> J("bb", 1), COM |-> COM("a0"), OR |-> OR("a0", "a1")]
ASSUME SizesAssumption == \A name \in DOMAIN MacroSize : MacroSize[name] = Len(Expansion[name])

-----------------------------------------------------------------------------
(* Positions.                                                              *)

\* line_instr_count, update_lc: labels take no room.
Takes(i) == i.op \notin {"label", "ir"}
\* The instructions before an item.
Place(code, k) == Cardinality({j \in 1 .. k - 1 : Takes(code[j])})
Sites(code, x, n) ==
  {k \in DOMAIN code : code[k].op = "label" /\ code[k].x = x /\ code[k].n = n}
\* Relaxation takes the first label of a name; in the assembler's table a later
\* one replaces it.
FirstSite(code, i) == Min(Sites(code, i.x, i.n))
LastSite(code, i) == Max(Sites(code, i.x, i.n))

\* Mutant: only branches forward.
FarAhead(code) ==
  {k \in DOMAIN code : code[k].op \in Branches
     /\ Place(code, FirstSite(code, code[k])) - Place(code, k) > Threshold}
\* The branches of pass 2 of relax_branches_once.
Far(code) ==
  {k \in DOMAIN code : code[k].op \in Branches
     /\ LET delta == Place(code, FirstSite(code, code[k])) - Place(code, k)
        IN  delta > Threshold \/ delta < -Threshold}

-----------------------------------------------------------------------------
(* Pass 3.                                                                 *)

\* Mutant: the conditional branch keeps its target.
TrampolineKept(i, id) ==
  <<i>> \o To("BR", "skip", id) \o Label("take", id) \o J(i.x, i.n) \o Label("skip", id)
Trampoline(i, id) ==
  To(i.op, "take", id) \o To("BR", "skip", id)
    \o Label("take", id) \o J(i.x, i.n) \o Label("skip", id)

Conditional(code, far) == {k \in far : code[k].op # "BR"}
\* Mutant: the labels are numbered from the start in every round.
RewrittenAnew(code, far, ids) ==
  FlattenSeq([k \in DOMAIN code |->
    CASE k \notin far -> <<code[k]>>
      [] k \in far /\ code[k].op = "BR" -> J(code[k].x, code[k].n)
      [] OTHER -> Trampoline(code[k], Cardinality({j \in Conditional(code, far) : j < k}))])
Rewritten(code, far, ids) ==
  FlattenSeq([k \in DOMAIN code |->
    CASE k \notin far -> <<code[k]>>
      [] k \in far /\ code[k].op = "BR" -> J(code[k].x, code[k].n)
      [] OTHER -> Trampoline(code[k], ids + Cardinality({j \in Conditional(code, far) : j < k}))])

-----------------------------------------------------------------------------
(* The assembler: where an item is, the displacement of a branch, and      *)
(* whether it fits.                                                        *)

\* In bytes: an instruction has two.
Lc(code, k) == 2 * Place(code, k)
Displacement(code, k) == (Lc(code, LastSite(code, code[k])) - Lc(code, k)) \div 2
Fits(d) == d \in -Reach - 1 .. Reach
OutOfRange(code) == {k \in DOMAIN code : code[k].op \in Branches /\ ~Fits(Displacement(code, k))}
=============================================================================
