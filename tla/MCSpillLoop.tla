---------------------------- MODULE MCSpillLoop -----------------------------
(* A register file of five, to the end: two levels of operators in a block, *)
(* and values kept around the branches of a logical operator or of a        *)
(* conditional expression, which take up to three rounds.                   *)
EXTENDS SpillLoop, AllocationInputs

MCArgReg == <<1, 2>>
MCPrefNormal == <<3, 5, 1, 2>>
MCPrefCallee == <<5>>

\* Those with two calls are the ones that mostly spill; the run of Allocation
\* takes the others through their first allocation.
CallsTwice(f) ==
  Cardinality({k \in DOMAIN f.code[0] : f.code[0][k].op = "CALL"}) >= 2

Nullary == Calling(<<>>)
Branching ==
  {Tree("&&", <<Var, Nullary>>), Tree("?:", <<Var, Calling(<<Var>>), Var>>)}
\* More than the file can take, with branches and without.
Pressing ==
  {Chain(Var, n) : n \in 3 .. 5} \cup {Calls(i, n) : i \in Branching, n \in 1 .. 4}
    \cup {Chain(i, n) : i \in Branching, n \in 1 .. 3}

Shallow == {Var} \cup Grow({Var}, {PVar, PCall})
MCFunctions ==
  {f \in {Function(2, Len(MCArgReg), TRUE, e) : e \in Grow(Shallow, {PVar, PCall})} :
     CallsTwice(f)}
    \cup {Function(2, Len(MCArgReg), FALSE, Results(n)) : n \in {3, 4}}
    \cup {Function(2, Len(MCArgReg), TRUE, e) : e \in Pressing}
=============================================================================
