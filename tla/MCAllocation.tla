---------------------------- MODULE MCAllocation ----------------------------
(* Two levels of operators, a register file of five. *)
EXTENDS Allocation, AllocationInputs

MCArgReg == <<1, 2>>
MCPrefNormal == <<3, 5, 1, 2>>
MCPrefCallee == <<5>>

\* The parameters matter to what follows a RET, not to a statement.
MCFunctions ==
  {Function(IF returns THEN 2 ELSE 0, Len(MCArgReg), returns, e) :
     returns \in BOOLEAN, e \in Grow(OneDeep, {PVar, PCall})}
=============================================================================
