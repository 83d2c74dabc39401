----------------------------- MODULE MCSpillReal -----------------------------
(* The register file of the machine: r1 - r3 for arguments, r4 - r6 for      *)
(* temporaries (r7 is the code generator's), r8 - r11 preserved by calls.    *)
EXTENDS SpillLoop, AllocationInputs

MCArgReg == <<1, 2, 3>>
MCPrefNormal == <<4, 5, 6, 8, 9, 10, 11, 1, 2, 3>>
MCPrefCallee == <<8, 9, 10, 11>>

\* return *g() = x, return ++*g(), f(*g() = x): the pointer a call returned
\* is still needed when the value of the assignment is.
ThroughResult(v) ==
  {Tree("=", <<Tree("*p", <<PCall>>), v>>), T("pre", "+", <<Tree("*p", <<PCall>>)>>)}
StoredResults ==
  {Function(0, 3, TRUE, e) : e \in ThroughResult(Var)}
    \cup {Function(0, 3, FALSE, Calling(<<e>>)) : e \in ThroughResult(Var)}
=============================================================================
