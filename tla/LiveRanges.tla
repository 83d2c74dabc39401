----------------------------- MODULE LiveRanges -----------------------------
(***************************************************************************)
(* What liveness means, by paths. Liveness is shown to compute it, and     *)
(* Allocation takes it as the result of ir_liveness_compute. The two agree *)
(* on every block that can run; in dead code the pass may stop short,      *)
(* because a block it does not reach is put on the worklist only if one of *)
(* its successors changes.                                                 *)
(***************************************************************************)
EXTENDS Ir, FiniteSets

\* Written by the instructions j .. k of a block; read from the k-th on
\* before they are written.
WrittenIn(c, j, k) == UNION {InstrDef(c[i]) : i \in j .. k}
ReadFrom(c, k) ==
  UNION {InstrUses(c[j]) \ WrittenIn(c, k, j - 1) : j \in k .. Len(c)}

\* The paths from b of at most NumBlocks blocks: no shortest path to a read
\* visits a block twice.
Paths(code, b) ==
  LET ofLength[n \in 1 .. NumBlocks] ==
        IF n = 1 THEN {<<b>>}
        ELSE UNION {{Append(p, s) : s \in SuccSet(code[p[n - 1]])} : p \in ofLength[n - 1]}
  IN  UNION {ofLength[n] : n \in 1 .. NumBlocks}

\* A register is live into b when some path from b meets a read of it before
\* a write.
LiveInto(code, b) ==
  UNION {ReadFrom(code[p[Len(p)]], 1)
           \ UNION {WrittenIn(code[p[i]], 1, Len(code[p[i]])) : i \in 1 .. Len(p) - 1}
         : p \in Paths(code, b)}

LiveOutOf(code, b) == UNION {LiveInto(code, s) : s \in SuccSet(code[b])}

\* live_after of instruction k of block c.
LiveAfterIn(c, out, k) ==
  {v \in Vreg : v \in ReadFrom(c, k + 1) \/ v \in out \ WrittenIn(c, k + 1, Len(c))}

LiveAfter(code) ==
  [b \in Block |->
     LET out == LiveOutOf(code, b)
     IN  [k \in 1 .. Len(code[b]) |-> LiveAfterIn(code[b], out, k)]]
=============================================================================
