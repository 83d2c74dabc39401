----------------------------- MODULE MCArgMoves ------------------------------
(* Three argument registers and the pool of four, as in the machine; one    *)
(* preserved register. Up to two arguments on the stack, then eight, nine   *)
(* and thirteen, which is all there can be.                                 *)
EXTENDS ArgMoves

CONSTANTS a0, a1, a2, t0, t1, t2, t3, s0, imm

MCArgReg == <<a0, a1, a2>>
MCTemps == <<t0, t1, t2, t3>>

\* Up to three arguments: any homes, any destination. Beyond: a temporary,
\* an argument register or a constant on the stack.
Operand == {a0, a1, a2, t0, s0, imm}
Long(n, ops) == [i \in 1 .. n |-> ops[(i % Len(ops)) + 1]]
LongCalls ==
  {Long(n, ops) : n \in {11, 12, 16}, ops \in {<<a0, t0, imm>>, <<a1, a0, imm, s0, a2>>}}
MCCalls ==
  [args : UNION {[1 .. n -> Operand] : n \in 0 .. 3}, dst : {a0, s0, NoDst}]
    \cup [args : UNION {[1 .. n -> Operand] : n \in 4 .. 5}, dst : {s0}]
    \cup [args : [1 .. 4 -> {t0, t1, t2, imm}], dst : {NoDst}]
    \cup [args : LongCalls, dst : {a0, NoDst}]
=============================================================================
