----------------------------- MODULE MCRuntime ------------------------------
(* All operands of a five-bit machine, and on the machine of sixteen bits   *)
(* those where a carry, a sign or the last round makes a difference.        *)
EXTENDS Runtime

AllOperands == 0 .. 31
Borders == {0, 1, 2, 3, 10, 255, 256, 21845, 32767, 32768, 32769, 65533, 65534, 65535}
=============================================================================
