-------------------------------- MODULE Ir --------------------------------
(***************************************************************************)
(* The three-address IR as the back end sees it (src/IR/ir.h): a function  *)
(* is an array of basic blocks indexed by block id, a block a sequence of  *)
(* instructions whose last one is its terminator.                          *)
(*                                                                         *)
(* An operand is a virtual register or NoVreg, which stands for every      *)
(* other operand kind (slot, global, immediate, none): the passes modelled *)
(* here only ask of an operand whether it is a register and which one.     *)
(* A block id that no block of the function's list carries any more        *)
(* (bmap.by_id[id] = NULL) is a block with no instruction: every pass      *)
(* treats the two alike.                                                   *)
(***************************************************************************)
EXTENDS Naturals, Sequences

CONSTANTS
  NumBlocks,   \* func->next_block_id
  Vreg,        \* the virtual registers 0 .. func->next_vreg-1
  NoVreg       \* an operand that is not a virtual register

ASSUME BlocksAssumption == NumBlocks \in Nat \ {0}
ASSUME VregAssumption == NoVreg \notin Vreg

Block == 0 .. NumBlocks - 1
Entry == 0                       \* ir_lower_function creates bb0 first
Operand == Vreg \cup {NoVreg}

(***************************************************************************)
(* Instructions. "src" holds the operands in order (the arguments of a     *)
(* CALL), "tgt" the successor ids of a terminator: the target of a GOTO,   *)
(* true and false of a BRANCH, default and cases of a SWITCH. ARITH stands *)
(* for every two-operand arithmetic, comparison, cast or GEP.              *)
(***************************************************************************)
Terminators == {"GOTO", "BRANCH", "SWITCH", "RET"}
Opcodes == {"CONST", "COPY", "ARITH", "ADDR_OF", "LOAD", "STORE", "CALL"}
             \cup Terminators

Instr == [op : Opcodes, dst : Operand, src : Seq(Operand), tgt : Seq(Block)]

\* Mutant: the kind of dst is not tested.
InstrDefAnyKind(i) == IF i.op \in Terminators THEN {} ELSE {i.dst}

\* instr_get_def: the register an instruction writes, as a set of at most one.
InstrDef(i) ==
  IF i.op \in {"STORE"} \cup Terminators THEN {} ELSE {i.dst} \ {NoVreg}

\* instr_get_uses: the registers an instruction reads.
InstrUses(i) ==
  IF i.op \in {"GOTO", "ADDR_OF", "CONST"} THEN {}
  ELSE {i.src[n] : n \in 1 .. Len(i.src)} \ {NoVreg}

\* block_get_succs: the successor ids of a block, in the order of the array.
SuccIds(c) ==
  IF c # <<>> /\ c[Len(c)].op \in {"GOTO", "BRANCH", "SWITCH"}
  THEN c[Len(c)].tgt
  ELSE <<>>

SuccSet(c) == {SuccIds(c)[k] : k \in 1 .. Len(SuccIds(c))}

(***************************************************************************)
(* A function body: the code of every block.                               *)
(***************************************************************************)
Body == [Block -> Seq(Instr)]

Preds(code, b) == {p \in Block : b \in SuccSet(code[p])}
=============================================================================
