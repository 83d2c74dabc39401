------------------------------ MODULE Machine -------------------------------
(***************************************************************************)
(* The target: its instructions as the code generator and the assembler    *)
(* use them, and the macros of abi.m4. The processor itself is not in the  *)
(* repository; asm_operations.h and the comments of codegen.c say what an  *)
(* instruction does. A word has 16 bits; data are addressed by words.      *)
(*                                                                         *)
(* An instruction is [op, x, y, n]: two registers, or a label [x, n], and  *)
(* an immediate. Only CMP and RCMPI set the flags, kept as the two numbers *)
(* compared.                                                               *)
(***************************************************************************)
EXTENDS Integers, Sequences

Ins(op, x, y, n) == [op |-> op, x |-> x, y |-> y, n |-> n]
RR(op, x, y) == <<Ins(op, x, y, 0)>>
Label(x, n) == <<Ins("label", x, "", n)>>
To(op, x, n) == <<Ins(op, x, "", n)>>

Wrap(n) == n % 65536
SignedWord(w) == IF w >= 32768 THEN w - 65536 ELSE w

-----------------------------------------------------------------------------
(* abi.m4                                                                  *)

ADDI(x, y, n) == <<Ins("ADDI", x, y, n)>>
IMM(n) == <<Ins("IMM", "", "", n)>>
MOV(x, y) == ADDI(x, y, 0)
PUSH(x) == ADDI("sp", "sp", -1) \o <<Ins("SW", x, "sp", 0)>>
POP(x) == <<Ins("LW", x, "sp", 0)>> \o ADDI("sp", "sp", 1)
NEG(x) == <<Ins("RSUBI", x, "", 0)>>
COM(x) == IMM(4095) \o <<Ins("XORI", x, "", -1)>>
\* The conjunction is kept in t0.
OR(x, y) == MOV("t0", x) \o RR("AND", "t0", y) \o RR("XOR", x, y) \o RR("XOR", x, "t0")
SLL(x) == RR("ADD", x, x)
LI(x, w) == IMM(w \div 16) \o ADDI(x, "r0", w % 16)
\* IMM and JAL, with the halves of the label's address.
J(x, n) == To("IMM", x, n) \o To("JAL", x, n)
RET == <<Ins("RET", "", "lr", 0)>>
CALL(f) == To("IMM", f, 0) \o To("CALL", f, 0)

-----------------------------------------------------------------------------
(* Execution.                                                              *)

\* encode_statement keeps four bits of an immediate; without a prefix the
\* machine takes them for a signed number.
Field(n) == n % 16
Immediate(pre, n) ==
  IF pre # <<>> THEN pre[1] * 16 + Field(n)
  ELSE IF Field(n) >= 8 THEN Wrap(Field(n) - 16) ELSE Field(n)

Digits(op(_, _), v, w) ==
  LET d[k \in 0 .. 16] ==
        IF k = 0 THEN 0
        ELSE d[k - 1] + op((v \div 2 ^ (k - 1)) % 2, (w \div 2 ^ (k - 1)) % 2) * 2 ^ (k - 1)
  IN  d[16]
And(v, w) == Digits(LAMBDA a, b : a * b, v, w)
Xor(v, w) == Digits(LAMBDA a, b : (a + b) % 2, v, w)
Shifted(v, w) == IF w >= 16 THEN 0 ELSE v \div 2 ^ w
ShiftedSigned(v, w) ==
  IF v < 32768 THEN Shifted(v, w) ELSE 65535 - Shifted(65535 - v, w)

\* What an instruction on registers leaves in x.
Result(i, v, w, imm) ==
  CASE i.op = "ADDI" -> Wrap(w + imm)
    [] i.op = "ADD" -> Wrap(v + w)
    [] i.op = "SUB" -> Wrap(v - w)
    [] i.op = "AND" -> And(v, w)
    [] i.op = "XOR" -> Xor(v, w)
    [] i.op = "SRL" -> Shifted(v, w)
    [] i.op = "SRA" -> ShiftedSigned(v, w)
    [] i.op = "RSUBI" -> Wrap(imm - v)
    [] i.op = "ANDI" -> And(v, imm)
    [] i.op = "XORI" -> Xor(v, imm)
Computes == {"ADDI", "ADD", "SUB", "AND", "XOR", "SRL", "SRA", "RSUBI", "ANDI", "XORI"}

Branches == {"BR", "BEQ", "BLT", "BLE", "BLEU", "BLETU"}
\* BLEU is "below", BLETU "below or the same".
Taken(op, c) ==
  CASE op = "BR" -> TRUE
    [] op = "BEQ" -> c[1] = c[2]
    [] op = "BLT" -> SignedWord(c[1]) < SignedWord(c[2])
    [] op = "BLE" -> SignedWord(c[1]) <= SignedWord(c[2])
    [] op = "BLEU" -> c[1] < c[2]
    [] op = "BLETU" -> c[1] <= c[2]
=============================================================================
