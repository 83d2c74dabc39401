------------------------------ MODULE Runtime -------------------------------
(***************************************************************************)
(* The software arithmetic of runtime.asm, after macro expansion: one step *)
(* per stretch of code between two labels that a branch or a return goes   *)
(* to. The registers are words of Width bits (sixteen in the machine, whose *)
(* loop counts and shift counts are 16 and 15).                            *)
(***************************************************************************)
EXTENDS Integers, Sequences

CONSTANTS
  Width,      \* bits of a register
  Operands    \* the arguments the helpers are called with

Modulus == 2 ^ Width
Word == 0 .. Modulus - 1
\* Two bits at least: r8 counts the signs of two operands.
ASSUME WordsAssumption == Width \in Nat \ {0, 1} /\ Operands \subseteq Word

\* What a power is, for the powers that occur: the provers do not know it.
ASSUME PowersAssumption ==
  2 ^ 0 = 1 /\ \A n \in 0 .. Width - 1 : 2 ^ (n + 1) = 2 * 2 ^ n

Helpers == {"__mul", "__divu", "__modu", "__divs", "__mods"}

VARIABLES
  helper,  \* what was called (for the properties)
  pc,      \* the label control is at
  r,       \* r1 .. r8
  fp, lr,  \* the frame pointer, and the label to return to
  stack,   \* the words pushed, last first
  home     \* the registers at the call (for the properties)

vars == <<helper, pc, r, fp, lr, stack, home>>

\* What sp is when a helper has pushed fp: no caller's frame pointer.
Frame == Modulus

Init ==
  /\ helper \in Helpers /\ pc = helper
  /\ \E x, y \in Operands, junk \in {0, Modulus - 1} :
       /\ r = [i \in 1 .. 8 |-> CASE i = 1 -> x [] i = 2 -> y [] OTHER -> junk]
       /\ fp = junk
  /\ lr = "returned" /\ stack = <<>>
  /\ home = [r |-> r, fp |-> fp]

-----------------------------------------------------------------------------
\* What a register keeps of a number. Mutant: all of it.
Unbounded(n) == n
Wrap(n) == n % Modulus

Top(w) == w \div (Modulus \div 2)
Negative(w) == Top(w) = 1
NEG(w) == Wrap(0 - w)
Magnitude(w) == IF Negative(w) THEN NEG(w) ELSE w

AndBit(w, b) == (w % 2) * b
XorBit(w, b) == IF w % 2 = 0 THEN w + b ELSE w - b

\* OR(r3, r7) for a bit r7: the macro computes it as a sum without carry, and
\* keeps the common bit in t0, which is r4.
Or(f) ==
  LET t0 == AndBit(f[3], f[7])
  IN  [f EXCEPT ![3] = XorBit(XorBit(@, f[7]), t0), ![4] = t0]

Goto(label) == pc' = label
RET == pc' = lr
SameCall == UNCHANGED <<helper, home>>
SameFrame == UNCHANGED <<fp, lr, stack>>

-----------------------------------------------------------------------------
(***************************************************************************)
(* __mul: shift and add, from the low bit of r2.                           *)
(***************************************************************************)
MulStart ==
  /\ pc = "__mul"
  /\ r' = [r EXCEPT ![3] = 0, ![4] = Width, ![5] = 1]
  /\ Goto("__mul_loop") /\ SameFrame /\ SameCall

\* The sum takes in the multiplicand when the multiplier's low bit is set.
\* Mutant: the multiplicand is doubled first.
AccumulateDoubled(f) == Wrap(f[3] + (f[2] % 2) * (f[1] + f[1]))
Accumulate(f) == Wrap(f[3] + (f[2] % 2) * f[1])

MulLoop ==
  /\ pc = "__mul_loop"
  /\ r' = [r EXCEPT ![6] = r[2] % 2, ![3] = Accumulate(r),
                    ![1] = Wrap(@ + @), ![2] = @ \div 2, ![4] = Wrap(@ - 1)]
  /\ Goto(IF r'[4] = 0 THEN "__mul_done" ELSE "__mul_loop")
  /\ SameFrame /\ SameCall

MulDone ==
  /\ pc = "__mul_done"
  /\ r' = [r EXCEPT ![1] = r[3]]
  /\ RET /\ SameFrame /\ SameCall

(***************************************************************************)
(* __divu and __modu: restoring division, from the high bit of r1. The     *)
(* first keeps the quotient in r4.                                         *)
(***************************************************************************)
DivideStart(label, loop, zero) ==
  /\ pc = label
  /\ IF r[2] = 0 THEN Goto(zero) /\ UNCHANGED r
     ELSE /\ Goto(loop)
          /\ r' = [r EXCEPT ![3] = 0, ![4] = IF label = "__divu" THEN 0 ELSE @,
                            ![5] = Width, ![6] = Width - 1]
  /\ SameFrame /\ SameCall

\* The remainder takes in the next bit of the dividend.
ShiftIn(f, divides) ==
  LET g == Or([f EXCEPT ![3] = Wrap(@ + @),
                        ![4] = IF divides THEN Wrap(@ + @) ELSE @,
                        ![7] = Top(f[1])])
  IN  [g EXCEPT ![1] = Wrap(@ + @)]

\* CMP r3, r2 and BLEU, which is "strictly less".
\* Mutant: BLETU.
NotAbove(f) == f[3] <= f[2]
Below(f) == f[3] < f[2]

Subtract(f, divides) ==
  IF Below(f) THEN f
  ELSE [f EXCEPT ![3] = Wrap(@ - f[2]), ![4] = IF divides THEN Wrap(@ + 1) ELSE @]

DivideLoop(loop, done, divides) ==
  /\ pc = loop
  /\ r' = [Subtract(ShiftIn(r, divides), divides) EXCEPT ![5] = Wrap(@ - 1)]
  /\ Goto(IF r'[5] = 0 THEN done ELSE loop)
  /\ SameFrame /\ SameCall

DivideDone(done, result) ==
  /\ pc = done
  /\ r' = [r EXCEPT ![1] = r[result]]
  /\ RET /\ SameFrame /\ SameCall

DivideByZero(zero) ==
  /\ pc = zero
  /\ r' = [r EXCEPT ![1] = 0]
  /\ RET /\ SameFrame /\ SameCall

(***************************************************************************)
(* __divs and __mods: the helpers above on the magnitudes, around a call   *)
(* that takes lr. r8 counts the negative operands of a quotient, and is 1  *)
(* when a remainder's dividend is negative.                                *)
(***************************************************************************)
Signs(f, label) == IF label = "__divs" THEN Top(f[1]) + Top(f[2]) ELSE Top(f[1])

SignedStart(label, zero, callee, back) ==
  /\ pc = label
  /\ stack' = <<r[8], lr, fp>> \o stack
  /\ fp' = Frame
  /\ IF r[1] = 0 THEN Goto(zero) /\ UNCHANGED <<r, lr>>
     ELSE /\ r' = [r EXCEPT ![1] = Magnitude(@), ![2] = Magnitude(@),
                            ![8] = Signs(r, label)]
          /\ lr' = back /\ Goto(callee)
  /\ SameCall

\* POP(r8), POP(lr), POP(fp), RET.
\* Mutant: r8 is not popped into place.
KeepsR8(f) == f
PopR8(f) == [f EXCEPT ![8] = stack[1]]
Leave(f) ==
  /\ r' = PopR8(f)
  /\ lr' = stack[2] /\ fp' = stack[3]
  /\ stack' = SubSeq(stack, 4, Len(stack))
  /\ Goto(stack[2]) /\ SameCall

DivsBack ==
  /\ pc = "__divs_back"
  /\ Leave([r EXCEPT ![8] = @ % 2, ![1] = IF r[8] % 2 = 0 THEN @ ELSE NEG(@)])
ModsBack ==
  /\ pc = "__mods_back"
  /\ Leave([r EXCEPT ![1] = IF r[8] = 0 THEN @ ELSE NEG(@)])

SignedZero(zero) ==
  /\ pc = zero
  /\ Leave([r EXCEPT ![1] = 0])

Next ==
  \/ MulStart \/ MulLoop \/ MulDone
  \/ DivideStart("__divu", "__divu_loop", "__divu_zero")
  \/ DivideStart("__modu", "__modu_loop", "__modu_zero")
  \/ DivideLoop("__divu_loop", "__divu_done", TRUE)
  \/ DivideLoop("__modu_loop", "__modu_done", FALSE)
  \/ DivideDone("__divu_done", 4) \/ DivideDone("__modu_done", 3)
  \/ DivideByZero("__divu_zero") \/ DivideByZero("__modu_zero")
  \/ SignedStart("__divs", "__divs_zero_dividend", "__divu", "__divs_back")
  \/ SignedStart("__mods", "__mods_zero_dividend", "__modu", "__mods_back")
  \/ DivsBack \/ ModsBack
  \/ SignedZero("__divs_zero_dividend") \/ SignedZero("__mods_zero_dividend")

Spec == Init /\ [][Next]_vars

-----------------------------------------------------------------------------
Labels == {"returned", "__divs_back", "__mods_back"}

\* Registers hold words; the stack is empty or holds one saved frame, and fp
\* points at it.
TypeOK ==
  /\ r \in [1 .. 8 -> Word]
  /\ lr \in Labels
  /\ stack = <<>> \/ stack \in Word \X Labels \X Word
  /\ fp \in IF stack = <<>> THEN Word ELSE {Frame}

\* The arguments.
X == home.r[1]
Y == home.r[2]

\* What __mul has added up and what it still has to add make the product, modulo
\* the word: no carry and no bit of either operand is lost, and what is returned
\* is right for signed operands as well.
ProductCorrect ==
  /\ pc = "__mul_loop" => Wrap(r[3] + r[1] * r[2]) = Wrap(X * Y)
  /\ helper = "__mul" /\ pc = "returned" => r[1] = Wrap(X * Y)

Signed == helper \in {"__divs", "__mods"}
Dividend == IF Signed THEN Magnitude(X) ELSE X
Divisor == IF Signed THEN Magnitude(Y) ELSE Y
Negated(n, minus) == IF minus THEN NEG(n) ELSE n

\* After Width - r5 rounds of a division the remainder is that of the dividend's
\* high bits, and r1 holds the others: doubling it never carries out of r3, however
\* large the divisor, and the comparison without sign is the right one. __modu and
\* __mods return it, with the sign of the dividend, and zero for a zero divisor.
RemaindersCorrect ==
  /\ pc \in {"__divu_loop", "__modu_loop"} =>
       /\ r[3] = (Dividend \div 2 ^ r[5]) % Divisor
       /\ r[1] \div 2 ^ (Width - r[5]) = Dividend % 2 ^ r[5]
  /\ helper \in {"__modu", "__mods"} /\ pc = "returned" =>
       r[1] = IF Y = 0 THEN 0
              ELSE Negated(Dividend % Divisor, helper = "__mods" /\ Negative(X))

\* __divu and __divs return the quotient, truncated, and zero for a zero divisor:
\* what the comments over them promise (runtime.asm:54 and 128).
Quotient == IF Y = 0 THEN 0 ELSE Dividend \div Divisor
OppositeSigns == helper = "__divs" /\ Negative(X) # Negative(Y)
QuotientsCorrect ==
  helper \in {"__divu", "__divs"} /\ pc = "returned" =>
    r[1] = Negated(Quotient, OppositeSigns)

\* What they do return: the quotient's last bit, with the quotient's sign, because
\* the macro OR clears the quotient of the earlier rounds.
QuotientsLastBit ==
  helper \in {"__divu", "__divs"} /\ pc = "returned" =>
    r[1] = Negated(Quotient % 2, OppositeSigns)

\* What the four divisions return.
DivisionsCorrect == RemaindersCorrect /\ QuotientsLastBit

\* What all five helpers return.
ResultsCorrect == ProductCorrect /\ DivisionsCorrect

\* A helper returns to its caller with r8, fp and the stack as they were, also when
\* it calls another helper on the way; __mul leaves r7 alone as well.
RegistersKept ==
  pc = "returned" =>
    /\ r[8] = home.r[8] /\ fp = home.fp
    /\ lr = "returned" /\ stack = <<>>
    /\ helper = "__mul" => r[7] = home.r[7]
=============================================================================
