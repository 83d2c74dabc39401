--------------------------- MODULE RuntimeProofs ----------------------------
(***************************************************************************)
(* The helpers of runtime.asm, for words of any width from two bits on and *)
(* for all arguments: what they leave alone (RegistersKept), and from that *)
(* and the arithmetic of words what they compute (ResultsCorrect).         *)
(***************************************************************************)
EXTENDS Runtime, WellFoundedInduction, TLAPS

MulLabels == {"__mul", "__mul_loop", "__mul_done"}
DivideLabels ==
  {"__divu", "__divu_loop", "__divu_done", "__divu_zero",
   "__modu", "__modu_loop", "__modu_done", "__modu_zero"}
SignedLabels == {"__divs", "__mods"}
ZeroLabels == {"__divs_zero_dividend", "__mods_zero_dividend"}
BackLabels == {"__divs_back", "__mods_back"}

\* The type of the registers, without what they hold.
EightRegisters == DOMAIN r = 1 .. 8

\* Control is in the helper that was called: its frame is the caller's still.
Outside ==
  /\ stack = <<>> /\ lr = "returned" /\ fp = home.fp
  /\ r[8] = home.r[8]

\* A signed helper is at work: it has pushed what it changes, and the helper
\* it has called, if any, comes back into it.
Inside ==
  /\ stack = <<home.r[8], "returned", home.fp>>
  /\ helper # "__mul"
  /\ \/ pc \in ZeroLabels
     \/ pc \in DivideLabels /\ lr \in BackLabels
     \/ pc \in BackLabels

(***************************************************************************)
(* The inductive invariant. RegistersKept speaks of the return alone; on   *)
(* the way there one has to know which of the two situations holds, and    *)
(* that __mul, which pushes nothing, is never entered from the others.     *)
(***************************************************************************)
IInv ==
  /\ EightRegisters
  /\ \/ pc \in MulLabels \cup {"returned"} /\ Outside /\ r[7] = home.r[7]
     \/ pc \in DivideLabels \cup SignedLabels \cup {"returned"} /\ Outside /\ helper # "__mul"
     \/ Inside

-----------------------------------------------------------------------------
LEMMA InitInvariant == Init => IInv
BY DEF Init, IInv, EightRegisters, Outside, MulLabels, DivideLabels, SignedLabels, Helpers

\* __mul writes r1 to r6 and calls nobody.
LEMMA MulInvariant == IInv /\ (MulStart \/ MulLoop \/ MulDone) => IInv'
BY DEF IInv, EightRegisters, Outside, Inside, MulLabels, DivideLabels, SignedLabels, ZeroLabels,
       BackLabels, MulStart, MulLoop, MulDone, SameFrame, SameCall, Goto, RET

\* What a step of the unsigned divisions does to the registers at most.
LowRegisters == DOMAIN r' = 1 .. 8 /\ r'[8] = r[8]

\* A step of an unsigned division, whoever called it: it leaves the frame and r8
\* alone, and goes to another of its labels or back to where lr says.
DivideStep ==
  /\ pc \in DivideLabels
  /\ pc' \in DivideLabels \cup {lr}
  /\ LowRegisters /\ SameFrame /\ SameCall

LEMMA DivideStepInvariant == IInv /\ DivideStep => IInv'
<1>. SUFFICES ASSUME IInv, DivideStep PROVE IInv'
  OBVIOUS
<1>1. EightRegisters'
  BY DEF DivideStep, LowRegisters, EightRegisters
<1>2. CASE Outside /\ helper # "__mul"
  BY <1>1, <1>2 DEF IInv, DivideStep, LowRegisters, SameFrame, SameCall, Outside
<1>3. CASE Inside
  <2>1. lr \in BackLabels
    BY <1>3 DEF DivideStep, Inside, DivideLabels, ZeroLabels, BackLabels
  <2>. QED
    BY <1>1, <1>3, <2>1 DEF IInv, DivideStep, SameFrame, SameCall, Inside
<1>. QED
  BY <1>2, <1>3 DEF IInv, DivideStep, DivideLabels, MulLabels

\* The macro OR and the subtraction write r3 and r4, the shift r1 and r7.
Keeps(f, g) == DOMAIN g = 1 .. 8 /\ g[8] = f[8]

LEMMA OrRegisters == ASSUME NEW f, DOMAIN f = 1 .. 8 PROVE Keeps(f, Or(f))
BY DEF Keeps, Or

LEMMA ShiftRegisters ==
  ASSUME NEW f, DOMAIN f = 1 .. 8, NEW d \in BOOLEAN
  PROVE  Keeps(f, ShiftIn(f, d))
<1>. DEFINE g == [f EXCEPT ![3] = Wrap(@ + @),
                           ![4] = IF d THEN Wrap(@ + @) ELSE @,
                           ![7] = Top(f[1])]
            o == Or(g)
<1>1. Keeps(f, g)
  BY DEF Keeps
<1>2. Keeps(g, o)
  <2>1. DOMAIN g = 1 .. 8
    BY <1>1 DEF Keeps
  <2>. HIDE DEF g
  <2>. QED
    BY <2>1, OrRegisters
<1>3. ShiftIn(f, d) = [o EXCEPT ![1] = Wrap(@ + @)]
  BY DEF ShiftIn
<1>. HIDE DEF g, o
<1>. QED
  BY <1>1, <1>2, <1>3 DEF Keeps

LEMMA LoopRegisters ==
  ASSUME EightRegisters, NEW d \in BOOLEAN
  PROVE  Keeps(r, Subtract(ShiftIn(r, d), d))
<1>1. Keeps(r, ShiftIn(r, d))
  BY ShiftRegisters DEF EightRegisters
<1>2. ASSUME NEW f, DOMAIN f = 1 .. 8 PROVE Keeps(f, Subtract(f, d))
  BY <1>2 DEF Subtract, Keeps
<1>. QED
  BY <1>1, <1>2 DEF Keeps

LEMMA DivideInvariant ==
  ASSUME IInv,
         \/ DivideStart("__divu", "__divu_loop", "__divu_zero")
         \/ DivideStart("__modu", "__modu_loop", "__modu_zero")
         \/ DivideLoop("__divu_loop", "__divu_done", TRUE)
         \/ DivideLoop("__modu_loop", "__modu_done", FALSE)
         \/ DivideDone("__divu_done", 4) \/ DivideDone("__modu_done", 3)
         \/ DivideByZero("__divu_zero") \/ DivideByZero("__modu_zero")
  PROVE  IInv'
<1>. USE DEF SameFrame, SameCall, Goto, RET, DivideLabels
<1>. EightRegisters
  BY DEF IInv
<1>1. ASSUME NEW label \in {"__divu", "__modu"}, NEW loop \in DivideLabels,
             NEW zero \in DivideLabels, DivideStart(label, loop, zero)
      PROVE  DivideStep
  BY <1>1 DEF DivideStart, DivideStep, LowRegisters, EightRegisters
<1>2. ASSUME NEW loop \in DivideLabels, NEW done \in DivideLabels, NEW d \in BOOLEAN,
             DivideLoop(loop, done, d)
      PROVE  DivideStep
  <2>1. Keeps(r, Subtract(ShiftIn(r, d), d))
    BY LoopRegisters
  <2>. QED
    BY <1>2, <2>1 DEF DivideLoop, DivideStep, LowRegisters, Keeps
<1>3. ASSUME NEW done \in DivideLabels, NEW k \in {3, 4}, DivideDone(done, k)
      PROVE  DivideStep
  BY <1>3 DEF DivideDone, DivideStep, LowRegisters, EightRegisters
<1>4. ASSUME NEW zero \in DivideLabels, DivideByZero(zero) PROVE DivideStep
  BY <1>4 DEF DivideByZero, DivideStep, LowRegisters, EightRegisters
<1>5. DivideStep
  BY <1>1, <1>2, <1>3, <1>4
<1>. QED
  BY <1>5, DivideStepInvariant

\* A signed helper pushes r8, lr and fp, in this order, before it changes them.
LEMMA SignedStartInvariant ==
  ASSUME IInv, NEW label \in SignedLabels, NEW zero \in ZeroLabels,
         NEW callee \in DivideLabels, NEW back \in BackLabels,
         SignedStart(label, zero, callee, back)
  PROVE  IInv'
<1>1. Outside /\ helper # "__mul"
  BY DEF IInv, SignedStart, Inside, SignedLabels, MulLabels, DivideLabels, ZeroLabels, BackLabels
<1>2. EightRegisters'
  BY DEF IInv, SignedStart, EightRegisters
<1>3. stack' = <<home.r[8], "returned", home.fp>>
  BY <1>1 DEF SignedStart, Outside
<1>4. UNCHANGED <<helper, home>>
  BY DEF SignedStart, SameCall
<1>5. pc' \in ZeroLabels \/ (pc' \in DivideLabels /\ lr' \in BackLabels)
  BY DEF SignedStart, Goto
<1>. QED
  BY <1>1, <1>2, <1>3, <1>4, <1>5 DEF IInv, Inside

\* The end of a signed helper pops what its start has pushed.
LEMMA LeaveInvariant ==
  ASSUME IInv, pc \in ZeroLabels \cup BackLabels,
         NEW f, DOMAIN f = 1 .. 8, Leave(f)
  PROVE  IInv'
<1>1. Inside
  BY DEF IInv, MulLabels, DivideLabels, SignedLabels, ZeroLabels, BackLabels
<1>2. r' = [f EXCEPT ![8] = home.r[8]]
  BY <1>1 DEF Leave, PopR8, Inside
<1>3. lr' = "returned" /\ fp' = home.fp /\ pc' = "returned"
  BY <1>1 DEF Leave, Inside, Goto
<1>4. stack' = <<>>
  BY <1>1 DEF Leave, Inside
<1>5. UNCHANGED <<helper, home>>
  BY DEF Leave, SameCall
<1>6. EightRegisters' /\ r'[8] = home.r[8]
  BY <1>2 DEF EightRegisters
<1>. QED
  BY <1>1, <1>3, <1>4, <1>5, <1>6 DEF IInv, Outside, Inside

LEMMA BackInvariant ==
  ASSUME IInv,
         \/ DivsBack \/ ModsBack
         \/ SignedZero("__divs_zero_dividend") \/ SignedZero("__mods_zero_dividend")
  PROVE  IInv'
<1>. USE DEF ZeroLabels, BackLabels
<1>. EightRegisters
  BY DEF IInv
<1>1. CASE DivsBack
  BY <1>1, LeaveInvariant DEF DivsBack, EightRegisters
<1>2. CASE ModsBack
  BY <1>2, LeaveInvariant DEF ModsBack, EightRegisters
<1>3. CASE SignedZero("__divs_zero_dividend")
  BY <1>3, LeaveInvariant DEF SignedZero, EightRegisters
<1>4. CASE SignedZero("__mods_zero_dividend")
  BY <1>4, LeaveInvariant DEF SignedZero, EightRegisters
<1>. QED
  BY <1>1, <1>2, <1>3, <1>4

LEMMA StepInvariant == IInv /\ [Next]_vars => IInv'
<1>. SUFFICES ASSUME IInv, [Next]_vars PROVE IInv'
  OBVIOUS
<1>1. ASSUME SignedStart("__divs", "__divs_zero_dividend", "__divu", "__divs_back")
      PROVE  IInv'
  BY <1>1, SignedStartInvariant DEF SignedLabels, ZeroLabels, DivideLabels, BackLabels
<1>2. ASSUME SignedStart("__mods", "__mods_zero_dividend", "__modu", "__mods_back")
      PROVE  IInv'
  BY <1>2, SignedStartInvariant DEF SignedLabels, ZeroLabels, DivideLabels, BackLabels
<1>3. CASE UNCHANGED vars
  BY <1>3 DEF vars, IInv, EightRegisters, Outside, Inside
<1>. QED
  BY <1>1, <1>2, <1>3, MulInvariant, DivideInvariant, BackInvariant DEF Next

-----------------------------------------------------------------------------
THEOREM Invariant == Spec => []IInv
BY InitInvariant, StepInvariant, PTL DEF Spec

\* Every helper returns to its caller with r8, the frame pointer and the stack
\* as they were, __mul with r7 too: on words of any width, for all arguments.
THEOREM RegistersCorrect == Spec => []RegistersKept
<1>1. IInv => RegistersKept
  BY DEF IInv, RegistersKept, Outside, Inside, MulLabels, DivideLabels, SignedLabels,
         ZeroLabels, BackLabels
<1>. QED
  BY <1>1, Invariant, PTL


-----------------------------------------------------------------------------
(***************************************************************************)
(* Whole numbers: division, and induction as the provers can use it, which  *)
(* is that a set of natural numbers that is not empty has a least element.  *)
(***************************************************************************)

Smaller == {p \in Nat \X Nat : p[1] < p[2]}

\* The form of induction the proofs below use.
LEMMA LeastNumber ==
  ASSUME NEW S \in SUBSET Nat, S # {}
  PROVE  \E least \in S : \A n \in S : least <= n
<1>1. IsWellFoundedOn(Smaller, Nat)
  BY NatLessThanWellFounded DEF OpToRel, Smaller
<1>2. \E least \in S : \A n \in S : ~(<<n, least>> \in Smaller)
  BY <1>1, WFMin
<1>3. \A m, n \in Nat : <<m, n>> \in Smaller <=> m < n
  BY DEF Smaller
<1>4. \A m, n \in Nat : ~(m < n) => n <= m
  OBVIOUS
<1>. QED
  BY <1>2, <1>3, <1>4

\* Quotient and remainder exist,
LEMMA DivMod ==
  ASSUME NEW a \in Int, NEW m \in Nat \ {0}
  PROVE  /\ a = m * (a \div m) + (a % m)
         /\ a \div m \in Int /\ a % m \in 0 .. m - 1
         /\ a \in Nat => a \div m \in Nat
BY SMT

\* as natural numbers of natural numbers,
LEMMA DivModNat ==
  ASSUME NEW a \in Nat, NEW m \in Nat \ {0}
  PROVE  \E q \in Nat, s \in 0 .. m - 1 : a = m * q + s /\ q = a \div m /\ s = a % m
BY DivMod

\* and there is one pair of them.
LEMMA DivModUnique ==
  ASSUME NEW a \in Int, NEW m \in Nat \ {0}, NEW q \in Int, NEW s \in 0 .. m - 1,
         a = q * m + s
  PROVE  a \div m = q /\ a % m = s
BY SMT

\* A number below twice another, h.
LEMMA Halving ==
  ASSUME NEW n \in Nat, NEW h \in Nat \ {0}, n < 2 * h
  PROVE  /\ n \div h \in {0, 1}
         /\ \E low \in 0 .. h - 1 : n = h * (n \div h) + low
<1>1. PICK q \in Nat, low \in 0 .. h - 1 : q = n \div h /\ n = h * q + low
  BY DivMod
<1>2. q < 2
  <2>1. q >= 2 => h * q >= h * 2
    OBVIOUS
  <2>. QED
    BY <1>1, <2>1
<1>. QED
  BY <1>1, <1>2

-----------------------------------------------------------------------------
(***************************************************************************)
(* Powers of two and words.                                                *)
(***************************************************************************)

Power(n) == 2 ^ n

\* A power as an operator without rules of its own, which the provers handle better.
LEMMA PowerRules ==
  Power(0) = 1 /\ \A n \in 0 .. Width - 1 : Power(n + 1) = 2 * Power(n)
BY PowersAssumption DEF Power

\* Every power is above its exponent: a count of bits fits a word.
LEMMA Powers ==
  \A n \in 0 .. Width : Power(n) \in Nat /\ n < Power(n)
<1>. DEFINE Good(n) == Power(n) \in Nat /\ n < Power(n)
            S == {n \in 0 .. Width : ~Good(n)}
<1>1. Width \in Nat
  BY WordsAssumption
<1>2. SUFFICES ASSUME S # {} PROVE FALSE
  OBVIOUS
<1>3. S \in SUBSET Nat
  BY <1>1
<1>4. PICK least \in S : \A n \in S : least <= n
  <2>. HIDE DEF S
  <2>. QED
    BY <1>2, <1>3, LeastNumber
<1>5. Good(0)
  BY PowerRules
<1>6. least \in 0 .. Width /\ ~Good(least)
  OBVIOUS
<1>7. least \in 1 .. Width
  <2>. HIDE DEF Good
  <2>. QED
    BY <1>1, <1>5, <1>6
<1>8. least - 1 \in 0 .. Width - 1 /\ least - 1 \notin S
  BY <1>1, <1>4, <1>7
<1>9. Good(least - 1)
  BY <1>1, <1>8
<1>10. Power((least - 1) + 1) = 2 * Power(least - 1)
  BY <1>8, PowerRules
<1>11. (least - 1) + 1 = least
  BY <1>7
<1>. QED
  BY <1>1, <1>6, <1>7, <1>9, <1>10, <1>11

\* The rule of the powers, from the larger one down.
LEMMA PowerStep ==
  ASSUME NEW n \in 1 .. Width
  PROVE  Power(n) = 2 * Power(n - 1)
<1>1. n - 1 \in 0 .. Width - 1 /\ (n - 1) + 1 = n
  BY WordsAssumption
<1>. QED
  BY <1>1, PowerRules

Half == Modulus \div 2

\* The sign bit is half of what a word can hold.
LEMMA Halves ==
  /\ Modulus \in Nat \ {0} /\ Half \in Nat \ {0}
  /\ Modulus = 2 * Half /\ Half = Power(Width - 1)
  /\ Modulus = Power(Width) /\ Width < Modulus
<1>1. Width \in 1 .. Width /\ Width - 1 \in 0 .. Width /\ Width \in 0 .. Width
  BY WordsAssumption
<1>2. Power(Width) = 2 * Power(Width - 1)
  BY <1>1, PowerStep
<1>3. /\ Power(Width) \in Nat /\ Power(Width - 1) \in Nat /\ Width < Power(Width)
      /\ 0 < Power(Width - 1)
  BY <1>1, Powers
<1>4. Modulus = Power(Width)
  BY DEF Modulus, Power
<1>. QED
  BY <1>2, <1>3, <1>4 DEF Half

-----------------------------------------------------------------------------
\* What a register keeps of a number is a word, and differs by whole moduli;
LEMMA Wrapping ==
  ASSUME NEW n \in Int
  PROVE  Wrap(n) \in Word /\ \E k \in Int : n = Wrap(n) + Modulus * k
<1>1. n = Modulus * (n \div Modulus) + Wrap(n) /\ n \div Modulus \in Int /\ Wrap(n) \in 0 .. Modulus - 1
  BY Halves, DivMod DEF Wrap
<1>. QED
  BY <1>1, Halves DEF Word

\* so of a sum of two words;
LEMMA WordSums ==
  Word \subseteq Nat /\ \A v, w \in Word : Wrap(v + w) \in Word
<1>1. Word \subseteq Nat
  BY Halves DEF Word
<1>2. ASSUME NEW v \in Word, NEW w \in Word PROVE v + w \in Int
  BY <1>1
<1>. QED
  BY <1>1, <1>2, Wrapping

\* a word that differs by whole moduli is what it keeps;
LEMMA WrapWord ==
  ASSUME NEW w \in Word, NEW k \in Int
  PROVE  Wrap(w + Modulus * k) = w
<1>. w + Modulus * k \in Int /\ w + Modulus * k = k * Modulus + w
  BY Halves DEF Word
<1>. QED
  BY Halves, DivModUnique DEF Wrap, Word

\* of a word it keeps all;
LEMMA WrapSmall == \A w \in Word : Wrap(w) = w
BY WrapWord, Halves DEF Word

\* and of numbers that differ by whole moduli it keeps the same.
LEMMA WrapCongruent ==
  ASSUME NEW a \in Int, NEW b \in Int, NEW k \in Int, a = b + Modulus * k
  PROVE  Wrap(a) = Wrap(b)
<1>1. PICK l \in Int : b = Wrap(b) + Modulus * l
  BY Wrapping
<1>2. a = Wrap(b) + Modulus * (l + k)
  BY <1>1, Wrapping, Halves DEF Word
<1>. QED
  BY <1>2, Wrapping, WrapWord

\* The low bit of a word and the others.
LEMMA LowBit ==
  ASSUME NEW w \in Word
  PROVE  w % 2 \in {0, 1} /\ w \div 2 \in Word /\ w = 2 * (w \div 2) + (w % 2)
<1>1. w \in Nat /\ w < Modulus
  BY Halves DEF Word
<1>2. w = 2 * (w \div 2) + (w % 2) /\ w \div 2 \in Nat /\ w % 2 \in 0 .. 1
  BY <1>1, DivMod
<1>. QED
  BY <1>1, <1>2, Halves DEF Word

\* The high bit of a word, and what is left after a shift.
LEMMA HighBit ==
  ASSUME NEW w \in Word
  PROVE  /\ Top(w) \in {0, 1}
         /\ \E low \in 0 .. Half - 1 : w = Half * Top(w) + low /\ Wrap(w + w) = 2 * low
<1>1. w \in Nat /\ w < 2 * Half
  BY Halves DEF Word
<1>2. /\ Half \in Nat \ {0} /\ Modulus = 2 * Half
      /\ Top(w) = w \div Half
  BY Halves DEF Top, Half
<1>3. PICK low \in 0 .. Half - 1 : Top(w) \in {0, 1} /\ w = Half * Top(w) + low
  BY <1>1, <1>2, Halving
<1>4. w + w = 2 * low + Modulus * Top(w) /\ 2 * low \in Word
  <2>1. CASE Top(w) = 0
    BY <1>2, <1>3, <2>1 DEF Word
  <2>2. CASE Top(w) = 1
    BY <1>2, <1>3, <2>2 DEF Word
  <2>. QED
    BY <1>3, <2>1, <2>2
<1>5. Wrap(w + w) = 2 * low
  BY <1>3, <1>4, WrapWord
<1>. QED
  BY <1>3, <1>5

\* NEG and the magnitude of a word are words, and only zero has none.
LEMMA Magnitudes ==
  ASSUME NEW w \in Word
  PROVE  /\ NEG(w) \in Word /\ Magnitude(w) \in Word
         /\ Magnitude(w) = 0 <=> w = 0
<1>1. 0 - w \in Int
  BY Halves DEF Word
<1>2. NEG(w) \in Word
  BY <1>1, Wrapping DEF NEG
<1>3. w # 0 => NEG(w) # 0
  <2>1. w # 0 => Modulus - w \in Word /\ 0 - w = (Modulus - w) + Modulus * (0 - 1)
    BY Halves DEF Word
  <2>2. w # 0 => NEG(w) = Modulus - w
    BY <2>1, WrapWord DEF NEG
  <2>. QED
    BY <2>1, <2>2, Halves DEF Word
<1>4. 0 \in Word /\ NEG(0) = 0
  BY Halves, WrapSmall DEF NEG, Word
<1>. QED
  BY <1>2, <1>3, <1>4 DEF Magnitude

-----------------------------------------------------------------------------
(***************************************************************************)
(* One round of each loop.                                                 *)
(***************************************************************************)

\* __mul: what r3, r1 and r2 promise together is not changed by a round.
LEMMA MulRound ==
  ASSUME NEW sum \in Word, NEW x \in Word, NEW y \in Word
  PROVE  Wrap(Wrap(sum + (y % 2) * x) + Wrap(x + x) * (y \div 2)) = Wrap(sum + x * y)
<1>. DEFINE b == y % 2
            h == y \div 2
<1>1. /\ sum \in Int /\ x \in Int /\ y \in Int /\ b \in Int /\ h \in Int /\ y = 2 * h + b
      /\ Modulus \in Int
  BY LowBit, Halves DEF Word
<1>. HIDE DEF b, h
<1>2. sum + b * x \in Int /\ x + x \in Int
  BY <1>1
<1>3. PICK k \in Int : sum + b * x = Wrap(sum + b * x) + Modulus * k
  BY <1>2, Wrapping
<1>4. PICK l \in Int : x + x = Wrap(x + x) + Modulus * l
  BY <1>2, Wrapping
<1>. DEFINE s == Wrap(sum + b * x)
            d == Wrap(x + x)
<1>5. s \in Int /\ d \in Int
  BY <1>2, Wrapping, Halves DEF Word
<1>. HIDE DEF s, d
<1>6. sum + x * y = (s + d * h) + Modulus * (k + l * h)
  <2>1. x * y = (x + x) * h + b * x
    BY <1>1
  <2>2. (x + x) * h = d * h + Modulus * (l * h)
    <3>1. x + x = d + Modulus * l
      BY <1>4 DEF d
    <3>2. (d + Modulus * l) * h = d * h + (Modulus * l) * h
      BY <1>1, <1>5
    <3>3. (Modulus * l) * h = Modulus * (l * h)
      BY <1>1
    <3>. QED
      BY <3>1, <3>2, <3>3
  <2>3. Modulus * (k + l * h) = Modulus * k + Modulus * (l * h)
    BY <1>1
  <2>4. sum + b * x = s + Modulus * k
    BY <1>3 DEF s
  <2>. QED
    BY <1>1, <1>5, <2>1, <2>2, <2>3, <2>4
<1>7. sum + x * y \in Int /\ s + d * h \in Int /\ k + l * h \in Int
  BY <1>1, <1>5
<1>8. Wrap(sum + x * y) = Wrap(s + d * h)
  BY <1>6, <1>7, WrapCongruent
<1>. QED
  BY <1>8 DEF s, d, b, h

\* and the registers stay words; r2 loses a bit.
LEMMA MulWords ==
  ASSUME NEW sum \in Word, NEW x \in Word, NEW y \in Word
  PROVE  /\ y % 2 \in Word /\ y \div 2 \in Word
         /\ Wrap(sum + (y % 2) * x) \in Word /\ Wrap(x + x) \in Word
         /\ \A p \in Nat : y < 2 * p => y \div 2 < p
<1>1. PICK b \in {0, 1}, h \in Word : b = y % 2 /\ h = y \div 2 /\ y = 2 * h + b
  BY LowBit
<1>2. sum \in Nat /\ x \in Nat /\ h \in Nat /\ Word \subseteq Nat
  BY WordSums
<1>3. sum + b * x \in Int
  BY <1>2
<1>4. \A p \in Nat : 2 * h + b < 2 * p => h < p
  BY <1>2
<1>5. {0, 1} \subseteq Word
  BY Halves DEF Word
<1>6. Wrap(sum + b * x) \in Word /\ Wrap(x + x) \in Word
  BY <1>3, Wrapping, WordSums
<1>. QED
  BY <1>1, <1>4, <1>5, <1>6

\* The next binary digit of a number, from the high end.
LEMMA NextDigit ==
  ASSUME NEW n \in Nat, NEW p \in Nat \ {0}
  PROVE  \E t \in {0, 1} :
           /\ n % (2 * p) = p * t + (n % p)
           /\ n \div p = 2 * (n \div (2 * p)) + t
<1>1. 2 * p \in Nat \ {0}
  OBVIOUS
<1>2. PICK a \in Nat, b \in 0 .. 2 * p - 1 :
         n = (2 * p) * a + b /\ a = n \div (2 * p) /\ b = n % (2 * p)
  BY <1>1, DivModNat
<1>3. PICK t \in {0, 1}, low \in 0 .. p - 1 : b = p * t + low
  <2>1. b \in Nat /\ b < 2 * p
    OBVIOUS
  <2>. QED
    BY <2>1, Halving
<1>4. n = (2 * a + t) * p + low
  <2>1. n = (2 * p) * a + (p * t + low)
    BY <1>2, <1>3
  <2>. QED
    BY <2>1
<1>5. n \div p = 2 * a + t /\ n % p = low
  <2>1. 2 * a + t \in Int
    BY <1>2
  <2>. QED
    BY <1>4, <2>1, DivModUnique
<1>. QED
  BY <1>2, <1>3, <1>5

\* How a remainder and a quotient take in a digit.
LEMMA TakeDigit ==
  ASSUME NEW a \in Nat, NEW t \in {0, 1}, NEW v \in Nat \ {0}
  PROVE  LET s == 2 * (a % v) + t
         IN  /\ a % v \in 0 .. v - 1 /\ s <= 2 * a + t
             /\ s < v => /\ (2 * a + t) % v = s
                         /\ ((2 * a + t) \div v) % 2 = 0
             /\ s >= v => /\ (2 * a + t) % v = s - v
                          /\ ((2 * a + t) \div v) % 2 = 1
<1>1. PICK q \in Nat, m \in 0 .. v - 1 : a = v * q + m /\ q = a \div v /\ m = a % v
  BY DivModNat
<1>. DEFINE s == 2 * m + t
<1>a. a = v * q + m
  BY <1>1
<1>2. 2 * a + t \in Int /\ v * q \in Nat
  BY <1>1
<1>3. ASSUME s < v
      PROVE  (2 * a + t) % v = s /\ ((2 * a + t) \div v) % 2 = 0
  <2>1. 2 * a + t = (2 * q) * v + s /\ 2 * q \in Int /\ s \in 0 .. v - 1
    BY <1>a, <1>3
  <2>2. (2 * a + t) % v = s /\ (2 * a + t) \div v = 2 * q
    <3>. HIDE DEF s
    <3>. QED
      BY <1>2, <2>1, DivModUnique
  <2>3. 2 * q = q * 2 + 0
    BY <1>1
  <2>4. (2 * q) % 2 = 0
    BY <1>1, <2>1, <2>3, DivModUnique
  <2>. QED
    BY <2>2, <2>4
<1>4. ASSUME s >= v
      PROVE  (2 * a + t) % v = s - v /\ ((2 * a + t) \div v) % 2 = 1
  <2>1. 2 * a + t = (2 * q + 1) * v + (s - v) /\ 2 * q + 1 \in Int /\ s - v \in 0 .. v - 1
    BY <1>a, <1>4
  <2>2. (2 * a + t) % v = s - v /\ (2 * a + t) \div v = 2 * q + 1
    <3>. HIDE DEF s
    <3>. QED
      BY <1>2, <2>1, DivModUnique
  <2>3. 2 * q + 1 = q * 2 + 1
    BY <1>1
  <2>4. (2 * q + 1) % 2 = 1
    BY <1>1, <2>1, <2>3, DivModUnique
  <2>. QED
    BY <2>2, <2>4
<1>5. s <= 2 * a + t
  BY <1>1, <1>2
<1>. QED
  BY <1>1, <1>3, <1>4, <1>5

Registers == [1 .. 8 -> Word]

\* The shift at the head of a division's loop. After it r3 is even, so that the
\* macro OR adds the bit, and leaves nothing of r4.
LEMMA ShiftInValues ==
  ASSUME NEW f \in Registers, NEW d \in BOOLEAN
  PROVE  LET g == ShiftIn(f, d)
         IN  /\ g \in Registers
             /\ g[1] = Wrap(f[1] + f[1]) /\ g[2] = f[2]
             /\ g[3] = Wrap(f[3] + f[3]) + Top(f[1]) /\ g[4] = 0
             /\ g[5] = f[5] /\ g[6] = f[6] /\ g[7] = Top(f[1]) /\ g[8] = f[8]
<1>. DEFINE h == [f EXCEPT ![3] = Wrap(@ + @),
                           ![4] = IF d THEN Wrap(@ + @) ELSE @,
                           ![7] = Top(f[1])]
<1>1. f[1] \in Word /\ f[3] \in Word /\ f[4] \in Word /\ DOMAIN f = 1 .. 8
  BY DEF Registers
<1>2. PICK low \in 0 .. Half - 1 : Wrap(f[3] + f[3]) = 2 * low
  BY <1>1, HighBit
<1>3. Top(f[1]) \in {0, 1}
  BY <1>1, HighBit
<1>a. Half \in Nat /\ Modulus = 2 * Half /\ low \in Nat
  BY Halves
<1>b. {0, 1} \subseteq Word /\ 2 * low \in Word /\ 2 * low + Top(f[1]) \in Word
  BY <1>3, <1>a DEF Word
<1>c. h \in Registers
  <2>1. Wrap(f[4] + f[4]) \in Word /\ f[4] \in Word
    BY <1>1, WordSums
  <2>. QED
    BY <1>2, <1>3, <1>b, <2>1 DEF Registers
<1>4. /\ DOMAIN h = 1 .. 8 /\ h[1] = f[1] /\ h[2] = f[2] /\ h[3] = 2 * low
      /\ h[5] = f[5] /\ h[6] = f[6] /\ h[7] = Top(f[1]) /\ h[8] = f[8]
  BY <1>1, <1>2
<1>. HIDE DEF h
<1>5. (2 * low) % 2 = 0
  <2>1. 2 * low = low * 2 + 0
    OBVIOUS
  <2>. QED
    BY <2>1, DivModUnique
<1>6. AndBit(h[3], h[7]) = 0
  BY <1>3, <1>4, <1>5 DEF AndBit
<1>7. XorBit(XorBit(h[3], h[7]), 0) = 2 * low + Top(f[1])
  BY <1>3, <1>4, <1>5 DEF XorBit
<1>8. Or(h) = [h EXCEPT ![3] = 2 * low + Top(f[1]), ![4] = 0]
  BY <1>6, <1>7 DEF Or
<1>9. ShiftIn(f, d) = [Or(h) EXCEPT ![1] = Wrap(@ + @)]
  BY DEF ShiftIn, h
<1>10. Or(h) \in Registers /\ Wrap(f[1] + f[1]) \in Word
  BY <1>1, <1>8, <1>b, <1>c, WordSums, ZenonT(30) DEF Registers
<1>. QED
  BY <1>2, <1>4, <1>8, <1>9, <1>10 DEF Registers

\* The state of a division of n by v before the round for bit k.
Round(f, k, n, v) ==
  /\ k \in 0 .. Width /\ Power(k) * Power(Width - k) = Modulus
  /\ f[1] = (n % Power(k)) * Power(Width - k)
  /\ f[2] = v
  /\ f[3] = (n \div Power(k)) % v

\* Before the first round all bits are left, and the quotient is zero.
LEMMA FirstRound ==
  ASSUME NEW f \in Registers, NEW n \in Word, NEW v \in Word \ {0},
         f[1] = n, f[2] = v, f[3] = 0
  PROVE  /\ Round(f, Width, n, v)
         /\ ((n \div Power(Width)) \div v) % 2 = 0
<1>1. Width \in 0 .. Width /\ Width - Width = 0
  BY WordsAssumption
<1>2. Power(Width) = Modulus /\ Power(0) = 1 /\ Modulus \in Nat \ {0}
  BY Halves, PowerRules
<1>3. n \in 0 .. Modulus - 1 /\ n = 0 * Modulus + n /\ v \in Nat \ {0} /\ n \in Int
  BY <1>2 DEF Word
<1>4. n \div Modulus = 0 /\ n % Modulus = n
  BY <1>2, <1>3, DivModUnique
<1>5. 0 \div v = 0 /\ 0 % v = 0
  BY <1>3, DivModUnique
<1>6. 0 % 2 = 0
  BY DivModUnique
<1>7. Modulus * 1 = Modulus /\ n * 1 = n
  BY <1>2, <1>3
<1>. QED
  BY <1>1, <1>2, <1>4, <1>5, <1>6, <1>7 DEF Round

\* A round takes in bit k - 1: the remainder is that of one more bit of the
\* dividend, and r4 has the last bit of the quotient so far.
LEMMA DivideRound ==
  ASSUME NEW f \in Registers, NEW d \in BOOLEAN, NEW k \in 1 .. Width,
         NEW n \in Word, NEW v \in Word \ {0}, Round(f, k, n, v)
  PROVE  LET g == Subtract(ShiftIn(f, d), d)
         IN  /\ g \in Registers /\ g[5] = f[5] /\ g[8] = f[8]
             /\ Round(g, k - 1, n, v)
             /\ d => g[4] = ((n \div Power(k - 1)) \div v) % 2
<1>. DEFINE p == Power(k - 1)
            q == Power(Width - k)
            a == n \div Power(k)
            b == n % Power(k)
            g == ShiftIn(f, d)
<1>1. /\ k - 1 \in 0 .. Width /\ Width - k \in 0 .. Width /\ Width - (k - 1) \in 1 .. Width
      /\ (Width - (k - 1)) - 1 = Width - k
  BY WordsAssumption
<1>2. p \in Nat \ {0} /\ q \in Nat \ {0}
  BY <1>1, Powers
<1>3. Power(k) = 2 * p /\ Power(Width - (k - 1)) = 2 * q
  BY <1>1, PowerStep
<1>4. n \in Nat /\ n < Modulus /\ v \in Nat \ {0} /\ v < Modulus
  BY Halves DEF Word
<1>5. Modulus = (2 * p) * q /\ Modulus \in Nat /\ Half = p * q
  <2>1. Modulus = (2 * p) * q /\ Modulus \in Nat /\ Modulus = 2 * Half /\ Half \in Nat
    BY <1>3, Halves DEF Round
  <2>. HIDE DEF p, q
  <2>2. (2 * p) * q = 2 * (p * q) /\ p * q \in Nat
    BY <1>2
  <2>. QED
    BY <2>1, <2>2
<1>6. PICK t \in {0, 1} : b = p * t + (n % p) /\ n \div p = 2 * a + t
  <2>1. n \in Nat /\ p \in Nat \ {0} /\ b = n % (2 * p) /\ a = n \div (2 * p)
    BY <1>2, <1>3, <1>4
  <2>. HIDE DEF a, b, p
  <2>. QED
    BY <2>1, NextDigit
<1>7. a \in Nat /\ n \div p \in Nat /\ n \div p <= n /\ n % p \in 0 .. p - 1
  <2>1. 2 * p \in Nat \ {0}
    BY <1>2
  <2>2. a \in Nat
    BY <1>3, <1>4, <2>1, DivModNat
  <2>3. PICK z \in Nat, s \in 0 .. p - 1 : n = p * z + s /\ z = n \div p /\ s = n % p
    BY <1>2, <1>4, DivModNat
  <2>4. n = p * z + s
    BY <2>3
  <2>. HIDE DEF p
  <2>5. z <= p * z
    BY <1>2
  <2>6. z <= n
    BY <1>2, <2>4, <2>5
  <2>. QED
    BY <2>2, <2>3, <2>6
<1>. DEFINE c == n % p
            m == a % v
            s == 2 * m + t
<1>8. Top(f[1]) = t /\ Wrap(f[1] + f[1]) = c * (2 * q)
  <2>1. f[1] = b * q
    BY DEF Round
  <2>2. b = p * t + c /\ c \in 0 .. p - 1
    BY <1>6, <1>7
  <2>3. p \in Nat /\ q \in Nat \ {0} /\ Half = p * q /\ Modulus = (2 * p) * q
    BY <1>2, <1>5
  <2>. HIDE DEF p, q, b, c
  <2>4. f[1] = t * Half + c * q /\ c * q \in 0 .. Half - 1
    <3>1. (p * t + c) * q = t * (p * q) + c * q
      BY <2>2, <2>3
    <3>2. c * q <= (p - 1) * q /\ c * q \in Nat
      BY <2>2, <2>3
    <3>3. (p - 1) * q = p * q - q
      BY <2>3
    <3>. QED
      BY <2>1, <2>2, <2>3, <3>1, <3>2, <3>3
  <2>5. f[1] \in Int /\ Half \in Nat \ {0}
    BY <2>4, Halves
  <2>6. Top(f[1]) = f[1] \div Half
    BY DEF Top, Half
  <2>7. Top(f[1]) = t
    BY <2>4, <2>5, <2>6, DivModUnique
  <2>8. f[1] + f[1] = 2 * (c * q) + Modulus * t /\ 2 * (c * q) \in Word
    <3>1. Modulus = 2 * Half
      BY Halves
    <3>. DEFINE x == c * q
    <3>2. f[1] = t * Half + x /\ x \in 0 .. Half - 1
      BY <2>4
    <3>. HIDE DEF x
    <3>. SUFFICES f[1] + f[1] = 2 * x + Modulus * t /\ 2 * x \in Word
      BY DEF x
    <3>3. CASE t = 0
      BY <2>5, <3>1, <3>2, <3>3 DEF Word
    <3>4. CASE t = 1
      BY <2>5, <3>1, <3>2, <3>4 DEF Word
    <3>. QED
      BY <3>3, <3>4
  <2>9. Wrap(f[1] + f[1]) = 2 * (c * q)
    BY <2>8, WrapWord
  <2>10. 2 * (c * q) = c * (2 * q)
    BY <2>2, <2>3
  <2>. QED
    BY <2>7, <2>9, <2>10
<1>9. /\ m \in 0 .. v - 1 /\ s <= n \div p
      /\ s < v => (n \div p) % v = s /\ ((n \div p) \div v) % 2 = 0
      /\ s >= v => (n \div p) % v = s - v /\ ((n \div p) \div v) % 2 = 1
  <2>1. n \div p = 2 * a + t /\ a \in Nat /\ v \in Nat \ {0}
    BY <1>4, <1>6, <1>7
  <2>. HIDE DEF p, a
  <2>2. /\ m \in 0 .. v - 1 /\ s <= 2 * a + t
        /\ s < v => (2 * a + t) % v = s /\ ((2 * a + t) \div v) % 2 = 0
        /\ s >= v => (2 * a + t) % v = s - v /\ ((2 * a + t) \div v) % 2 = 1
    BY <2>1, TakeDigit
  <2>. QED
    BY <2>1, <2>2
<1>10. f[3] = m /\ Wrap(f[3] + f[3]) + Top(f[1]) = s /\ s \in Word
  <2>1. f[3] = m
    BY DEF Round
  <2>2. m \in Nat /\ n \div p \in Nat /\ s <= n \div p /\ n \div p <= n
    BY <1>4, <1>7, <1>9
  <2>. HIDE DEF m, p
  <2>3. m + m \in Word /\ s \in Word
    BY <1>4, <1>5, <2>2 DEF Word
  <2>4. Wrap(f[3] + f[3]) = m + m
    BY <2>1, <2>3, WrapSmall
  <2>. QED
    BY <1>8, <2>1, <2>2, <2>3, <2>4
<1>11. /\ g \in Registers /\ g[1] = c * (2 * q) /\ g[2] = v /\ g[3] = s /\ g[4] = 0
       /\ g[5] = f[5] /\ g[8] = f[8]
  <2>. HIDE DEF c, q, s
  <2>. QED
    BY <1>8, <1>10, ShiftInValues DEF Round
<1>12. Wrap(0 + 1) = 1 /\ 1 \in Word
  BY Halves, WrapSmall DEF Word
<1>. DEFINE h == Subtract(g, d)
<1>13. /\ h \in Registers /\ h[1] = c * (2 * q) /\ h[2] = v /\ h[5] = f[5] /\ h[8] = f[8]
       /\ h[3] = (n \div p) % v
       /\ d => h[4] = ((n \div p) \div v) % 2
  <2>1. s \in Nat /\ v \in Nat
    BY <1>4, <1>10 DEF Word
  <2>. HIDE DEF s, c, g, q, p
  <2>2. CASE s < v
    BY <1>9, <1>11, <2>2 DEF Subtract, Below
  <2>3. CASE ~(s < v)
    <3>1. s >= v
      BY <2>1, <2>3
    <3>2. Wrap(s - v) = s - v /\ s - v \in Word
      <4>1. s - v \in Word
        BY <1>4, <1>5, <1>10, <3>1 DEF Word
      <4>. QED
        BY <4>1, WrapSmall
    <3>3. h = [g EXCEPT ![3] = s - v, ![4] = IF d THEN 1 ELSE 0]
      BY <1>11, <1>12, <2>3, <3>2 DEF Subtract, Below
    <3>4. 0 \in Word
      BY <1>5, Halves DEF Word
    <3>. HIDE DEF h
    <3>. QED
      BY <1>9, <1>11, <1>12, <3>1, <3>2, <3>3, <3>4 DEF Registers
  <2>. QED
    BY <2>2, <2>3
<1>14. p * (2 * q) = Modulus
  <2>. HIDE DEF p, q
  <2>. QED
    BY <1>2, <1>5
<1>. QED
  <2>. HIDE DEF g, h, c
  <2>1. Round(h, k - 1, n, v)
    BY <1>1, <1>3, <1>13, <1>14 DEF Round, c
  <2>. QED
    BY <1>13, <2>1 DEF h, g

-----------------------------------------------------------------------------
(***************************************************************************)
(* The inductive invariant: what control at each label knows of the         *)
(* registers. The properties speak of the loops and of the return; between  *)
(* them one has to know in whose call the unsigned division is, that the    *)
(* arguments arrive in r1 and r2, and that the signs wait in r8.            *)
(***************************************************************************)

DivuLabels == {"__divu", "__divu_loop", "__divu_done", "__divu_zero"}
ModuLabels == {"__modu", "__modu_loop", "__modu_done", "__modu_zero"}

\* Where control can be in a call of each helper, and where the unsigned
\* division it is in goes back to.
Route(h) ==
  CASE h = "__mul"  -> MulLabels \cup {"returned"}
    [] h = "__divu" -> DivuLabels \cup {"returned"}
    [] h = "__modu" -> ModuLabels \cup {"returned"}
    [] h = "__divs" -> DivuLabels \cup {"__divs", "__divs_zero_dividend", "__divs_back", "returned"}
    [] h = "__mods" -> ModuLabels \cup {"__mods", "__mods_zero_dividend", "__mods_back", "returned"}

CallerLabel ==
  CASE helper = "__divs" -> "__divs_back" [] helper = "__mods" -> "__mods_back"
    [] OTHER -> "returned"

Control ==
  /\ helper \in Helpers /\ pc \in Route(helper)
  /\ pc \in DivideLabels => lr = CallerLabel

Words ==
  /\ r \in [1 .. 8 -> Word]
  /\ home.r \in [1 .. 8 -> Word] /\ home.fp \in Word

\* What __mul knows: the bits of r2 still to be looked at are r4 many.
Multiplying ==
  /\ pc = "__mul" => r[1] = X /\ r[2] = Y
  /\ pc = "__mul_loop" =>
       /\ r[4] \in 1 .. Width /\ r[2] < Power(r[4])
       /\ Wrap(r[3] + r[1] * r[2]) = Wrap(X * Y)
  /\ pc = "__mul_done" => r[3] = Wrap(X * Y)

\* What a division knows: at the bit r5, the state of its rounds, and in r4 the last
\* bit of the quotient of the bits taken in.
QuotientBit(k) == ((Dividend \div Power(k)) \div Divisor) % 2

Dividing ==
  /\ pc \in {"__divu", "__modu"} => r[1] = Dividend /\ r[2] = Divisor
  /\ pc \in {"__divu_zero", "__modu_zero"} => Divisor = 0
  /\ pc \in {"__divu_loop", "__modu_loop"} =>
       /\ Divisor # 0 /\ r[5] \in 1 .. Width /\ Round(r, r[5], Dividend, Divisor)
       /\ pc = "__divu_loop" => r[4] = QuotientBit(r[5])
  /\ pc \in {"__divu_done", "__modu_done"} =>
       /\ Divisor # 0 /\ Round(r, 0, Dividend, Divisor)
       /\ pc = "__divu_done" => r[4] = QuotientBit(0)

\* What the unsigned division is to return.
Unsigned(h) ==
  IF Divisor = 0 THEN 0
  ELSE IF h \in {"__divu", "__divs"} THEN (Dividend \div Divisor) % 2
  ELSE Dividend % Divisor

Signing ==
  /\ pc \in SignedLabels => r[1] = X /\ r[2] = Y
  /\ pc \in ZeroLabels => X = 0
  /\ Signed /\ pc \in DivideLabels \cup BackLabels => r[8] = Signs(home.r, helper)
  /\ pc \in BackLabels => r[1] = Unsigned(helper)

Returned ==
  pc = "returned" => r[1] =
    CASE helper = "__mul" -> Wrap(X * Y)
      [] helper \in {"__divu", "__modu"} -> Unsigned(helper)
      [] helper = "__divs" -> Negated(Unsigned(helper), OppositeSigns)
      [] helper = "__mods" -> Negated(Unsigned(helper), Negative(X))

ArithmeticInv == Control /\ Words /\ Multiplying /\ Dividing /\ Signing /\ Returned

-----------------------------------------------------------------------------
\* What the properties say of the call is fixed once it is made.
LEMMA CallKept ==
  ASSUME SameCall
  PROVE  /\ helper' = helper /\ home' = home
         /\ X' = X /\ Y' = Y /\ Dividend' = Dividend /\ Divisor' = Divisor
         /\ Signed' = Signed /\ CallerLabel' = CallerLabel
         /\ \A k : QuotientBit(k)' = QuotientBit(k)
         /\ OppositeSigns' = OppositeSigns
         /\ Signs(home.r, helper)' = Signs(home.r, helper)
         /\ \A h : Unsigned(h)' = Unsigned(h)
BY DEF SameCall, X, Y, Dividend, Divisor, Signed, CallerLabel, QuotientBit, OppositeSigns,
       Unsigned, Signs, Magnitude, Negative, NEG, Wrap, Top

\* The arguments, and what the unsigned division gets of them, are words.
LEMMA Arguments ==
  ASSUME Words
  PROVE  /\ X \in Word /\ Y \in Word /\ Dividend \in Word /\ Divisor \in Word
         /\ Divisor = 0 <=> Y = 0
BY Magnitudes DEF Words, X, Y, Dividend, Divisor

\* The numbers the helpers load are words: the reason for two bits.
LEMMA SmallWords == 0 \in Word /\ 1 \in Word /\ 2 \in Word /\ Width \in Word /\ Width - 1 \in Word
BY Halves, WordsAssumption DEF Word

\* At the call nothing has been computed.
LEMMA InitArithmetic == Init => ArithmeticInv
<1>. SUFFICES ASSUME Init PROVE ArithmeticInv
  OBVIOUS
<1>1. PICK x \in Operands, y \in Operands, junk \in {0, Modulus - 1} :
         /\ r = [i \in 1 .. 8 |-> CASE i = 1 -> x [] i = 2 -> y [] OTHER -> junk]
         /\ fp = junk
  BY DEF Init
<1>2. x \in Word /\ y \in Word /\ junk \in Word
  BY Halves, WordsAssumption DEF Word
<1>3. home = [r |-> r, fp |-> fp] /\ pc = helper /\ helper \in Helpers /\ lr = "returned"
  BY DEF Init
<1>4. r \in [1 .. 8 -> Word] /\ r[1] = X /\ r[2] = Y
  BY <1>1, <1>2, <1>3 DEF X, Y
<1>5. Words
  BY <1>1, <1>2, <1>3, <1>4 DEF Words
<1>6. Control
  BY <1>3 DEF Control, Route, CallerLabel, Helpers, DivideLabels, DivuLabels, ModuLabels, MulLabels
<1>7. ~Signed => Dividend = X /\ Divisor = Y
  BY DEF Dividend, Divisor
<1>. QED
  BY <1>3, <1>4, <1>5, <1>6, <1>7
     DEF ArithmeticInv, Multiplying, Dividing, Signing, Returned, Helpers, Signed, SignedLabels,
         ZeroLabels, DivideLabels, BackLabels

-----------------------------------------------------------------------------
(***************************************************************************)
(* Multiplication.                                                         *)
(***************************************************************************)

\* Nothing is added up yet, and all bits of the multiplier are left.
LEMMA MulStartArithmetic == ASSUME ArithmeticInv, MulStart PROVE ArithmeticInv'
<1>. USE DEF MulStart, Goto
<1>1. pc' = "__mul_loop" /\ pc = "__mul" /\ SameCall /\ r[1] = X /\ r[2] = Y
  BY DEF ArithmeticInv, Multiplying
<1>2. helper = "__mul" /\ helper' = helper
  BY <1>1, CallKept DEF ArithmeticInv, Control, Route, MulLabels, DivuLabels, ModuLabels, Helpers
<1>3. r \in Registers /\ r' = [r EXCEPT ![3] = 0, ![4] = Width, ![5] = 1]
  BY DEF ArithmeticInv, Words, Registers
<1>4. Words'
  BY <1>1, <1>3, SmallWords, CallKept DEF ArithmeticInv, Words, Registers
<1>5. r'[4] \in 1 .. Width /\ r'[2] < Power(r'[4])
  BY <1>1, <1>3, Arguments, Halves, WordsAssumption DEF ArithmeticInv, Registers, Word
<1>6. Wrap(r'[3] + r'[1] * r'[2]) = Wrap(X * Y)
  <2>1. X \in Nat /\ Y \in Nat
    BY Arguments, WordSums DEF ArithmeticInv
  <2>2. 0 + X * Y = X * Y
    BY <2>1
  <2>. QED
    BY <1>1, <1>3, <2>2 DEF Registers
<1>7. Control'
  BY <1>1, <1>2 DEF Control, Route, Helpers, MulLabels, DivideLabels
<1>. QED
  BY <1>1, <1>4, <1>5, <1>6, <1>7, CallKept
     DEF ArithmeticInv, Multiplying, Dividing, Signing, Returned, SignedLabels, ZeroLabels,
         DivideLabels, BackLabels

\* A round keeps the promise; after the last one the multiplier is used up.
LEMMA MulLoopArithmetic == ASSUME ArithmeticInv, MulLoop PROVE ArithmeticInv'
<1>1. /\ pc = "__mul_loop" /\ SameCall /\ r[4] \in 1 .. Width /\ r[2] < Power(r[4])
      /\ Wrap(r[3] + r[1] * r[2]) = Wrap(X * Y)
  BY DEF MulLoop, ArithmeticInv, Multiplying
<1>2. helper = "__mul" /\ helper' = helper
  BY <1>1, CallKept DEF ArithmeticInv, Control, Route, MulLabels, DivuLabels, ModuLabels, Helpers
<1>3. /\ r \in Registers
      /\ r' = [r EXCEPT ![6] = r[2] % 2, ![3] = Accumulate(r),
                        ![1] = Wrap(@ + @), ![2] = @ \div 2, ![4] = Wrap(@ - 1)]
  BY DEF MulLoop, ArithmeticInv, Words, Registers
<1>4. r[1] \in Word /\ r[2] \in Word /\ r[3] \in Word
  BY <1>3 DEF Registers
<1>5. r[4] - 1 \in Word /\ Wrap(r[4] - 1) = r[4] - 1
  <2>1. r[4] - 1 \in Word
    BY <1>1, Halves, WordsAssumption DEF Word
  <2>. QED
    BY <2>1, WrapSmall
<1>6. /\ r[2] % 2 \in Word /\ r[2] \div 2 \in Word /\ Wrap(r[1] + r[1]) \in Word
      /\ Accumulate(r) \in Word
  BY <1>4, MulWords DEF Accumulate
<1>7. Words'
  BY <1>1, <1>3, <1>5, <1>6, CallKept DEF ArithmeticInv, Words, Registers
<1>8. /\ r'[1] = Wrap(r[1] + r[1]) /\ r'[2] = r[2] \div 2
      /\ r'[3] = Wrap(r[3] + (r[2] % 2) * r[1]) /\ r'[4] = r[4] - 1
  BY <1>3, <1>5 DEF Registers, Accumulate
<1>9. Wrap(r'[3] + r'[1] * r'[2]) = Wrap(X * Y)
  BY <1>1, <1>4, <1>8, MulRound
<1>10. r'[2] < Power(r'[4]) /\ r'[4] \in 0 .. Width
  <2>1. Power(r[4]) = 2 * Power(r[4] - 1) /\ r[4] - 1 \in 0 .. Width
    BY <1>1, PowerStep, WordsAssumption
  <2>2. Power(r[4] - 1) \in Nat
    BY <2>1, Powers
  <2>3. r[2] \div 2 < Power(r[4] - 1)
    BY <1>1, <1>4, <2>1, <2>2, MulWords
  <2>. QED
    BY <1>8, <2>1, <2>3
<1>11. CASE r'[4] = 0
  <2>1. r'[1] \in Nat /\ r'[2] \in Nat /\ r'[3] \in Word /\ r'[3] \in Nat
    <3>1. r'[1] \in Word /\ r'[2] \in Word /\ r'[3] \in Word
      BY <1>7 DEF Words
    <3>. QED
      BY <3>1, WordSums
  <2>2. r'[2] = 0
    BY <1>10, <1>11, <2>1, PowerRules
  <2>3. r'[3] + r'[1] * r'[2] = r'[3]
    BY <2>1, <2>2
  <2>4. r'[3] = Wrap(X * Y)
    BY <1>9, <2>1, <2>3, WrapSmall
  <2>5. pc' = "__mul_done"
    BY <1>11 DEF MulLoop, Goto
  <2>6. Control'
    BY <2>5, <1>2 DEF Control, Route, Helpers, MulLabels, DivideLabels
  <2>. QED
    BY <1>1, <1>7, <2>4, <2>5, <2>6, CallKept
       DEF ArithmeticInv, Multiplying, Dividing, Signing, Returned, SignedLabels, ZeroLabels,
           DivideLabels, BackLabels
<1>12. CASE r'[4] # 0
  <2>1. pc' = "__mul_loop" /\ r'[4] \in 1 .. Width
    BY <1>10, <1>12, WordsAssumption DEF MulLoop, Goto
  <2>2. Control'
    BY <2>1, <1>2 DEF Control, Route, Helpers, MulLabels, DivideLabels
  <2>. QED
    BY <1>1, <1>7, <1>9, <1>10, <2>1, <2>2, CallKept
       DEF ArithmeticInv, Multiplying, Dividing, Signing, Returned, SignedLabels, ZeroLabels,
           DivideLabels, BackLabels
<1>. QED
  BY <1>11, <1>12

\* The sum is returned.
LEMMA MulDoneArithmetic == ASSUME ArithmeticInv, IInv, MulDone PROVE ArithmeticInv'
<1>. USE DEF MulDone, RET
<1>1. pc = "__mul_done" /\ SameCall /\ r[3] = Wrap(X * Y)
  BY DEF ArithmeticInv, Multiplying
<1>2. helper = "__mul" /\ helper' = helper
  BY <1>1, CallKept DEF ArithmeticInv, Control, Route, MulLabels, DivuLabels, ModuLabels, Helpers
<1>3. pc' = "returned"
  BY <1>1 DEF IInv, Outside, Inside, MulLabels, DivideLabels, SignedLabels, ZeroLabels, BackLabels
<1>4. r \in Registers /\ r' = [r EXCEPT ![1] = r[3]]
  BY DEF ArithmeticInv, Words, Registers
<1>5. Words' /\ r'[1] = Wrap(X * Y)
  BY <1>1, <1>4, CallKept DEF ArithmeticInv, Words, Registers
<1>6. Control'
  BY <1>2, <1>3 DEF Control, Route, Helpers, MulLabels, DivideLabels
<1>. QED
  BY <1>1, <1>2, <1>3, <1>5, <1>6, CallKept
     DEF ArithmeticInv, Multiplying, Dividing, Signing, Returned, SignedLabels, ZeroLabels,
         DivideLabels, BackLabels

-----------------------------------------------------------------------------
(***************************************************************************)
(* Unsigned division.                                                      *)
(***************************************************************************)

\* Control in an unsigned division that has not returned.
LEMMA DivideControl ==
  ASSUME Control, SameCall, lr' = lr,
         \/ pc \in DivuLabels /\ pc' \in DivuLabels
         \/ pc \in ModuLabels /\ pc' \in ModuLabels
  PROVE  Control'
<1>1. helper' = helper /\ CallerLabel' = CallerLabel
  BY CallKept
<1>2. pc \in DivideLabels
  BY DEF DivideLabels, DivuLabels, ModuLabels
<1>3. pc' \in Route(helper)
  BY DEF Control, Route, Helpers, DivuLabels, ModuLabels, MulLabels
<1>. QED
  BY <1>1, <1>2, <1>3 DEF Control, Route

\* A division begins with all bits of the dividend, or has no divisor.
LEMMA DivideStartArithmetic ==
  ASSUME ArithmeticInv,
         \/ DivideStart("__divu", "__divu_loop", "__divu_zero")
         \/ DivideStart("__modu", "__modu_loop", "__modu_zero")
  PROVE  ArithmeticInv'
<1>1. PICK l \in {"__divu", "__modu"} :
         LET loop == IF l = "__divu" THEN "__divu_loop" ELSE "__modu_loop"
             zero == IF l = "__divu" THEN "__divu_zero" ELSE "__modu_zero"
         IN  DivideStart(l, loop, zero)
  OBVIOUS
<1>. DEFINE loop == IF l = "__divu" THEN "__divu_loop" ELSE "__modu_loop"
            zero == IF l = "__divu" THEN "__divu_zero" ELSE "__modu_zero"
<1>2. /\ pc = l /\ SameCall /\ lr' = lr
      /\ r[1] = Dividend /\ r[2] = Divisor /\ r \in Registers
  BY <1>1 DEF DivideStart, SameFrame, ArithmeticInv, Dividing, Words, Registers
<1>3. Signed => r[8] = Signs(home.r, helper)
  BY <1>2 DEF ArithmeticInv, Signing, DivideLabels
<1>4. Dividend \in Word /\ Divisor \in Word
  BY Arguments DEF ArithmeticInv
<1>5. CASE r[2] = 0
  <2>1. pc' = zero /\ r' = r
    BY <1>1, <1>5 DEF DivideStart, Goto
  <2>2. Control'
    BY <1>2, <2>1, DivideControl DEF ArithmeticInv, DivuLabels, ModuLabels
  <2>3. Words' /\ r'[8] = r[8]
    BY <1>2, <2>1, CallKept DEF ArithmeticInv, Words
  <2>. QED
    BY <1>2, <1>3, <1>5, <2>1, <2>2, <2>3, CallKept
       DEF ArithmeticInv, Multiplying, Dividing, Signing, Returned, SignedLabels, ZeroLabels,
           DivideLabels, BackLabels
<1>6. CASE r[2] # 0
  <2>1. /\ pc' = loop
        /\ r' = [r EXCEPT ![3] = 0, ![4] = IF l = "__divu" THEN 0 ELSE @,
                          ![5] = Width, ![6] = Width - 1]
    BY <1>1, <1>6 DEF DivideStart, Goto
  <2>2. Control'
    BY <1>2, <2>1, DivideControl DEF ArithmeticInv, DivuLabels, ModuLabels
  <2>3. r' \in Registers
    BY <1>2, <2>1, SmallWords DEF Registers
  <2>4. /\ r'[1] = Dividend /\ r'[2] = Divisor /\ r'[3] = 0 /\ r'[5] = Width /\ r'[8] = r[8]
        /\ l = "__divu" => r'[4] = 0
    BY <1>2, <2>1 DEF Registers
  <2>5. Round(r', Width, Dividend, Divisor) /\ QuotientBit(Width) = 0
    BY <1>2, <1>4, <1>6, <2>3, <2>4, FirstRound DEF QuotientBit
  <2>6. Words'
    BY <1>2, <2>3, CallKept DEF ArithmeticInv, Words, Registers
  <2>7. Width \in 1 .. Width
    BY WordsAssumption
  <2>8. Dividing'
    BY <1>2, <1>6, <2>1, <2>4, <2>5, <2>7, CallKept DEF Dividing
  <2>. QED
    BY <1>2, <1>3, <2>1, <2>2, <2>4, <2>6, <2>8, CallKept
       DEF ArithmeticInv, Multiplying, Signing, Returned, SignedLabels, ZeroLabels,
           DivideLabels, BackLabels
<1>. QED
  BY <1>5, <1>6

\* One round of either division, and the way out after the last.
LEMMA DivideLoopArithmetic ==
  ASSUME ArithmeticInv,
         \/ DivideLoop("__divu_loop", "__divu_done", TRUE)
         \/ DivideLoop("__modu_loop", "__modu_done", FALSE)
  PROVE  ArithmeticInv'
<1>1. PICK d \in BOOLEAN :
         DivideLoop(IF d THEN "__divu_loop" ELSE "__modu_loop",
                    IF d THEN "__divu_done" ELSE "__modu_done", d)
  <2>1. CASE DivideLoop("__divu_loop", "__divu_done", TRUE)
    <3>. WITNESS TRUE \in BOOLEAN
    <3>. QED
      BY <2>1
  <2>2. CASE DivideLoop("__modu_loop", "__modu_done", FALSE)
    <3>. WITNESS FALSE \in BOOLEAN
    <3>. QED
      BY <2>2
  <2>. QED
    BY <2>1, <2>2
<1>. DEFINE g == Subtract(ShiftIn(r, d), d)
            k == r[5]
<1>2. /\ pc = (IF d THEN "__divu_loop" ELSE "__modu_loop") /\ SameCall /\ lr' = lr
      /\ r' = [g EXCEPT ![5] = Wrap(@ - 1)]
      /\ pc' = IF r'[5] = 0 THEN (IF d THEN "__divu_done" ELSE "__modu_done")
               ELSE (IF d THEN "__divu_loop" ELSE "__modu_loop")
  BY <1>1 DEF DivideLoop, SameFrame, Goto
<1>3. /\ Divisor # 0 /\ k \in 1 .. Width /\ Round(r, k, Dividend, Divisor) /\ r \in Registers
      /\ Signed => r[8] = Signs(home.r, helper)
  BY <1>2 DEF ArithmeticInv, Dividing, Signing, DivideLabels, Words, Registers
<1>4. Dividend \in Word /\ Divisor \in Word \ {0}
  BY <1>3, Arguments DEF ArithmeticInv
<1>5. /\ g \in Registers /\ g[5] = k /\ g[8] = r[8] /\ Round(g, k - 1, Dividend, Divisor)
      /\ d => g[4] = QuotientBit(k - 1)
  BY <1>3, <1>4, DivideRound DEF QuotientBit
<1>6. k - 1 \in Word /\ Wrap(k - 1) = k - 1 /\ k - 1 \in 0 .. Width
  <2>1. k - 1 \in Word /\ k - 1 \in 0 .. Width
    BY <1>3, Halves, WordsAssumption DEF Word
  <2>. QED
    BY <2>1, WrapSmall
<1>. HIDE DEF g, k
<1>7. /\ r' \in Registers /\ r'[5] = k - 1 /\ r'[8] = r[8]
      /\ r'[1] = g[1] /\ r'[2] = g[2] /\ r'[3] = g[3] /\ r'[4] = g[4]
  BY <1>2, <1>5, <1>6 DEF Registers
<1>8. /\ Round(r', k - 1, Dividend, Divisor)
      /\ d => r'[4] = QuotientBit(k - 1)
  BY <1>5, <1>7 DEF Round
<1>9. Control'
  BY <1>2, DivideControl DEF ArithmeticInv, DivuLabels, ModuLabels
<1>10. Words'
  BY <1>2, <1>7, CallKept DEF ArithmeticInv, Words, Registers
<1>11. Dividing'
  <2>1. CASE k - 1 = 0
    BY <1>2, <1>3, <1>7, <1>8, <2>1, CallKept DEF Dividing
  <2>2. CASE k - 1 # 0
    <3>1. k - 1 \in 1 .. Width
      <4>1. k \in Int
        BY <1>3
      <4>. QED
        BY <1>6, <2>2, <4>1, WordsAssumption
    <3>2. pc' = IF d THEN "__divu_loop" ELSE "__modu_loop"
      BY <1>2, <1>7, <2>2
    <3>. QED
      BY <1>3, <1>7, <1>8, <3>1, <3>2, <1>2, CallKept DEF Dividing
  <2>. QED
    BY <2>1, <2>2
<1>. QED
  BY <1>2, <1>3, <1>7, <1>9, <1>10, <1>11, CallKept
     DEF ArithmeticInv, Multiplying, Signing, Returned, SignedLabels, ZeroLabels,
         DivideLabels, BackLabels

\* An unsigned division returns, to its caller or to the signed helper around it.
LEMMA DivideReturns ==
  ASSUME ArithmeticInv, SameCall, pc \in DivideLabels, pc' = lr, lr' = lr,
         r' = [r EXCEPT ![1] = Unsigned(helper)], Unsigned(helper) \in Word
  PROVE  ArithmeticInv'
<1>1. lr = CallerLabel /\ r \in Registers
  BY DEF ArithmeticInv, Control, Words, Registers
<1>2. helper' = helper /\ helper \in Helpers
  BY CallKept DEF ArithmeticInv, Control
<1>3. helper # "__mul"
  BY DEF ArithmeticInv, Control, Route, MulLabels, DivideLabels
<1>4. Words' /\ r'[1] = Unsigned(helper) /\ r'[8] = r[8]
  BY <1>1, CallKept DEF ArithmeticInv, Words, Registers
<1>5. pc' = CallerLabel
  BY <1>1
<1>6. Control'
  BY <1>2, <1>5 DEF Control, Route, CallerLabel, Helpers, DivideLabels
<1>7. Signed => r[8] = Signs(home.r, helper)
  BY DEF ArithmeticInv, Signing
<1>8. CASE helper \in {"__divu", "__modu"}
  BY <1>2, <1>4, <1>5, <1>6, <1>8, CallKept
     DEF CallerLabel, ArithmeticInv, Multiplying, Dividing, Signing, Returned, SignedLabels,
         ZeroLabels, DivideLabels, BackLabels, Signed
<1>9. CASE helper \in {"__divs", "__mods"}
  BY <1>2, <1>4, <1>5, <1>6, <1>7, <1>9, CallKept
     DEF CallerLabel, ArithmeticInv, Multiplying, Dividing, Signing, Returned, SignedLabels,
         ZeroLabels, DivideLabels, BackLabels, Signed
<1>. QED
  BY <1>2, <1>3, <1>8, <1>9 DEF Helpers

\* What the rounds have left in r3 or r4 is what the division returns.
LEMMA DivideDoneArithmetic ==
  ASSUME ArithmeticInv,
         \/ DivideDone("__divu_done", 4) \/ DivideDone("__modu_done", 3)
  PROVE  ArithmeticInv'
<1>1. PICK d \in {3, 4} :
         /\ pc = (IF d = 4 THEN "__divu_done" ELSE "__modu_done")
         /\ r' = [r EXCEPT ![1] = r[d]]
         /\ pc' = lr /\ lr' = lr /\ SameCall
  BY DEF DivideDone, RET, SameFrame
<1>2. /\ Divisor # 0 /\ Round(r, 0, Dividend, Divisor)
      /\ d = 4 => r[4] = QuotientBit(0)
      /\ r[3] \in Word /\ r[4] \in Word
  BY <1>1 DEF ArithmeticInv, Dividing, Words
<1>3. Power(0) = 1 /\ Dividend \div 1 = Dividend
  <2>1. Dividend \in Int
    <3>1. Dividend \in Word
      BY Arguments DEF ArithmeticInv
    <3>. QED
      BY <3>1, WordSums
  <2>2. Dividend = Dividend * 1 + 0
    BY <2>1
  <2>. QED
    BY <2>1, <2>2, PowerRules, DivModUnique
<1>4. d = 4 <=> helper \in {"__divu", "__divs"}
  BY <1>1 DEF ArithmeticInv, Control, Route, Helpers, MulLabels, DivuLabels, ModuLabels
<1>5. r[d] = Unsigned(helper)
  BY <1>2, <1>3, <1>4 DEF Unsigned, Round, QuotientBit
<1>. QED
  BY <1>1, <1>2, <1>5, DivideReturns DEF DivideLabels

\* Without a divisor it returns zero.
LEMMA DivideByZeroArithmetic ==
  ASSUME ArithmeticInv,
         \/ DivideByZero("__divu_zero") \/ DivideByZero("__modu_zero")
  PROVE  ArithmeticInv'
<1>1. /\ pc \in {"__divu_zero", "__modu_zero"} /\ r' = [r EXCEPT ![1] = 0]
      /\ pc' = lr /\ lr' = lr /\ SameCall
  BY DEF DivideByZero, RET, SameFrame
<1>2. Unsigned(helper) = 0
  BY <1>1 DEF ArithmeticInv, Dividing, Unsigned
<1>. QED
  BY <1>1, <1>2, SmallWords, DivideReturns DEF DivideLabels

-----------------------------------------------------------------------------
(***************************************************************************)
(* Signed division.                                                        *)
(***************************************************************************)

\* A signed helper calls the unsigned one on magnitudes, unless the dividend is zero.
LEMMA SignedStartArithmetic ==
  ASSUME ArithmeticInv,
         \/ SignedStart("__divs", "__divs_zero_dividend", "__divu", "__divs_back")
         \/ SignedStart("__mods", "__mods_zero_dividend", "__modu", "__mods_back")
  PROVE  ArithmeticInv'
<1>1. /\ pc \in SignedLabels /\ SameCall
      /\ r \in Registers /\ r[1] = X /\ r[2] = Y
  BY DEF SignedStart, SignedLabels, ArithmeticInv, Signing, Words, Registers
<1>2. helper = pc /\ helper' = helper /\ Signed
  BY <1>1, CallKept DEF ArithmeticInv, Control, Route, Helpers, MulLabels, DivuLabels, ModuLabels,
     SignedLabels, Signed
<1>3. CASE r[1] = 0
  <2>1. /\ r' = r /\ X = 0
        /\ pc' = IF helper = "__divs" THEN "__divs_zero_dividend" ELSE "__mods_zero_dividend"
    BY <1>1, <1>2, <1>3 DEF SignedStart, Goto
  <2>2. pc' \in ZeroLabels /\ Control'
    BY <1>1, <1>2, <2>1 DEF Control, Route, SignedLabels, ZeroLabels, DivideLabels, Helpers
  <2>3. Words'
    BY <1>1, <2>1, CallKept DEF ArithmeticInv, Words
  <2>. QED
    BY <1>1, <2>1, <2>2, <2>3, CallKept
       DEF ArithmeticInv, Multiplying, Dividing, Signing, Returned, SignedLabels, ZeroLabels,
           DivideLabels, BackLabels
<1>4. CASE r[1] # 0
  <2>1. /\ r' = [r EXCEPT ![1] = Magnitude(@), ![2] = Magnitude(@), ![8] = Signs(r, helper)]
        /\ pc' = (IF helper = "__divs" THEN "__divu" ELSE "__modu")
        /\ lr' = IF helper = "__divs" THEN "__divs_back" ELSE "__mods_back"
    BY <1>1, <1>2, <1>4 DEF SignedStart, Goto
  <2>2. Control'
    BY <1>1, <1>2, <2>1 DEF Control, Route, SignedLabels, DivuLabels, ModuLabels, CallerLabel, Helpers
  <2>3. X \in Word /\ Y \in Word /\ Dividend = Magnitude(X) /\ Divisor = Magnitude(Y)
    BY <1>2, Arguments DEF ArithmeticInv, Dividend, Divisor
  <2>4. Signs(r, helper) = Signs(home.r, helper) /\ Signs(r, helper) \in Word
    <3>1. Signs(r, helper) = Signs(home.r, helper)
      BY <1>1 DEF Signs, X, Y
    <3>2. Top(X) \in {0, 1} /\ Top(Y) \in {0, 1}
      BY <2>3, HighBit
    <3>3. Top(X) \in Word /\ Top(X) + Top(Y) \in Word
      BY <3>2, SmallWords
    <3>. QED
      BY <1>1, <3>1, <3>3 DEF Signs
  <2>5. /\ r' \in Registers /\ r'[1] = Dividend /\ r'[2] = Divisor
        /\ r'[8] = Signs(home.r, helper)
    <3>1. Magnitude(X) \in Word /\ Magnitude(Y) \in Word
      BY <2>3, Magnitudes
    <3>. QED
      BY <1>1, <2>1, <2>3, <2>4, <3>1 DEF Registers
  <2>6. Words'
    BY <1>1, <2>5, CallKept DEF ArithmeticInv, Words, Registers
  <2>. QED
    BY <1>1, <2>1, <2>2, <2>5, <2>6, CallKept
       DEF ArithmeticInv, Multiplying, Dividing, Signing, Returned, SignedLabels, ZeroLabels,
           DivideLabels, BackLabels
<1>. QED
  BY <1>3, <1>4

\* A signed helper pops what it pushed, and returns what it has computed.
LEMMA SignedReturns ==
  ASSUME ArithmeticInv, IInv, pc \in ZeroLabels \cup BackLabels,
         NEW f \in Registers, Leave(f),
         f[1] = Negated(Unsigned(helper),
                        IF helper = "__divs" THEN OppositeSigns ELSE Negative(X))
  PROVE  ArithmeticInv'
<1>1. stack = <<home.r[8], "returned", home.fp>> /\ helper \in {"__divs", "__mods"}
  BY DEF IInv, Inside, MulLabels, DivideLabels, SignedLabels, ZeroLabels, BackLabels,
         ArithmeticInv, Control, Route, Helpers, DivuLabels, ModuLabels
<1>2. r' = [f EXCEPT ![8] = home.r[8]] /\ pc' = "returned" /\ SameCall
  BY <1>1 DEF Leave, PopR8, Goto
<1>3. home.r[8] \in Word
  BY DEF ArithmeticInv, Words
<1>4. r' \in Registers /\ r'[1] = f[1]
  BY <1>2, <1>3 DEF Registers
<1>5. Words'
  BY <1>2, <1>4, CallKept DEF ArithmeticInv, Words, Registers
<1>6. helper' = helper /\ Control'
  BY <1>1, <1>2, CallKept DEF Control, Route, DivideLabels, Helpers
<1>7. X' = X
  BY <1>2, CallKept
<1>8. Negated(Unsigned(helper), OppositeSigns)' = Negated(Unsigned(helper), OppositeSigns)
      /\ Negated(Unsigned(helper), Negative(X))' = Negated(Unsigned(helper), Negative(X))
  BY <1>2, <1>6, <1>7, CallKept DEF Negated, Negative, NEG, Wrap, Top
<1>9. Returned'
  BY <1>1, <1>2, <1>4, <1>6, <1>8 DEF Returned
<1>. QED
  BY <1>2, <1>5, <1>6, <1>9
     DEF ArithmeticInv, Multiplying, Dividing, Signing, SignedLabels, ZeroLabels,
         DivideLabels, BackLabels

\* The short way out for a dividend of zero returns what the division would.
LEMMA SignedZeroArithmetic ==
  ASSUME ArithmeticInv, IInv,
         \/ SignedZero("__divs_zero_dividend") \/ SignedZero("__mods_zero_dividend")
  PROVE  ArithmeticInv'
<1>. DEFINE f == [r EXCEPT ![1] = 0]
<1>1. pc \in ZeroLabels /\ Leave(f) /\ X = 0 /\ r \in Registers
  BY DEF SignedZero, ArithmeticInv, Signing, ZeroLabels, Words, Registers
<1>2. f \in Registers /\ f[1] = 0
  BY <1>1, SmallWords DEF Registers
<1>3. helper \in {"__divs", "__mods"}
  BY <1>1 DEF ZeroLabels, ArithmeticInv, Control, Route, Helpers, MulLabels, DivuLabels, ModuLabels
<1>4. NEG(0) = 0
  BY SmallWords, WrapSmall DEF NEG
<1>5. Dividend = 0 /\ Divisor \in Word /\ Word \subseteq Nat
  BY <1>1, <1>3, <1>4, Arguments, WordSums DEF ArithmeticInv, Dividend, Magnitude, Signed
<1>6. Unsigned(helper) = 0
  <2>1. CASE Divisor = 0
    BY <2>1 DEF Unsigned
  <2>2. CASE Divisor # 0
    <3>1. 0 \div Divisor = 0 /\ 0 % Divisor = 0
      <4>1. 0 = 0 * Divisor + 0 /\ Divisor \in Nat \ {0} /\ 0 \in 0 .. Divisor - 1
        BY <1>5, <2>2
      <4>. QED
        BY <4>1, DivModUnique
    <3>2. 0 % 2 = 0
      BY DivModUnique
    <3>. QED
      BY <1>5, <3>1, <3>2 DEF Unsigned
  <2>. QED
    BY <2>1, <2>2
<1>7. \A minus : Negated(Unsigned(helper), minus) = 0
  BY <1>4, <1>6 DEF Negated
<1>. HIDE DEF f
<1>. QED
  BY <1>1, <1>2, <1>7, SignedReturns

\* r8 is odd when the signs differ.
LEMMA SignsDiffer ==
  ASSUME Words, helper = "__divs"
  PROVE  OppositeSigns <=> Signs(home.r, helper) % 2 # 0
<1>1. X \in Word /\ Y \in Word
  BY Arguments
<1>2. Top(X) \in {0, 1} /\ Top(Y) \in {0, 1}
  BY <1>1, HighBit
<1>3. 0 % 2 = 0 /\ 1 % 2 = 1 /\ 2 % 2 = 0
  OBVIOUS
<1>4. Signs(home.r, helper) = Top(X) + Top(Y)
  BY DEF Signs, X, Y
<1>. QED
  BY <1>2, <1>3, <1>4 DEF OppositeSigns, Negative

\* The result of the unsigned division gets its sign.
LEMMA BackArithmetic ==
  ASSUME ArithmeticInv, IInv, DivsBack \/ ModsBack
  PROVE  ArithmeticInv'
<1>1. pc \in BackLabels /\ r \in Registers
  BY DEF DivsBack, ModsBack, BackLabels, ArithmeticInv, Words, Registers
<1>2. helper = IF pc = "__divs_back" THEN "__divs" ELSE "__mods"
  BY <1>1 DEF BackLabels, ArithmeticInv, Control, Route, Helpers, MulLabels, DivuLabels, ModuLabels
<1>3. r[1] = Unsigned(helper) /\ r[8] = Signs(home.r, helper)
  BY <1>1, <1>2 DEF ArithmeticInv, Signing, Signed
<1>4. r[1] \in Word /\ NEG(r[1]) \in Word /\ r[8] % 2 \in Word
  <2>1. r[1] \in Word /\ r[8] \in Word
    BY <1>1 DEF Registers
  <2>. QED
    BY <2>1, Magnitudes, LowBit, SmallWords
<1>5. CASE DivsBack
  <2>. DEFINE f == [r EXCEPT ![8] = @ % 2, ![1] = IF r[8] % 2 = 0 THEN @ ELSE NEG(@)]
  <2>1. helper = "__divs" /\ Leave(f)
    BY <1>2, <1>5 DEF DivsBack
  <2>2. f \in Registers
    BY <1>1, <1>4 DEF Registers
  <2>3. f[1] = Negated(Unsigned(helper), OppositeSigns)
    BY <1>1, <1>3, <2>1, SignsDiffer DEF Negated, ArithmeticInv, Registers
  <2>. HIDE DEF f
  <2>. QED
    BY <1>1, <2>1, <2>2, <2>3, SignedReturns
<1>6. CASE ModsBack
  <2>. DEFINE f == [r EXCEPT ![1] = IF r[8] = 0 THEN @ ELSE NEG(@)]
  <2>1. helper = "__mods" /\ Leave(f)
    BY <1>2, <1>6 DEF ModsBack
  <2>2. f \in Registers
    BY <1>1, <1>4 DEF Registers
  <2>3. X \in Word
    BY Arguments DEF ArithmeticInv
  <2>4. r[8] = Top(X) /\ Top(X) \in {0, 1}
    BY <1>3, <2>1, <2>3, HighBit DEF Signs, X
  <2>5. f[1] = Negated(Unsigned(helper), Negative(X))
    BY <1>1, <1>3, <2>4 DEF Negated, Negative, Registers
  <2>. HIDE DEF f
  <2>. QED
    BY <1>1, <2>1, <2>2, <2>5, SignedReturns
<1>. QED
  BY <1>5, <1>6

-----------------------------------------------------------------------------
\* Every step of every helper.
LEMMA StepArithmetic == IInv /\ ArithmeticInv /\ [Next]_vars => ArithmeticInv'
<1>. SUFFICES ASSUME IInv, ArithmeticInv, [Next]_vars PROVE ArithmeticInv'
  OBVIOUS
<1>1. CASE UNCHANGED vars
  <2>1. SameCall /\ pc' = pc /\ r' = r /\ lr' = lr
    BY <1>1 DEF vars, SameCall
  <2>2. Control' /\ Words'
    BY <2>1, CallKept DEF ArithmeticInv, Control, Words, Route
  <2>3. Multiplying' /\ Dividing' /\ Signing'
    BY <2>1, CallKept DEF ArithmeticInv, Multiplying, Dividing, Signing
  <2>4. Negated(Unsigned(helper), Negative(X))' = Negated(Unsigned(helper), Negative(X))
    BY <2>1, CallKept DEF Negated, Negative, NEG, Wrap, Top
  <2>5. Negated(Unsigned(helper), OppositeSigns)' = Negated(Unsigned(helper), OppositeSigns)
    BY <2>1, CallKept DEF Negated, NEG, Wrap
  <2>6. Returned'
    BY <2>1, <2>4, <2>5, CallKept DEF ArithmeticInv, Returned
  <2>. QED
    BY <2>2, <2>3, <2>6 DEF ArithmeticInv
<1>. QED
  BY <1>1, MulStartArithmetic, MulLoopArithmetic, MulDoneArithmetic, DivideStartArithmetic,
     DivideLoopArithmetic, DivideDoneArithmetic, DivideByZeroArithmetic, SignedStartArithmetic,
     BackArithmetic, SignedZeroArithmetic DEF Next

\* Together with the invariant of RuntimeProofs it is inductive.
THEOREM ArithmeticInvariant == Spec => []ArithmeticInv
BY InitArithmetic, StepArithmetic, Invariant, PTL DEF Spec

\* On words of any width of two bits or more, for all arguments: __mul returns the
\* product modulo the word, __modu and __mods the remainder with the sign of the
\* dividend, __divu and __divs the last bit of the quotient with its sign; and what
\* the loops promise on the way.
THEOREM HelpersCorrect == Spec => []ResultsCorrect
<1>1. ArithmeticInv => ResultsCorrect
  <2>. SUFFICES ASSUME ArithmeticInv PROVE ResultsCorrect
    OBVIOUS
  <2>1. X \in Word /\ Y \in Word /\ Dividend \in Word /\ Divisor \in Word /\ (Divisor = 0 <=> Y = 0)
    BY Arguments DEF ArithmeticInv
  <2>2. NEG(0) = 0
    BY SmallWords, WrapSmall DEF NEG
  <2>3. ProductCorrect
    BY DEF ArithmeticInv, Multiplying, Returned, ProductCorrect
  <2>4. ASSUME pc \in {"__divu_loop", "__modu_loop"}
        PROVE  /\ r[3] = (Dividend \div 2 ^ r[5]) % Divisor
               /\ r[1] \div 2 ^ (Width - r[5]) = Dividend % 2 ^ r[5]
    <3>1. Round(r, r[5], Dividend, Divisor) /\ r[5] \in 1 .. Width
      BY <2>4 DEF ArithmeticInv, Dividing
    <3>. DEFINE p == Power(r[5])
                q == Power(Width - r[5])
                b == Dividend % p
    <3>2. p \in Nat \ {0} /\ q \in Nat \ {0}
      BY <3>1, Powers, WordsAssumption
    <3>3. Dividend \in Nat /\ b \in Nat
      <4>1. Dividend \in Nat
        BY <2>1, WordSums
      <4>. HIDE DEF p
      <4>. QED
        BY <3>2, <4>1, DivModNat
    <3>4. r[1] = b * q /\ r[3] = (Dividend \div p) % Divisor
      BY <3>1 DEF Round
    <3>5. r[1] \div q = b
      <4>. HIDE DEF q, b
      <4>1. b * q = b * q + 0 /\ 0 \in 0 .. q - 1 /\ b * q \in Int
        BY <3>2, <3>3
      <4>. QED
        BY <3>2, <3>3, <3>4, <4>1, DivModUnique
    <3>. QED
      BY <3>4, <3>5 DEF Power
  <2>5. helper \in {"__modu", "__mods"} /\ pc = "returned" =>
          r[1] = IF Y = 0 THEN 0
                 ELSE Negated(Dividend % Divisor, helper = "__mods" /\ Negative(X))
    BY <2>1, <2>2 DEF ArithmeticInv, Returned, Unsigned, Negated
  <2>6. RemaindersCorrect
    BY <2>4, <2>5 DEF RemaindersCorrect
  <2>7. 0 % 2 = 0
    BY DivModUnique
  <2>8. QuotientsLastBit
    BY <2>1, <2>7 DEF ArithmeticInv, Returned, Unsigned, Negated, QuotientsLastBit, Quotient,
       OppositeSigns
  <2>. QED
    BY <2>3, <2>6, <2>8 DEF ResultsCorrect, DivisionsCorrect
<1>. QED
  BY <1>1, ArithmeticInvariant, PTL

-----------------------------------------------------------------------------
\* What TypeOK says of the frame: lr is a label of a caller, and fp is the
\* helper's own once it has pushed the caller's.
FrameOK == lr \in Labels /\ (stack = <<>> \/ fp = Frame)

\* Only a signed helper's start and end change the frame.
LEMMA FrameStep == IInv /\ FrameOK /\ [Next]_vars => FrameOK'
<1>. SUFFICES ASSUME IInv, FrameOK, [Next]_vars PROVE FrameOK'
  OBVIOUS
<1>. USE DEF FrameOK, SameFrame
<1>1. CASE SameFrame \/ UNCHANGED vars
  BY <1>1 DEF vars
<1>2. CASE \/ SignedStart("__divs", "__divs_zero_dividend", "__divu", "__divs_back")
           \/ SignedStart("__mods", "__mods_zero_dividend", "__modu", "__mods_back")
  BY <1>2 DEF SignedStart, Labels
<1>3. ASSUME NEW f, Leave(f), pc \in ZeroLabels \cup BackLabels PROVE FrameOK'
  <2>1. stack = <<home.r[8], "returned", home.fp>>
    BY <1>3 DEF IInv, Inside, MulLabels, DivideLabels, SignedLabels, ZeroLabels, BackLabels
  <2>2. lr' = "returned" /\ stack' = <<>>
    BY <1>3, <2>1 DEF Leave
  <2>. QED
    BY <2>2 DEF Labels
<1>4. CASE \/ DivsBack \/ ModsBack
           \/ SignedZero("__divs_zero_dividend") \/ SignedZero("__mods_zero_dividend")
  BY <1>3, <1>4 DEF DivsBack, ModsBack, SignedZero, ZeroLabels, BackLabels
<1>. QED
  BY <1>1, <1>2, <1>4 DEF Next, MulStart, MulLoop, MulDone, DivideStart, DivideLoop, DivideDone,
     DivideByZero

\* Registers and the words pushed are words, at every label of every helper: no
\* step of the arithmetic leaves the range of the machine's registers.
THEOREM TypeCorrect == Spec => []TypeOK
<1>1. Init => FrameOK
  BY DEF Init, FrameOK, Labels
<1>2. IInv /\ ArithmeticInv /\ FrameOK => TypeOK
  <2>. SUFFICES ASSUME IInv, ArithmeticInv, FrameOK PROVE TypeOK
    OBVIOUS
  <2>1. r \in [1 .. 8 -> Word] /\ home.r[8] \in Word /\ home.fp \in Word
    BY DEF ArithmeticInv, Words
  <2>2. CASE Outside
    BY <2>1, <2>2 DEF Outside, TypeOK, FrameOK
  <2>3. CASE Inside
    BY <2>1, <2>3 DEF Inside, TypeOK, FrameOK, Labels
  <2>. QED
    BY <2>2, <2>3 DEF IInv
<1>. QED
  BY <1>1, <1>2, FrameStep, Invariant, ArithmeticInvariant, PTL DEF Spec
=============================================================================
