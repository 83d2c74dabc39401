--------------------------- MODULE ArgMovesProofs ---------------------------
(***************************************************************************)
(* Proofs about the code of a call, for every number of argument registers,*)
(* every pool of temporaries and every list of arguments.                  *)
(***************************************************************************)
EXTENDS ArgMoves, FiniteSetTheorems, WellFoundedInduction, TLAPS

Arg(i) == call.args[i]

\* Before anything is copied: every register operand is at home.
HomesIntact ==
  phase \in {"start", "stack"} => \A x \in ArgHomes : regs[x] = x

\* The stack words when the first n stack arguments have been handled.
StackWords(n) ==
  \A i \in 1 .. NStack :
    stack[i] = IF i <= n /\ i <= Reach THEN Arg(Len(ArgReg) + i) ELSE Junk
StackWritten ==
  /\ phase = "start" => k = 1
  /\ phase = "stack" => StackWords(k - 1)
  /\ phase \in {"drain", "break", "consts"} => StackWords(NStack)

\* What is copied stays, and only registers are ever marked as copied.
CopiesIntact ==
  phase \in {"drain", "break", "consts"} =>
    \A i \in RegArgs : done[i] => IsVreg(Arg(i)) /\ regs[ArgReg[i]] = Arg(i)

\* Only registers are read by a copy.
SourcesAreRegisters ==
  phase \in {"drain", "break"} => \A i \in Pending : src[i] \in Reg

\* A pass that has copied nothing has found every copy it met blocked.
PassedAreBlocked ==
  /\ phase = "drain" /\ ~drained => \A i \in Pending : i < k => Blocked(i)
  /\ phase = "break" => \A i \in Pending : Blocked(i)

\* Then come the constants, in order.
ConstsWritten ==
  phase = "consts" =>
    /\ Pending = {}
    /\ \A i \in 1 .. k - 1 : regs[ArgReg[i]] = Arg(i)

ResultReady ==
  phase = "called" => regs[ArgReg[1]] = Result

IInv ==
  /\ TypeOK
  /\ HomesIntact /\ StackWritten
  /\ SourcesIntact /\ CopiesIntact /\ SourcesAreRegisters /\ PassedAreBlocked
  /\ ConstsWritten /\ ArgumentsArrive /\ ResultReady /\ FrameKept

-----------------------------------------------------------------------------
(***************************************************************************)
(* The registers and the operands.                                         *)
(***************************************************************************)
LEMMA Registers ==
  /\ DOMAIN ArgReg = 1 .. Len(ArgReg) /\ Len(ArgReg) \in Nat \ {0}
  /\ \A i \in 1 .. Len(ArgReg) :
       ArgReg[i] \in Home /\ ArgReg[i] \in Reg /\ ArgReg[i] # Scratch /\ ArgReg[i] \notin Saved
  /\ \A i, j \in 1 .. Len(ArgReg) : ArgReg[i] = ArgReg[j] => i = j
  /\ Scratch \in Reg /\ Scratch \notin Saved /\ Scratch \notin Home
  /\ Saved \subseteq Reg /\ Home \subseteq Reg
  /\ Reg \subseteq Value /\ Const \subseteq Value /\ Result \in Value /\ Junk \in Value
  /\ Home \cap Const = {}
<1>1. DOMAIN ArgReg = 1 .. Len(ArgReg) /\ Len(ArgReg) \in Nat \ {0}
  BY RegistersAssumption
<1>2. \A i \in 1 .. Len(ArgReg) : ArgReg[i] \in Values(ArgReg)
  BY <1>1 DEF Values
<1>3. QED
  BY <1>1, <1>2, RegistersAssumption, ValuesAssumption DEF Reg, Home, Value

\* No call has more arguments than registers and stack words together.
LEMMA RoomOnStack ==
  ASSUME NEW regArgs \in Nat, NEW room \in Nat, NEW most \in Nat, most <= regArgs + room,
         NEW args \in Nat, args <= most,
         NEW inRegs \in Nat, NEW onStack \in Nat, inRegs + onStack = args,
         onStack > 0 => inRegs = regArgs
  PROVE  onStack <= room
OBVIOUS

LEMMA Operands ==
  ASSUME call \in Calls
  PROVE  /\ NArgs \in Nat /\ NReg \in Nat /\ NStack \in Nat
         /\ NReg <= Len(ArgReg) /\ NReg + NStack = NArgs /\ NStack <= 2 * Reach
         /\ NStack > 0 => NReg = Len(ArgReg)
         /\ \A i \in 1 .. NArgs : Arg(i) \in ArgHomes \/ Arg(i) \in Const
         /\ \A i \in 1 .. NArgs : Arg(i) \in Home \cup Const
         /\ call.args = [i \in 1 .. NArgs |-> Arg(i)]
         /\ call.dst \in Home \cup {NoDst}
<1>1. /\ call.args \in Seq(Home \cup Const) /\ call.dst \in Home \cup {NoDst}
      /\ Len(call.args) <= MaxArgs
  BY CallsAssumption
<1>2. NArgs \in Nat /\ DOMAIN call.args = 1 .. NArgs
  BY <1>1 DEF NArgs
<1>3. /\ NReg \in Nat /\ NStack \in Nat /\ NReg <= Len(ArgReg) /\ NReg + NStack = NArgs
      /\ NStack > 0 => NReg = Len(ArgReg)
  BY <1>2, Registers DEF NReg, NStack
<1>a. NStack <= 2 * Reach
  <2>1. 2 * Reach \in Nat /\ MaxArgs \in Nat /\ MaxArgs <= Len(ArgReg) + 2 * Reach
    BY FieldAssumption
  <2>2. NArgs <= MaxArgs
    BY <1>1 DEF NArgs
  <2>3. Len(ArgReg) \in Nat
    BY Registers
  <2>4. QED
    BY <1>2, <1>3, <2>1, <2>2, <2>3, RoomOnStack
<1>4. \A i \in 1 .. NArgs : Arg(i) \in Home \cup Const
  BY <1>1, <1>2 DEF Arg
<1>5. \A i \in 1 .. NArgs : Arg(i) \in ArgHomes \/ Arg(i) \in Const
  BY <1>2, <1>4 DEF ArgHomes, Values, Arg, IsVreg
<1>6. call.args = [i \in 1 .. NArgs |-> Arg(i)]
  BY <1>1, <1>2 DEF Arg
<1>7. QED
  BY <1>1, <1>2, <1>3, <1>a, <1>4, <1>5, <1>6

\* The search of the pool cannot fail: t3 is nobody's home.
LEMMA ScratchFound ==
  StackScratch \in Reg /\ StackScratch \notin Saved /\ StackScratch \notin ArgHomes
<1> DEFINE Free == {n \in DOMAIN Temps : Temps[n] \notin ArgHomes}
           R == OpToRel(<, Nat)
<1>1. DOMAIN Temps \subseteq Nat /\ \A n \in DOMAIN Temps : Temps[n] \in Values(Temps)
  BY RegistersAssumption DEF Values
<1>2. Free # {}
  <2>1. PICK n \in DOMAIN Temps : Temps[n] = Scratch
    BY RegistersAssumption DEF Values
  <2>2. QED
    BY <2>1 DEF ArgHomes, IsVreg, Home
<1>a. IsWellFoundedOn(R, Nat)
  BY NatLessThanWellFounded, Zenon
<1>b. \A m, n \in Nat : m < n => <<m, n>> \in R
  BY DEF OpToRel
<1>c. Free \subseteq Nat
  BY <1>1
<1> HIDE DEF R
<1>3. PICK n \in Free : \A m \in Free : ~(<<m, n>> \in R)
  BY <1>a, <1>c, <1>2, WFMin
<1>4. \A m \in Free : ~(m < n)
  BY <1>c, <1>b, <1>3
<1>5. \A m \in DOMAIN Temps : m < n => Temps[m] \in ArgHomes
  BY <1>4
<1>6. \E p \in DOMAIN Temps : /\ Temps[p] \notin ArgHomes
                             /\ \A m \in DOMAIN Temps : m < p => Temps[m] \in ArgHomes
  BY <1>3, <1>5
<1>7. StackScratch \in Values(Temps) /\ StackScratch \notin ArgHomes
  BY <1>1, <1>6 DEF StackScratch
<1>8. QED
  BY <1>7, RegistersAssumption DEF Reg

\* The offset field: what fits is the offset itself, what does not is negative.
LEMMA OffsetField ==
  ASSUME NEW n \in Nat, n < 2 * Reach
  PROVE  /\ n < Reach => Offset(n) = n
         /\ n >= Reach => Offset(n) < 0
<1> DEFINE m == 2 * Reach
           q == (n + Reach) \div m
           r == (n + Reach) % m
<1>1. Reach \in Nat \ {0} /\ m \in Nat \ {0} /\ m = Reach + Reach
  BY FieldAssumption
<1>2. q \in Nat /\ r \in 0 .. m - 1 /\ n + Reach = m * q + r
  <2> HIDE DEF m
  <2>1. n + Reach \in Nat
    BY <1>1
  <2>2. QED
    BY <1>1, <2>1, Z3
<1>3. q \in {0, 1}
  <2>1. ~(q >= 2)
    <3>1. SUFFICES ASSUME q >= 2 PROVE FALSE
      OBVIOUS
    <3>2. m * q >= m + m
      BY <1>1, <1>2, <3>1
    <3>3. QED
      BY <1>1, <1>2, <3>2
  <2>2. QED
    BY <1>2, <2>1
<1>4. Offset(n) = r - Reach
  BY DEF Offset
<1>5. CASE q = 0
  BY <1>1, <1>2, <1>4, <1>5
<1>6. CASE q = 1
  BY <1>1, <1>2, <1>4, <1>6
<1>7. QED
  BY <1>3, <1>5, <1>6

(***************************************************************************)
(* If every pending copy is blocked, the pending copies permute their      *)
(* registers: the sources cover the destinations, and there are no more of *)
(* the one than of the other.                                              *)
(***************************************************************************)
LEMMA BlockedCopiesPermute ==
  ASSUME NEW P, IsFiniteSet(P), NEW f, NEW g,
         \A i \in P : \E j \in P : f[j] = g[i],
         \A i, j \in P : g[i] = g[j] => i = j
  PROVE  /\ {f[i] : i \in P} = {g[i] : i \in P}
         /\ \A i, j \in P : f[i] = f[j] => i = j
<1> DEFINE F == {f[i] : i \in P}
           G == {g[i] : i \in P}
           fP == [i \in P |-> f[i]]
           gP == [i \in P |-> g[i]]
<1>1. fP \in Surjection(P, F)
  BY DEF Surjection
<1>2. gP \in Bijection(P, G)
  BY DEF Surjection, Injection, IsInjective, Bijection
<1>3. IsFiniteSet(G) /\ Cardinality(G) = Cardinality(P)
  BY <1>2, FS_Bijection DEF ExistsBijection
<1>4. IsFiniteSet(F) /\ Cardinality(F) <= Cardinality(P)
      /\ (Cardinality(F) = Cardinality(P) <=> fP \in Injection(P, F))
  BY <1>1, FS_Surjection
<1>5. G \in SUBSET F
  OBVIOUS
<1>6. /\ Cardinality(G) <= Cardinality(F)
      /\ Cardinality(F) = Cardinality(G) => F = G
  BY <1>4, <1>5, FS_Subset
<1>7. Cardinality(F) \in Nat /\ Cardinality(P) \in Nat
  BY <1>4, FS_CardinalityType
<1> HIDE DEF F, G
<1>8. Cardinality(F) = Cardinality(P) /\ F = G
  BY <1>3, <1>4, <1>6, <1>7
<1>9. fP \in Injection(P, F)
  BY <1>4, <1>8
<1>10. \A i, j \in P : f[i] = f[j] => i = j
  BY <1>9 DEF Injection, IsInjective
<1>11. QED
  BY <1>8, <1>10 DEF F, G

-----------------------------------------------------------------------------
(***************************************************************************)
(* The invariant is inductive: one lemma for each action.                  *)
(***************************************************************************)
LEMMA SameCall ==
  ASSUME call' = call
  PROVE  /\ NArgs' = NArgs /\ NReg' = NReg /\ NStack' = NStack /\ RegArgs' = RegArgs
         /\ ArgHomes' = ArgHomes
         /\ \A i : Arg(i)' = Arg(i)
BY DEF NArgs, NReg, NStack, RegArgs, ArgHomes, Values, Arg

LEMMA InitInvariant == Init => IInv
<1> SUFFICES ASSUME Init PROVE IInv
  OBVIOUS
<1>0. call \in Calls
  BY DEF Init
<1>a. NReg \in Nat /\ regs \in [Reg -> Value]
  BY <1>0, Operands, Registers DEF Init
<1>b. drained \in BOOLEAN /\ progress \in BOOLEAN
  BY Zenon DEF Init
<1>c. k \in 1 .. (IF phase = "stack" THEN NStack ELSE NReg) + 1
  BY <1>a DEF Init
<1>d. stack \in Seq(Value) /\ passed \in Seq(Value)
      /\ Len(stack) = IF phase \in {"start", "end"} THEN 0 ELSE NStack
  BY DEF Init
<1>e. /\ phase \in Phases
      /\ phase \notin {"drain", "break", "consts"}
  BY DEF Init, Phases
<1>1. TypeOK
  BY <1>0, <1>a, <1>b, <1>c, <1>d, <1>e, Zenon DEF TypeOK
<1>2. HomesIntact
  BY Registers DEF Init, HomesIntact, ArgHomes, IsVreg
<1>3. FrameKept
  BY Registers DEF Init, FrameKept
<1>4. /\ StackWritten /\ SourcesIntact /\ CopiesIntact
      /\ SourcesAreRegisters /\ PassedAreBlocked
      /\ ConstsWritten /\ ArgumentsArrive /\ ResultReady
  BY DEF Init, StackWritten, SourcesIntact, CopiesIntact, SourcesAreRegisters,
         PassedAreBlocked, ConstsWritten, ArgumentsArrive, ResultReady
<1>5. QED
  BY <1>1, <1>2, <1>3, <1>4 DEF IInv

LEMMA ReserveInvariant == IInv /\ Reserve => IInv'
<1> SUFFICES ASSUME IInv, Reserve PROVE IInv'
  OBVIOUS
<1> USE DEF Reserve
<1>0. call \in Calls /\ call' = call
  BY DEF IInv, TypeOK
<1>a. NStack \in Nat /\ NStack' = NStack
  BY <1>0, Operands DEF NStack, NArgs, NReg
<1>b. stack' \in Seq(Value) /\ Len(stack') = NStack
  BY <1>a, Registers
<1>c. k' \in 1 .. (IF phase' = "stack" THEN NStack' ELSE NReg') + 1
  BY <1>a DEF IInv, StackWritten
<1>1. TypeOK'
  BY <1>0, <1>a, <1>b, <1>c DEF IInv, TypeOK, Phases
<1>2. HomesIntact'
  BY DEF IInv, HomesIntact, ArgHomes, Values
<1>3. FrameKept'
  BY DEF IInv, FrameKept
<1>4. StackWritten'
  BY <1>a DEF IInv, TypeOK, StackWritten, StackWords
<1>5. /\ SourcesIntact' /\ CopiesIntact' /\ SourcesAreRegisters' /\ PassedAreBlocked'
      /\ ConstsWritten' /\ ArgumentsArrive' /\ ResultReady'
  BY DEF IInv, SourcesIntact, CopiesIntact, SourcesAreRegisters, PassedAreBlocked,
         ConstsWritten, ArgumentsArrive, ResultReady
<1>6. QED
  BY <1>1, <1>2, <1>3, <1>4, <1>5 DEF IInv

LEMMA StackArgInvariant == IInv /\ StackArg => IInv'
<1> SUFFICES ASSUME IInv, StackArg PROVE IInv'
  OBVIOUS
<1> DEFINE a == Arg(Len(ArgReg) + k)
           v == IF IsVreg(a) THEN a ELSE StackScratch
<1>0. /\ call \in Calls /\ call' = call /\ phase = "stack" /\ phase' = "stack"
      /\ k \in 1 .. NStack + 1 /\ k <= NStack /\ k' = k + 1
      /\ regs \in [Reg -> Value] /\ stack \in Seq(Value) /\ Len(stack) = NStack
  BY DEF IInv, TypeOK, StackArg
<1>1. /\ NReg = Len(ArgReg) /\ NReg \in Nat /\ NStack \in Nat /\ k \in 1 .. NStack
      /\ NReg + k \in 1 .. NArgs /\ NStack <= 2 * Reach /\ Reach \in Nat
  BY <1>0, Operands, FieldAssumption
<1>2. a \in Const \/ (a \in ArgHomes /\ IsVreg(a) /\ regs[a] = a)
  BY <1>0, <1>1, Operands DEF IInv, HomesIntact, ArgHomes
<1>3. a \in Const => ~IsVreg(a)
  BY Registers DEF IsVreg
<1>4. /\ regs' = IF IsVreg(a) THEN regs ELSE [regs EXCEPT ![StackScratch] = a]
      /\ stack' = IF Offset(k - 1) < 0 THEN stack
                  ELSE [stack EXCEPT ![Offset(k - 1) + 1] = regs'[v]]
  BY DEF StackArg, Arg
<1>5. regs'[v] = a
  BY <1>0, <1>2, <1>3, <1>4, ScratchFound
<1>6. regs' \in [Reg -> Value] /\ \A r \in Reg : r # StackScratch => regs'[r] = regs[r]
  BY <1>0, <1>2, <1>3, <1>4, Registers
<1>7. a \in Value
  BY <1>2, Registers DEF ArgHomes, IsVreg
<1>8. /\ stack' \in Seq(Value) /\ Len(stack') = NStack
      /\ \A i \in 1 .. NStack : i # k => stack'[i] = stack[i]
      /\ stack'[k] = IF k <= Reach THEN a ELSE stack[k]
  <2>1. CASE k <= Reach
    <3>1. Offset(k - 1) = k - 1
      BY <1>1, <2>1, OffsetField
    <3>a. ~(k - 1 < 0) /\ (k - 1) + 1 = k
      BY <1>1
    <3>2. stack' = [stack EXCEPT ![k] = a]
      BY <1>4, <1>5, <3>1, <3>a
    <3>3. QED
      BY <1>0, <1>1, <1>7, <2>1, <3>2
  <2>2. CASE k > Reach
    <3>1. Offset(k - 1) < 0
      BY <1>1, <2>2, OffsetField
    <3>2. QED
      BY <1>0, <1>1, <1>4, <2>2, <3>1
  <2>3. QED
    BY <1>1, <2>1, <2>2
<1>9. TypeOK'
  BY <1>0, <1>1, <1>6, <1>8, SameCall DEF IInv, TypeOK, StackArg
<1>10. HomesIntact'
  BY <1>0, <1>6, ScratchFound, SameCall, Registers DEF IInv, HomesIntact, ArgHomes, IsVreg
<1>a. StackWords(k - 1)
  BY <1>0 DEF IInv, StackWritten
<1>b. \A i \in 1 .. NStack :
        stack'[i] = IF i <= k /\ i <= Reach THEN Arg(Len(ArgReg) + i) ELSE Junk
  BY <1>0, <1>1, <1>8, <1>a DEF StackWords
<1>11. StackWritten'
  BY <1>0, <1>1, <1>b, SameCall DEF StackWritten, StackWords
<1>12. FrameKept'
  BY <1>0, <1>6, ScratchFound, Registers DEF IInv, FrameKept
<1>13. /\ SourcesIntact' /\ CopiesIntact' /\ SourcesAreRegisters' /\ PassedAreBlocked'
       /\ ConstsWritten' /\ ArgumentsArrive' /\ ResultReady'
  BY <1>0 DEF SourcesIntact, CopiesIntact, SourcesAreRegisters, PassedAreBlocked,
              ConstsWritten, ArgumentsArrive, ResultReady
<1>14. QED
  BY <1>9, <1>10, <1>11, <1>12, <1>13 DEF IInv

LEMMA StackDoneInvariant == IInv /\ StackDone => IInv'
<1> SUFFICES ASSUME IInv, StackDone PROVE IInv'
  OBVIOUS
<1>0. /\ call \in Calls /\ call' = call /\ phase = "stack" /\ phase' = "drain"
      /\ k \in 1 .. NStack + 1 /\ k > NStack /\ k' = 1 /\ regs' = regs /\ stack' = stack
      /\ Len(stack) = NStack
  BY DEF IInv, TypeOK, StackDone
<1>1. /\ NReg \in Nat /\ NStack \in Nat /\ RegArgs = 1 .. NReg
      /\ \A i \in RegArgs : Arg(i) \in Home \cup Const /\ ArgReg[i] \in Home
      /\ \A i \in RegArgs : IsVreg(Arg(i)) => Arg(i) \in ArgHomes
  BY <1>0, Operands, Registers DEF RegArgs, IsVreg
<1>2. /\ src' = [i \in RegArgs |-> Arg(i)]
      /\ done' = [i \in RegArgs |-> Arg(i) = ArgReg[i]]
  BY DEF StackDone, Arg
<1>3. \A i \in RegArgs : IsVreg(Arg(i)) => regs[Arg(i)] = Arg(i)
  BY <1>0, <1>1 DEF IInv, HomesIntact
<1>4. src' \in [1 .. NReg -> Reg \cup Const] /\ done' \in [1 .. NReg -> BOOLEAN]
  BY <1>1, <1>2, Registers
<1>a. drained' \in BOOLEAN /\ progress' \in BOOLEAN
  BY Zenon DEF StackDone
<1>b. /\ k' \in 1 .. NReg + 1 /\ regs' \in [Reg -> Value]
      /\ stack' \in Seq(Value) /\ passed' \in Seq(Value)
  BY <1>0, <1>1 DEF IInv, TypeOK, StackDone
<1>5. TypeOK'
  BY <1>0, <1>4, <1>a, <1>b, SameCall DEF TypeOK, Phases
<1>6. StackWritten'
  <2>1. StackWords(NStack)
    BY <1>0, <1>1 DEF IInv, StackWritten, StackWords
  <2>2. QED
    BY <1>0, <2>1, SameCall DEF StackWritten, StackWords
<1>7. SourcesIntact'
  BY <1>0, <1>1, <1>2, <1>3, SameCall DEF SourcesIntact, Pending, Arg
<1>8. CopiesIntact' /\ SourcesAreRegisters'
  BY <1>0, <1>1, <1>2, <1>3, SameCall, Registers
     DEF CopiesIntact, SourcesAreRegisters, Pending, IsVreg, Arg
<1>9. PassedAreBlocked'
  BY <1>0, <1>1, SameCall DEF PassedAreBlocked, Pending
<1>10. FrameKept'
  BY <1>0 DEF IInv, FrameKept
<1>11. HomesIntact' /\ ConstsWritten' /\ ArgumentsArrive' /\ ResultReady'
  BY <1>0 DEF HomesIntact, ConstsWritten, ArgumentsArrive, ResultReady
<1>12. QED
  BY <1>5, <1>6, <1>7, <1>8, <1>9, <1>10, <1>11 DEF IInv

LEMMA CopyInvariant == IInv /\ Copy => IInv'
<1> SUFFICES ASSUME IInv, Copy PROVE IInv'
  OBVIOUS
<1>0. /\ call \in Calls /\ call' = call /\ phase = "drain" /\ phase' = "drain"
      /\ k \in Pending /\ ~Blocked(k) /\ k' = k + 1
      /\ src \in [1 .. NReg -> Reg \cup Const] /\ done \in [1 .. NReg -> BOOLEAN]
      /\ regs \in [Reg -> Value] /\ stack' = stack /\ src' = src /\ passed' = passed
  BY DEF IInv, TypeOK, Copy
<1>1. /\ NReg \in Nat /\ RegArgs = 1 .. NReg /\ k \in 1 .. NReg /\ NStack \in Nat
      /\ IsVreg(Arg(k))
      /\ \A i \in RegArgs : ArgReg[i] \in Reg /\ ArgReg[i] \notin Saved
      /\ \A i, j \in RegArgs : ArgReg[i] = ArgReg[j] => i = j
  BY <1>0, Operands, Registers DEF RegArgs, Pending, Arg
<1>2. done' = [done EXCEPT ![k] = TRUE] /\ regs' = [regs EXCEPT ![ArgReg[k]] = regs[src[k]]]
  BY DEF Copy
<1>3. regs[src[k]] = Arg(k) /\ src[k] \in Reg
  BY <1>0 DEF IInv, SourcesIntact, SourcesAreRegisters, Arg
<1>4. /\ regs' \in [Reg -> Value] /\ regs'[ArgReg[k]] = Arg(k)
      /\ \A r \in Reg : r # ArgReg[k] => regs'[r] = regs[r]
  BY <1>0, <1>1, <1>2, <1>3
<1>5. /\ done' \in [1 .. NReg -> BOOLEAN] /\ done'[k]
      /\ \A i \in RegArgs : i # k => done'[i] = done[i]
  BY <1>0, <1>1, <1>2
<1>6. Pending' = Pending \ {k}
  BY <1>0, <1>1, <1>5, SameCall DEF Pending
<1>7. TypeOK'
  <2>1. drained' \in BOOLEAN /\ progress' \in BOOLEAN
    BY Zenon DEF Copy
  <2>2. k' \in 1 .. NReg + 1
    BY <1>0, <1>1
  <2>3. QED
    BY <1>0, <1>4, <1>5, <2>1, <2>2, SameCall DEF IInv, TypeOK
<1>8. SourcesIntact' /\ SourcesAreRegisters'
  <2>1. \A i \in Pending' : src[i] # ArgReg[k] /\ src[i] \in Reg /\ regs[src[i]] = Arg(i)
    BY <1>0, <1>6 DEF Blocked, IInv, SourcesIntact, SourcesAreRegisters, Arg
  <2>2. QED
    BY <1>0, <1>4, <2>1 DEF SourcesIntact, SourcesAreRegisters, Arg
<1>9. CopiesIntact'
  BY <1>0, <1>1, <1>4, <1>5, SameCall DEF IInv, CopiesIntact
<1>10. PassedAreBlocked'
  BY <1>0 DEF Copy, PassedAreBlocked
<1>11. FrameKept'
  BY <1>0, <1>1, <1>4, Registers DEF IInv, FrameKept
<1>12. StackWritten'
  BY <1>0, SameCall DEF IInv, StackWritten, StackWords
<1>13. HomesIntact' /\ ConstsWritten' /\ ArgumentsArrive' /\ ResultReady'
  BY <1>0 DEF HomesIntact, ConstsWritten, ArgumentsArrive, ResultReady
<1>14. QED
  BY <1>7, <1>8, <1>9, <1>10, <1>11, <1>12, <1>13 DEF IInv

LEMMA SkipInvariant == IInv /\ Skip => IInv'
<1> SUFFICES ASSUME IInv, Skip PROVE IInv'
  OBVIOUS
<1>0. /\ call \in Calls /\ call' = call /\ phase = "drain" /\ phase' = "drain"
      /\ k \in RegArgs /\ (k \notin Pending \/ Blocked(k)) /\ k' = k + 1
      /\ src' = src /\ done' = done /\ drained' = drained /\ progress' = progress
      /\ regs' = regs /\ stack' = stack /\ passed' = passed
  BY DEF IInv, TypeOK, Skip
<1>1. NReg \in Nat /\ k' \in 1 .. NReg + 1 /\ RegArgs = 1 .. NReg
  BY <1>0, Operands DEF RegArgs
<1>2. Pending' = Pending /\ \A i \in Pending : Blocked(i)' = Blocked(i)
  BY <1>0, SameCall DEF Pending, Blocked
<1>3. TypeOK'
  BY <1>0, <1>1, SameCall DEF IInv, TypeOK
<1>4. PassedAreBlocked'
  BY <1>0, <1>1, <1>2 DEF IInv, PassedAreBlocked, Pending
<1>5. SourcesIntact' /\ SourcesAreRegisters' /\ CopiesIntact'
  BY <1>0, <1>2, SameCall
     DEF IInv, SourcesIntact, SourcesAreRegisters, CopiesIntact
<1>6. FrameKept' /\ StackWritten'
  BY <1>0, SameCall DEF IInv, FrameKept, StackWritten, StackWords
<1>7. HomesIntact' /\ ConstsWritten' /\ ArgumentsArrive' /\ ResultReady'
  BY <1>0 DEF HomesIntact, ConstsWritten, ArgumentsArrive, ResultReady
<1>8. QED
  BY <1>3, <1>4, <1>5, <1>6, <1>7 DEF IInv

LEMMA PassDoneInvariant == IInv /\ PassDone => IInv'
<1> SUFFICES ASSUME IInv, PassDone PROVE IInv'
  OBVIOUS
<1>0. /\ call \in Calls /\ call' = call /\ phase = "drain" /\ phase' \in {"drain", "break"}
      /\ k > NReg /\ k' = 1 /\ src' = src /\ done' = done
      /\ progress' = progress /\ regs' = regs /\ stack' = stack /\ passed' = passed
  BY DEF IInv, TypeOK, PassDone
<1>1. NReg \in Nat /\ k' \in 1 .. NReg + 1 /\ RegArgs = 1 .. NReg
  BY <1>0, Operands DEF RegArgs
<1>2. Pending' = Pending /\ \A i \in Pending : Blocked(i)' = Blocked(i)
  BY <1>0, SameCall DEF Pending, Blocked
<1>3. TypeOK'
  <2>1. drained' \in BOOLEAN
    BY Zenon DEF PassDone
  <2>2. QED
    BY <1>0, <1>1, <2>1, SameCall DEF IInv, TypeOK, Phases
<1>4. PassedAreBlocked'
  <2>1. phase' = "break" => ~drained
    BY DEF PassDone, Again
  <2>2. phase' = "break" => \A i \in Pending : Blocked(i)
    BY <1>0, <1>1, <2>1 DEF IInv, TypeOK, PassedAreBlocked, Pending
  <2>3. \A i \in Pending : ~(i < k')
    BY <1>0, <1>1 DEF Pending
  <2>4. QED
    BY <1>2, <2>2, <2>3 DEF PassedAreBlocked
<1>5. SourcesIntact' /\ SourcesAreRegisters' /\ CopiesIntact'
  BY <1>0, <1>2, SameCall
     DEF IInv, SourcesIntact, SourcesAreRegisters, CopiesIntact
<1>6. FrameKept' /\ StackWritten'
  BY <1>0, SameCall DEF IInv, FrameKept, StackWritten, StackWords
<1>7. HomesIntact' /\ ConstsWritten' /\ ArgumentsArrive' /\ ResultReady'
  BY <1>0 DEF HomesIntact, ConstsWritten, ArgumentsArrive, ResultReady
<1>8. QED
  BY <1>3, <1>4, <1>5, <1>6, <1>7 DEF IInv

\* What a drain leaves are cycles, none of them through the scratch register.
LEMMA CyclesLeft ==
  ASSUME IInv
  PROVE  /\ OnlyCyclesLeft
         /\ phase = "break" => \A i \in Pending : src[i] # Scratch
<1> SUFFICES ASSUME phase = "break"
             PROVE  OnlyCyclesLeft /\ \A i \in Pending : src[i] # Scratch
  BY DEF OnlyCyclesLeft
<1>0. call \in Calls
  BY DEF IInv, TypeOK
<1>b. NReg \in Nat /\ NReg <= Len(ArgReg)
  BY <1>0, Operands
<1>1. /\ RegArgs = 1 .. NReg /\ NReg \in Nat /\ Pending \subseteq RegArgs
      /\ \A i \in RegArgs : ArgReg[i] # Scratch
      /\ \A i, j \in RegArgs : ArgReg[i] = ArgReg[j] => i = j
  BY <1>b, Registers DEF RegArgs, Pending
<1>a. IsFiniteSet(1 .. NReg) /\ Pending \in SUBSET (1 .. NReg)
  BY <1>1, FS_Interval
<1>2. IsFiniteSet(Pending)
  BY <1>a, FS_Subset
<1>3. \A i \in Pending : \E j \in Pending : src[j] = ArgReg[i]
  BY DEF IInv, PassedAreBlocked, Blocked
<1>4. /\ {src[i] : i \in Pending} = {ArgReg[i] : i \in Pending}
      /\ \A i, j \in Pending : src[i] = src[j] => i = j
  <2>1. \A i, j \in Pending : ArgReg[i] = ArgReg[j] => i = j
    BY <1>1
  <2>2. QED
    BY <1>2, <1>3, <2>1, BlockedCopiesPermute, ZenonT(30)
<1>5. \A i \in Pending : \E j \in Pending : src[i] = ArgReg[j]
  BY <1>4
<1>6. QED
  BY <1>1, <1>4, <1>5 DEF OnlyCyclesLeft

LEMMA BreakCycleInvariant == IInv /\ BreakCycle => IInv'
<1> SUFFICES ASSUME IInv, BreakCycle PROVE IInv'
  OBVIOUS
<1>0. /\ call \in Calls /\ call' = call /\ phase = "break" /\ phase' = "drain" /\ k' = 1
      /\ src \in [1 .. NReg -> Reg \cup Const] /\ done' = done
      /\ regs \in [Reg -> Value] /\ stack' = stack /\ passed' = passed
  BY DEF IInv, TypeOK, BreakCycle
<1>1. /\ NReg \in Nat /\ RegArgs = 1 .. NReg
      /\ \A i \in RegArgs : ArgReg[i] \in Reg /\ ArgReg[i] # Scratch
  BY <1>0, Operands, Registers DEF RegArgs
<1>2. PICK c \in Pending : /\ regs' = [regs EXCEPT ![Scratch] = regs[src[c]]]
                          /\ src' = Redirected(c)
  BY DEF BreakCycle
<1>3. \A i \in Pending : src[i] \in Reg /\ src[i] # Scratch /\ regs[src[i]] = Arg(i)
  BY <1>0, CyclesLeft DEF IInv, SourcesIntact, SourcesAreRegisters, Arg
<1>4. /\ regs' \in [Reg -> Value] /\ regs'[Scratch] = Arg(c)
      /\ \A r \in Reg : r # Scratch => regs'[r] = regs[r]
  BY <1>0, <1>2, <1>3, Registers
<1>5. \A i \in RegArgs :
        src'[i] = IF i \in Pending /\ src[i] = src[c] THEN Scratch ELSE src[i]
  BY <1>2 DEF Redirected
<1>6. Pending' = Pending
  BY <1>0, SameCall DEF Pending
<1>7. TypeOK'
  <2>1. drained' \in BOOLEAN /\ progress' \in BOOLEAN
    BY Zenon DEF BreakCycle, IInv, TypeOK
  <2>2. src' \in [1 .. NReg -> Reg \cup Const]
    BY <1>0, <1>1, <1>2, Registers DEF Redirected
  <2>3. k' \in 1 .. NReg + 1
    BY <1>0, <1>1
  <2>4. QED
    BY <1>0, <1>4, <2>1, <2>2, <2>3, SameCall DEF IInv, TypeOK, Phases
<1>8. \A i \in Pending : src'[i] \in Reg /\ regs'[src'[i]] = Arg(i)
  <2> SUFFICES ASSUME NEW i \in Pending
               PROVE  src'[i] \in Reg /\ regs'[src'[i]] = Arg(i)
    OBVIOUS
  <2>1. i \in RegArgs
    BY DEF Pending
  <2>2. CASE src[i] = src[c]
    BY <1>3, <1>4, <1>5, <2>1, <2>2, Registers
  <2>3. CASE src[i] # src[c]
    BY <1>3, <1>4, <1>5, <2>1, <2>3
  <2>4. QED
    BY <2>2, <2>3
<1>9. SourcesIntact' /\ SourcesAreRegisters'
  BY <1>0, <1>6, <1>8 DEF SourcesIntact, SourcesAreRegisters, Arg
<1>10. CopiesIntact'
  BY <1>0, <1>1, <1>4, SameCall DEF IInv, CopiesIntact
<1>11. PassedAreBlocked'
  BY <1>0, <1>1, <1>6 DEF PassedAreBlocked, Pending
<1>12. FrameKept'
  BY <1>0, <1>4, Registers DEF IInv, FrameKept
<1>13. StackWritten'
  BY <1>0, SameCall DEF IInv, StackWritten, StackWords
<1>14. HomesIntact' /\ ConstsWritten' /\ ArgumentsArrive' /\ ResultReady'
  BY <1>0 DEF HomesIntact, ConstsWritten, ArgumentsArrive, ResultReady
<1>15. QED
  BY <1>7, <1>9, <1>10, <1>11, <1>12, <1>13, <1>14 DEF IInv

LEMMA RoundDoneInvariant == IInv /\ RoundDone => IInv'
<1> SUFFICES ASSUME IInv, RoundDone PROVE IInv'
  OBVIOUS
<1>0. /\ call \in Calls /\ call' = call /\ phase = "break" /\ phase' \in {"drain", "consts"}
      /\ Pending = {} /\ k' = 1 /\ src' = src /\ done' = done /\ drained' = drained
      /\ regs' = regs /\ stack' = stack /\ passed' = passed
  BY DEF IInv, TypeOK, RoundDone
<1>1. NReg \in Nat /\ k' \in 1 .. NReg + 1
  BY <1>0, Operands
<1>2. Pending' = {}
  BY <1>0, SameCall DEF Pending
<1>3. TypeOK'
  <2>1. progress' \in BOOLEAN
    BY Zenon DEF RoundDone
  <2>2. QED
    BY <1>0, <1>1, <2>1, SameCall DEF IInv, TypeOK, Phases
<1>4. CopiesIntact'
  BY <1>0, SameCall DEF IInv, CopiesIntact
<1>5. /\ SourcesIntact' /\ SourcesAreRegisters' /\ PassedAreBlocked' /\ ConstsWritten'
  BY <1>0, <1>2 DEF SourcesIntact, SourcesAreRegisters, PassedAreBlocked, ConstsWritten
<1>6. FrameKept' /\ StackWritten'
  BY <1>0, SameCall DEF IInv, FrameKept, StackWritten, StackWords
<1>7. HomesIntact' /\ ArgumentsArrive' /\ ResultReady'
  BY <1>0 DEF HomesIntact, ArgumentsArrive, ResultReady
<1>8. QED
  BY <1>3, <1>4, <1>5, <1>6, <1>7 DEF IInv

LEMMA ConstArgInvariant == IInv /\ ConstArg => IInv'
<1> SUFFICES ASSUME IInv, ConstArg PROVE IInv'
  OBVIOUS
<1>0. /\ call \in Calls /\ call' = call /\ phase = "consts" /\ phase' = "consts"
      /\ k <= NReg /\ k' = k + 1 /\ k \in 1 .. NReg + 1
      /\ src' = src /\ done' = done /\ drained' = drained /\ progress' = progress
      /\ regs \in [Reg -> Value] /\ stack' = stack /\ passed' = passed
      /\ done \in [1 .. NReg -> BOOLEAN] /\ Pending = {}
  BY DEF IInv, TypeOK, ConstArg, ConstsWritten
<1>1. /\ NReg \in Nat /\ RegArgs = 1 .. NReg /\ k \in RegArgs /\ k' \in 1 .. NReg + 1
      /\ \A i \in RegArgs : ArgReg[i] \in Reg /\ ArgReg[i] \notin Saved
      /\ \A i, j \in RegArgs : ArgReg[i] = ArgReg[j] => i = j
      /\ \A i \in RegArgs : Arg(i) \in Value
  BY <1>0, Operands, Registers DEF RegArgs
<1>2. regs' = IF ~done[k] /\ ~IsVreg(Arg(k)) THEN [regs EXCEPT ![ArgReg[k]] = Arg(k)] ELSE regs
  BY DEF ConstArg, Arg
<1>3. /\ regs' \in [Reg -> Value]
      /\ \A r \in Reg : r # ArgReg[k] => regs'[r] = regs[r]
  BY <1>0, <1>1, <1>2
<1>4. regs'[ArgReg[k]] = Arg(k)
  <2>1. CASE done[k]
    BY <1>0, <1>1, <1>2, <2>1 DEF IInv, CopiesIntact
  <2>2. CASE ~done[k] /\ ~IsVreg(Arg(k))
    BY <1>0, <1>1, <1>2, <2>2
  <2>3. ~(~done[k] /\ IsVreg(Arg(k)))
    BY <1>0, <1>1 DEF Pending, Arg
  <2>4. QED
    BY <2>1, <2>2, <2>3
<1>5. Pending' = {}
  BY <1>0, SameCall DEF Pending
<1>6. TypeOK'
  BY <1>0, <1>1, <1>3, SameCall DEF IInv, TypeOK
<1>7. ConstsWritten'
  <2>1. \A i \in 1 .. k : regs'[ArgReg[i]] = Arg(i)
    BY <1>0, <1>1, <1>3, <1>4 DEF IInv, ConstsWritten
  <2>2. QED
    BY <1>0, <1>5, <2>1, SameCall DEF ConstsWritten
<1>8. CopiesIntact'
  <2>1. \A i \in RegArgs : done[i] => IsVreg(Arg(i)) /\ regs'[ArgReg[i]] = Arg(i)
    BY <1>0, <1>1, <1>3, <1>4 DEF IInv, CopiesIntact
  <2>2. QED
    BY <1>0, <2>1, SameCall DEF CopiesIntact
<1>9. FrameKept'
  BY <1>0, <1>1, <1>3, Registers DEF IInv, FrameKept
<1>10. StackWritten'
  BY <1>0, SameCall DEF IInv, StackWritten, StackWords
<1>11. /\ HomesIntact' /\ SourcesIntact' /\ SourcesAreRegisters' /\ PassedAreBlocked'
       /\ ArgumentsArrive' /\ ResultReady'
  BY <1>0 DEF HomesIntact, SourcesIntact, SourcesAreRegisters, PassedAreBlocked,
              ArgumentsArrive, ResultReady
<1>12. QED
  BY <1>6, <1>7, <1>8, <1>9, <1>10, <1>11 DEF IInv

LEMMA InvokeInvariant == IInv /\ Invoke => IInv'
<1> SUFFICES ASSUME IInv, Invoke PROVE IInv'
  OBVIOUS
<1> DEFINE found(i) == IF i <= Len(ArgReg) THEN regs[ArgReg[i]] ELSE stack[i - Len(ArgReg)]
<1>0. /\ call \in Calls /\ call' = call /\ phase = "consts" /\ phase' = "called"
      /\ k > NReg /\ k \in 1 .. NReg + 1 /\ k' = k
      /\ drained' = drained /\ progress' = progress /\ stack' = stack
      /\ regs \in [Reg -> Value] /\ stack \in Seq(Value)
      /\ passed' = [i \in 1 .. NArgs |-> found(i)]
  BY DEF IInv, TypeOK, Invoke
<1>1. /\ NArgs \in Nat /\ NReg \in Nat /\ NStack \in Nat /\ Len(ArgReg) \in Nat
      /\ NReg <= Len(ArgReg) /\ NReg + NStack = NArgs /\ (NStack > 0 => NReg = Len(ArgReg))
      /\ call.args = [i \in 1 .. NArgs |-> Arg(i)]
      /\ \A i \in 1 .. NArgs : Arg(i) \in Value
  BY <1>0, Operands, Registers
<1>2. \A i \in 1 .. NReg : regs[ArgReg[i]] = Arg(i)
  BY <1>0, <1>1 DEF IInv, ConstsWritten
<1>3. \A i \in 1 .. NStack :
        stack[i] = IF i <= Reach THEN Arg(Len(ArgReg) + i) ELSE Junk
  BY <1>0, <1>1 DEF IInv, StackWritten, StackWords
<1> DEFINE due(i) == IF InReach(i) THEN Arg(i) ELSE Junk
<1>4. \A i \in 1 .. NArgs : found(i) = due(i)
  <2> SUFFICES ASSUME NEW i \in 1 .. NArgs PROVE found(i) = due(i)
    OBVIOUS
  <2>1. CASE i <= Len(ArgReg)
    BY <1>1, <1>2, <2>1, FieldAssumption DEF InReach
  <2>2. CASE i > Len(ArgReg)
    <3>1. i - Len(ArgReg) \in 1 .. NStack /\ Len(ArgReg) + (i - Len(ArgReg)) = i
      BY <1>1, <2>2
    <3>2. InReach(i) <=> i - Len(ArgReg) <= Reach
      BY <1>1, FieldAssumption DEF InReach
    <3>3. QED
      BY <1>1, <1>3, <2>2, <3>1, <3>2
  <2>3. QED
    BY <1>1, <2>1, <2>2
<1>a. \A i \in 1 .. NArgs : due(i) \in Value
  BY <1>1, Registers
<1> HIDE DEF found, due
<1>5. passed' = [i \in 1 .. NArgs |-> due(i)]
  BY <1>0, <1>4
<1>6. passed' \in Seq(Value)
  BY <1>1, <1>5, <1>a
<1>7. regs' = [r \in Reg |-> IF r \in Saved THEN regs[r]
                             ELSE IF r = ArgReg[1] THEN Result ELSE Junk]
  BY DEF Invoke
<1>8. /\ regs' \in [Reg -> Value] /\ regs'[ArgReg[1]] = Result
      /\ \A r \in Saved : regs'[r] = regs[r]
  BY <1>0, <1>7, Registers
<1>9. TypeOK'
  BY <1>0, <1>6, <1>8, SameCall DEF IInv, TypeOK, Phases
<1>10. FrameKept'
  BY <1>0, <1>8 DEF IInv, FrameKept
<1>b. passed' = [i \in 1 .. NArgs |-> IF InReach(i) THEN call.args[i] ELSE Junk]
  BY <1>5 DEF due, Arg
<1>11. ArgumentsArrive' /\ ResultReady'
  BY <1>0, <1>8, <1>b, SameCall DEF ArgumentsArrive, ResultReady
<1>12. /\ HomesIntact' /\ StackWritten' /\ SourcesIntact' /\ CopiesIntact'
       /\ SourcesAreRegisters' /\ PassedAreBlocked' /\ ConstsWritten'
  BY <1>0 DEF HomesIntact, StackWritten, SourcesIntact, CopiesIntact,
              SourcesAreRegisters, PassedAreBlocked, ConstsWritten
<1>13. QED
  BY <1>9, <1>10, <1>11, <1>12 DEF IInv

LEMMA ReturnInvariant == IInv /\ Return => IInv'
<1> SUFFICES ASSUME IInv, Return PROVE IInv'
  OBVIOUS
<1>0. /\ call \in Calls /\ call' = call /\ phase = "called" /\ phase' = "end"
      /\ k' = k /\ drained' = drained /\ progress' = progress /\ passed' = passed
      /\ regs \in [Reg -> Value] /\ stack \in Seq(Value) /\ Len(stack) = NStack
      /\ regs[ArgReg[1]] = Result
  BY DEF IInv, TypeOK, Return, ResultReady
<1>1. NStack \in Nat /\ call.dst \in Home \cup {NoDst}
  BY <1>0, Operands
<1>2. stack' = <<>>
  BY <1>0, <1>1 DEF Return, Freed
<1>3. regs' = IF call.dst = NoDst THEN regs ELSE [regs EXCEPT ![call.dst] = Result]
  BY <1>0 DEF Return
<1>4. /\ regs' \in [Reg -> Value]
      /\ \A r \in Reg : r # call.dst => regs'[r] = regs[r]
      /\ call.dst # NoDst => regs'[call.dst] = Result
  BY <1>0, <1>1, <1>3, Registers
<1>5. TypeOK'
  <2>1. stack' \in Seq(Value) /\ Len(stack') = 0
    BY <1>2
  <2>2. QED
    BY <1>0, <1>4, <2>1, SameCall DEF IInv, TypeOK, Phases
<1>6. FrameKept'
  BY <1>0, <1>2, <1>4, Registers DEF IInv, FrameKept
<1>7. ArgumentsArrive'
  BY <1>0, SameCall DEF IInv, ArgumentsArrive
<1>8. /\ HomesIntact' /\ StackWritten' /\ SourcesIntact' /\ CopiesIntact'
      /\ SourcesAreRegisters' /\ PassedAreBlocked' /\ ConstsWritten' /\ ResultReady'
  BY <1>0 DEF HomesIntact, StackWritten, SourcesIntact, CopiesIntact,
              SourcesAreRegisters, PassedAreBlocked, ConstsWritten, ResultReady
<1>9. QED
  BY <1>5, <1>6, <1>7, <1>8 DEF IInv

LEMMA StutterInvariant == IInv /\ UNCHANGED vars => IInv'
<1> SUFFICES ASSUME IInv, UNCHANGED vars PROVE IInv'
  OBVIOUS
<1>1. /\ call' = call /\ phase' = phase /\ k' = k /\ src' = src /\ done' = done
      /\ drained' = drained /\ progress' = progress /\ regs' = regs /\ stack' = stack
      /\ passed' = passed
  BY DEF vars
<1>2. Pending' = Pending /\ \A i : Blocked(i)' = Blocked(i)
  BY <1>1, SameCall DEF Pending, Blocked
<1>3. TypeOK' /\ FrameKept' /\ ArgumentsArrive' /\ ResultReady'
  BY <1>1, SameCall DEF IInv, TypeOK, FrameKept, ArgumentsArrive, ResultReady
<1>4. HomesIntact' /\ StackWritten'
  BY <1>1, SameCall DEF IInv, HomesIntact, StackWritten, StackWords
<1>5. SourcesIntact' /\ SourcesAreRegisters' /\ CopiesIntact'
  BY <1>1, <1>2, SameCall DEF IInv, SourcesIntact, SourcesAreRegisters, CopiesIntact
<1>6. PassedAreBlocked' /\ ConstsWritten'
  BY <1>1, <1>2, SameCall DEF IInv, PassedAreBlocked, ConstsWritten
<1>7. QED
  BY <1>3, <1>4, <1>5, <1>6 DEF IInv

-----------------------------------------------------------------------------
(***************************************************************************)
(* The theorems.                                                           *)
(***************************************************************************)
\* The inductive invariant holds of the code of every call.
THEOREM Invariant == Spec => []IInv
<1>1. IInv /\ [Next]_vars => IInv'
  BY ReserveInvariant, StackArgInvariant, StackDoneInvariant, CopyInvariant,
     SkipInvariant, PassDoneInvariant, BreakCycleInvariant, RoundDoneInvariant,
     ConstArgInvariant, InvokeInvariant, ReturnInvariant, StutterInvariant DEF Next
<1>2. QED
  BY InitInvariant, <1>1, PTL DEF Spec, SafeSpec

\* The variables of the code generator and of the machine keep their types.
THEOREM TypeCorrect == Spec => []TypeOK
BY Invariant, PTL DEF IInv

\* No copy destroys what another has still to read.
THEOREM SourcesCorrect == Spec => []SourcesIntact
BY Invariant, PTL DEF IInv

\* A drain of the pending copies leaves nothing but cycles: with each source
\* read once, and the scratch register never among them, one is enough.
THEOREM CyclesCorrect == Spec => []OnlyCyclesLeft
<1>1. IInv => OnlyCyclesLeft
  BY CyclesLeft
<1>2. QED
  BY Invariant, <1>1, PTL

\* The callee finds each argument in its register or stack word, as far as the
\* offset field of SW reaches; with IR_MAX_ARGS arguments it does not find the
\* last ones, whose stores wrap to words below sp.
THEOREM ArgumentsCorrect == Spec => []ArgumentsArrive
BY Invariant, PTL DEF IInv

\* A call disturbs no preserved register and no word of the stack.
THEOREM FrameCorrect == Spec => []FrameKept
BY Invariant, PTL DEF IInv

\* The moves of emit_instr, whatever order and cycles they take.
THEOREM MovesCorrect == Spec => []MovesSafe
BY SourcesCorrect, CyclesCorrect, PTL DEF MovesSafe

\* A call as the callee sees it, up to the reach of the field, and as the
\* caller does.
THEOREM CallsCorrect == Spec => []CallCorrect
BY ArgumentsCorrect, FrameCorrect, PTL DEF CallCorrect
=============================================================================
