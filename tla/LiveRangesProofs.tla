-------------------------- MODULE LiveRangesProofs --------------------------
(***************************************************************************)
(* Liveness as LiveRanges defines it, by paths: it solves the equations of *)
(* liveness in every block, no solution is smaller, and it can be computed *)
(* backwards through a block. For every function body.                     *)
(***************************************************************************)
EXTENDS LiveRanges, FiniteSetTheorems, SequenceTheorems, WellFoundedInduction, TLAPS

-----------------------------------------------------------------------------
(***************************************************************************)
(* Blocks and instructions.                                                *)
(***************************************************************************)
LEMMA BlocksFinite == IsFiniteSet(Block) /\ Cardinality(Block) = NumBlocks
BY FS_Interval, BlocksAssumption DEF Block

LEMMA SuccsInBlock ==
  ASSUME NEW c \in Seq(Instr)
  PROVE  /\ SuccIds(c) \in Seq(Block)
         /\ SuccSet(c) \subseteq Block
<1>1. CASE c # <<>> /\ c[Len(c)].op \in {"GOTO", "BRANCH", "SWITCH"}
  <2>1. c[Len(c)] \in Instr
    BY <1>1
  <2>2. c[Len(c)].tgt \in Seq(Block)
    BY <2>1 DEF Instr
  <2>. QED
    BY <1>1, <2>2 DEF SuccSet, SuccIds
<1>2. CASE ~(c # <<>> /\ c[Len(c)].op \in {"GOTO", "BRANCH", "SWITCH"})
  BY <1>2 DEF SuccSet, SuccIds
<1>. QED
  BY <1>1, <1>2

\* Definitions and uses of an instruction are registers.
LEMMA OperandsAreRegisters ==
  ASSUME NEW i \in Instr
  PROVE  InstrDef(i) \subseteq Vreg /\ InstrUses(i) \subseteq Vreg
BY DEF InstrDef, InstrUses, Instr, Operand

-----------------------------------------------------------------------------
(***************************************************************************)
(* Induction, in the form used below.                                      *)
(***************************************************************************)
Smaller == {p \in Nat \X Nat : p[1] < p[2]}

LEMMA LeastNumber ==
  ASSUME NEW S \in SUBSET Nat, S # {}
  PROVE  \E least \in S : \A n \in S : least <= n
<1>1. IsWellFoundedOn(Smaller, Nat)
  BY NatLessThanWellFounded DEF OpToRel, Smaller
<1>2. \E least \in S : \A n \in S : ~(<<n, least>> \in Smaller)
  BY <1>1, WFMin
<1>3. \A m, n \in Nat : <<m, n>> \in Smaller <=> m < n
  BY DEF Smaller
<1>4. \A m, n \in Nat : ~(m < n) => n <= m
  OBVIOUS
<1>. QED
  BY <1>2, <1>3, <1>4

-----------------------------------------------------------------------------
(***************************************************************************)
(* Paths. The recursive function of Paths, which adds one block at the end *)
(* at a time, yields the paths as one would describe them.                 *)
(***************************************************************************)
IsPath(body, p, n) == \A i \in 1 .. n - 1 : p[i + 1] \in SuccSet(body[p[i]])
PathsOf(body, b, n) == {p \in [1 .. n -> Block] : p[1] = b /\ IsPath(body, p, n)}

LEMMA PathOfOne ==
  ASSUME NEW body, NEW b \in Block PROVE PathsOf(body, b, 1) = {<<b>>}
<1>1. <<b>> \in [1 .. 1 -> Block] /\ <<b>>[1] = b
  OBVIOUS
<1>2. \A p \in [1 .. 1 -> Block] : p[1] = b => p = <<b>>
  OBVIOUS
<1>. QED
  BY <1>1, <1>2 DEF PathsOf, IsPath

LEMMA PathGrows ==
  ASSUME NEW body \in Body, NEW b \in Block, NEW n \in Nat \ {0}
  PROVE  PathsOf(body, b, n + 1) =
           UNION {{Append(p, s) : s \in SuccSet(body[p[n]])} : p \in PathsOf(body, b, n)}
<1>1. ASSUME NEW p \in PathsOf(body, b, n), NEW s \in SuccSet(body[p[n]])
      PROVE  Append(p, s) \in PathsOf(body, b, n + 1)
  <2>1. p \in [1 .. n -> Block] /\ p[1] = b /\ IsPath(body, p, n)
    BY DEF PathsOf
  <2>2. s \in Block
    BY <2>1, SuccsInBlock DEF Body
  <2>3. p \in Seq(Block) /\ Len(p) = n
    BY <2>1
  <2>4. /\ Append(p, s) \in [1 .. n + 1 -> Block]
        /\ \A i \in 1 .. n : Append(p, s)[i] = p[i]
        /\ Append(p, s)[n + 1] = s
    <3>1. /\ Append(p, s) \in Seq(Block) /\ Len(Append(p, s)) = n + 1
          /\ \A i \in 1 .. n : Append(p, s)[i] = p[i]
          /\ Append(p, s)[n + 1] = s
      BY <2>2, <2>3, AppendProperties
    <3>2. Append(p, s) \in [1 .. Len(Append(p, s)) -> Block]
      BY <3>1, LenProperties
    <3>. QED
      BY <3>1, <3>2
  <2>5. IsPath(body, Append(p, s), n + 1)
    BY <2>1, <2>4 DEF IsPath
  <2>6. Append(p, s)[1] = b
    BY <2>1, <2>4
  <2>. QED
    BY <2>4, <2>5, <2>6 DEF PathsOf
<1>2. ASSUME NEW q \in PathsOf(body, b, n + 1)
      PROVE  \E p \in PathsOf(body, b, n) : \E s \in SuccSet(body[p[n]]) : q = Append(p, s)
  <2>. DEFINE p == [i \in 1 .. n |-> q[i]]
  <2>1. q \in [1 .. n + 1 -> Block] /\ q[1] = b /\ IsPath(body, q, n + 1)
    BY DEF PathsOf
  <2>2. p \in [1 .. n -> Block] /\ \A i \in 1 .. n : p[i] = q[i]
    BY <2>1
  <2>. HIDE DEF p
  <2>3. p \in Seq(Block) /\ Len(p) = n
    BY <2>2
  <2>4. p \in PathsOf(body, b, n)
    BY <2>1, <2>2 DEF PathsOf, IsPath
  <2>5. q[n + 1] \in SuccSet(body[p[n]]) /\ q[n + 1] \in Block
    BY <2>1, <2>2 DEF IsPath
  <2>6. q = Append(p, q[n + 1])
    BY <2>1, <2>2, <2>3, <2>5
  <2>. QED
    BY <2>4, <2>5, <2>6
<1>. DEFINE Longer(p) == {Append(p, s) : s \in SuccSet(body[p[n]])}
     All == UNION {Longer(p) : p \in PathsOf(body, b, n)}
<1>3. All \subseteq PathsOf(body, b, n + 1)
  <2>. SUFFICES ASSUME NEW p \in PathsOf(body, b, n), NEW q \in Longer(p)
                PROVE  q \in PathsOf(body, b, n + 1)
    OBVIOUS
  <2>1. PICK s \in SuccSet(body[p[n]]) : q = Append(p, s)
    OBVIOUS
  <2>. QED
    BY <1>1, <2>1
<1>4. PathsOf(body, b, n + 1) \subseteq All
  <2>. SUFFICES ASSUME NEW q \in PathsOf(body, b, n + 1) PROVE q \in All
    OBVIOUS
  <2>1. PICK p \in PathsOf(body, b, n) : \E s \in SuccSet(body[p[n]]) : q = Append(p, s)
    BY <1>2
  <2>2. q \in Longer(p)
    BY <2>1
  <2>. QED
    BY <2>2
<1>. QED
  BY <1>3, <1>4

LEMMA PathsAre ==
  ASSUME NEW body \in Body, NEW b \in Block
  PROVE  Paths(body, b) = UNION {PathsOf(body, b, n) : n \in 1 .. NumBlocks}
<1>. DEFINE Rec(g, n) ==
       IF n = 1 THEN {<<b>>}
       ELSE UNION {{Append(p, s) : s \in SuccSet(body[p[n - 1]])} : p \in g[n - 1]}
     L == [n \in 1 .. NumBlocks |-> PathsOf(body, b, n)]
     R == CHOOSE g : g = [n \in 1 .. NumBlocks |-> Rec(g, n)]
<1>1. ASSUME NEW g, NEW n \in 1 .. NumBlocks,
             n # 1 => g[n - 1] = PathsOf(body, b, n - 1)
      PROVE  Rec(g, n) = PathsOf(body, b, n)
  <2>1. CASE n = 1
    BY <2>1, PathOfOne
  <2>2. CASE n # 1
    <3>1. n - 1 \in Nat \ {0} /\ (n - 1) + 1 = n
      BY <2>2, BlocksAssumption
    <3>. QED
      BY <1>1, <2>2, <3>1, PathGrows
  <2>. QED
    BY <2>1, <2>2
<1>2. \A n \in 1 .. NumBlocks : n # 1 => n - 1 \in 1 .. NumBlocks
  BY BlocksAssumption
<1>3. \A n \in 1 .. NumBlocks : L[n] = PathsOf(body, b, n)
  OBVIOUS
<1>. HIDE DEF Rec
<1>4. L = [n \in 1 .. NumBlocks |-> Rec(L, n)]
  BY <1>1, <1>2, <1>3
<1>. HIDE DEF L
<1>5. R = [n \in 1 .. NumBlocks |-> Rec(R, n)]
  BY <1>4
<1>. HIDE DEF R
<1>6. \A n \in 1 .. NumBlocks : R[n] = Rec(R, n)
  BY <1>5
<1>7. \A n \in 1 .. NumBlocks : R[n] = PathsOf(body, b, n)
  <2>. DEFINE S == {n \in 1 .. NumBlocks : R[n] # PathsOf(body, b, n)}
  <2>. SUFFICES ASSUME S # {} PROVE FALSE
    OBVIOUS
  <2>1. S \in SUBSET Nat
    BY BlocksAssumption
  <2>2. \E n \in S : \A m \in S : n <= m
    <3>. HIDE DEF S
    <3>. QED
      BY <2>1, LeastNumber
  <2>3. PICK n \in S : \A m \in S : n <= m
    BY <2>2
  <2>4. n # 1 => R[n - 1] = PathsOf(body, b, n - 1)
    BY <1>2, <2>3, BlocksAssumption
  <2>5. R[n] = PathsOf(body, b, n)
    BY <1>1, <1>6, <2>4
  <2>. QED
    BY <2>5
<1>8. Paths(body, b) = UNION {R[n] : n \in 1 .. NumBlocks}
  BY DEF Paths, R, Rec
<1>. QED
  BY <1>7, <1>8

-----------------------------------------------------------------------------
(***************************************************************************)
(* The blocks into which a register is live, by the length of the path to  *)
(* its read: each length is one application of the equation of liveness.   *)
(***************************************************************************)
ReadIn(body, b) == ReadFrom(body[b], 1)
KilledIn(body, b) == WrittenIn(body[b], 1, Len(body[b]))

\* A path of n blocks from b leads to a read of v and does not write it before.
ReadAt(body, v, p, n) == v \in ReadIn(body, p[n]) /\ \A i \in 1 .. n - 1 : v \notin KilledIn(body, p[i])
Via(body, v, n) == {b \in Block : \E p \in PathsOf(body, b, n) : ReadAt(body, v, p, n)}
Within(body, v, n) == {b \in Block : \E m \in 1 .. n : b \in Via(body, v, m)}

\* The blocks b that read v, or pass it on to a successor in S.
Equation(body, v, S) ==
  {b \in Block : v \in ReadIn(body, b) \/ (v \notin KilledIn(body, b) /\ SuccSet(body[b]) \cap S # {})}

LEMMA ViaOne ==
  ASSUME NEW body, NEW v PROVE Via(body, v, 1) = {b \in Block : v \in ReadIn(body, b)}
<1>1. \A b \in Block : ReadAt(body, v, <<b>>, 1) <=> v \in ReadIn(body, b)
  BY DEF ReadAt
<1>. QED
  BY <1>1, PathOfOne DEF Via

\* Without its first block, a path is one block shorter.
LEMMA ViaMore ==
  ASSUME NEW body \in Body, NEW v, NEW n \in Nat \ {0}
  PROVE  Via(body, v, n + 1) = {b \in Block : v \notin KilledIn(body, b) /\ SuccSet(body[b]) \cap Via(body, v, n) # {}}
<1>1. ASSUME NEW b \in Block, NEW p \in PathsOf(body, b, n + 1), ReadAt(body, v, p, n + 1)
      PROVE  v \notin KilledIn(body, b) /\ SuccSet(body[b]) \cap Via(body, v, n) # {}
  <2>. DEFINE q == [i \in 1 .. n |-> p[i + 1]]
  <2>1. p \in [1 .. n + 1 -> Block] /\ p[1] = b /\ IsPath(body, p, n + 1)
    BY DEF PathsOf
  <2>2. q \in [1 .. n -> Block] /\ \A i \in 1 .. n : q[i] = p[i + 1]
    BY <2>1
  <2>. HIDE DEF q
  <2>3. 1 \in 1 .. n /\ n \in 1 .. n /\ (n + 1) - 1 = n
    OBVIOUS
  <2>4. q[1] \in SuccSet(body[b]) /\ q[1] \in Block
    BY <2>1, <2>2, <2>3 DEF IsPath
  <2>5. \A i \in 1 .. n - 1 : i \in 1 .. n /\ i + 1 \in 1 .. n
    OBVIOUS
  <2>6. IsPath(body, q, n)
    BY <2>1, <2>2, <2>3, <2>5 DEF IsPath
  <2>7. ReadAt(body, v, q, n)
    BY <1>1, <2>2, <2>3, <2>5 DEF ReadAt
  <2>8. q[1] \in Via(body, v, n)
    BY <2>2, <2>4, <2>6, <2>7 DEF Via, PathsOf
  <2>9. v \notin KilledIn(body, b)
    BY <1>1, <2>1, <2>3 DEF ReadAt
  <2>. QED
    BY <2>4, <2>8, <2>9
<1>2. ASSUME NEW b \in Block, NEW s \in SuccSet(body[b]), NEW q \in PathsOf(body, s, n),
             ReadAt(body, v, q, n), v \notin KilledIn(body, b)
      PROVE  b \in Via(body, v, n + 1)
  <2>. DEFINE p == [i \in 1 .. n + 1 |-> IF i = 1 THEN b ELSE q[i - 1]]
  <2>1. q \in [1 .. n -> Block] /\ q[1] = s /\ IsPath(body, q, n)
    BY DEF PathsOf
  <2>2. p[1] = b /\ \A i \in 1 .. n : p[i + 1] = q[i]
    OBVIOUS
  <2>3. p \in [1 .. n + 1 -> Block]
    BY <2>1
  <2>. HIDE DEF p
  <2>4. \A i \in 1 .. n : i = 1 \/ (i - 1 \in 1 .. n - 1 /\ i - 1 \in 1 .. n /\ (i - 1) + 1 = i)
    OBVIOUS
  <2>5. (n + 1) - 1 = n /\ n \in 1 .. n /\ 1 \in 1 .. n /\ 1 + 1 \in 1 .. n + 1
    OBVIOUS
  <2>6. IsPath(body, p, n + 1)
    <3>. SUFFICES ASSUME NEW i \in 1 .. n PROVE p[i + 1] \in SuccSet(body[p[i]])
      BY <2>5 DEF IsPath
    <3>1. CASE i = 1
      BY <2>1, <2>2, <2>5, <3>1
    <3>2. CASE i # 1
      <4>1. q[i] \in SuccSet(body[q[i - 1]])
        BY <2>1, <2>4, <3>2 DEF IsPath
      <4>2. p[i] = q[i - 1]
        BY <2>2, <2>4, <3>2
      <4>. QED
        BY <2>2, <4>1, <4>2
    <3>. QED
      BY <3>1, <3>2
  <2>7. ReadAt(body, v, p, n + 1)
    <3>1. v \in ReadIn(body, p[n + 1])
      BY <1>2, <2>2, <2>5 DEF ReadAt
    <3>2. ASSUME NEW i \in 1 .. n PROVE v \notin KilledIn(body, p[i])
      <4>1. CASE i = 1
        BY <1>2, <2>2, <4>1
      <4>2. CASE i # 1
        <5>1. v \notin KilledIn(body, q[i - 1])
          BY <1>2, <2>4, <4>2 DEF ReadAt
        <5>2. p[i] = q[i - 1]
          BY <2>2, <2>4, <4>2
        <5>. QED
          BY <5>1, <5>2
      <4>. QED
        BY <4>1, <4>2
    <3>. QED
      BY <2>5, <3>1, <3>2 DEF ReadAt
  <2>. QED
    BY <2>2, <2>3, <2>6, <2>7 DEF Via, PathsOf
<1>. QED
  BY <1>1, <1>2 DEF Via

LEMMA WithinMore ==
  ASSUME NEW body \in Body, NEW v, NEW n \in Nat
  PROVE  /\ Within(body, v, n + 1) = Equation(body, v, Within(body, v, n))
         /\ Within(body, v, n) \subseteq Within(body, v, n + 1)
<1>1. \A m : m \in 1 .. n + 1 <=> m = 1 \/ (m \in 2 .. n + 1)
  OBVIOUS
<1>2. \A m \in 2 .. n + 1 : m - 1 \in 1 .. n /\ m - 1 \in Nat \ {0} /\ (m - 1) + 1 = m
  OBVIOUS
<1>3. \A m \in 1 .. n : m + 1 \in 2 .. n + 1 /\ m \in Nat \ {0} /\ m \in 1 .. n + 1
  OBVIOUS
<1>4. \A b \in Block : SuccSet(body[b]) \subseteq Block
  BY SuccsInBlock DEF Body
<1>5. ASSUME NEW b \in Within(body, v, n + 1) PROVE b \in Equation(body, v, Within(body, v, n))
  <2>1. PICK m \in 1 .. n + 1 : b \in Via(body, v, m)
    BY DEF Within
  <2>2. CASE m = 1
    BY <2>1, <2>2, ViaOne DEF Equation
  <2>3. CASE m \in 2 .. n + 1
    <3>1. b \in Via(body, v, (m - 1) + 1)
      BY <1>2, <2>1, <2>3
    <3>2. b \in Block /\ v \notin KilledIn(body, b) /\ SuccSet(body[b]) \cap Via(body, v, m - 1) # {}
      <4>1. m - 1 \in Nat \ {0}
        BY <1>2, <2>3
      <4>2. Via(body, v, (m - 1) + 1) =
              {c \in Block : v \notin KilledIn(body, c) /\ SuccSet(body[c]) \cap Via(body, v, m - 1) # {}}
        BY <4>1, ViaMore
      <4>. QED
        BY <3>1, <4>2
    <3>3. Via(body, v, m - 1) \subseteq Within(body, v, n)
      BY <1>2, <2>3 DEF Within, Via
    <3>. QED
      BY <3>2, <3>3 DEF Equation
  <2>. QED
    BY <1>1, <2>2, <2>3
<1>6. ASSUME NEW b \in Equation(body, v, Within(body, v, n)) PROVE b \in Within(body, v, n + 1)
  <2>1. b \in Block
    BY DEF Equation
  <2>2. CASE v \in ReadIn(body, b)
    <3>1. b \in Via(body, v, 1) /\ 1 \in 1 .. n + 1
      BY <2>1, <2>2, ViaOne
    <3>. QED
      BY <2>1, <3>1 DEF Within
  <2>3. CASE v \notin KilledIn(body, b) /\ SuccSet(body[b]) \cap Within(body, v, n) # {}
    <3>1. PICK m \in 1 .. n : SuccSet(body[b]) \cap Via(body, v, m) # {}
      BY <2>3 DEF Within
    <3>2. b \in Via(body, v, m + 1)
      BY <1>3, <2>1, <2>3, <3>1, ViaMore
    <3>. QED
      BY <1>1, <1>3, <2>1, <3>2 DEF Within
  <2>. QED
    BY <2>2, <2>3 DEF Equation
<1>7. Within(body, v, n) \subseteq Within(body, v, n + 1)
  BY <1>3 DEF Within
<1>. QED
  BY <1>5, <1>6, <1>7

(***************************************************************************)
(* Longer paths than there are blocks show nothing new: as long as longer  *)
(* ones do, each length adds a block.                                      *)
(***************************************************************************)
LEMMA Saturates ==
  ASSUME NEW body \in Body, NEW v
  PROVE  Within(body, v, NumBlocks) = Equation(body, v, Within(body, v, NumBlocks))
<1>1. \A n \in Nat : /\ Within(body, v, n) \in SUBSET Block /\ IsFiniteSet(Within(body, v, n))
                     /\ Cardinality(Within(body, v, n)) \in Nat
                     /\ Cardinality(Within(body, v, n)) <= NumBlocks
  <2>1. \A n \in Nat : Within(body, v, n) \in SUBSET Block
    BY DEF Within
  <2>. QED
    BY <2>1, BlocksFinite, FS_Subset, FS_CardinalityType
<1>2. ASSUME NEW n \in Nat, Within(body, v, n) # Within(body, v, n + 1)
      PROVE  Cardinality(Within(body, v, n)) < Cardinality(Within(body, v, n + 1))
  <2>1. Within(body, v, n) \subseteq Within(body, v, n + 1)
    BY WithinMore
  <2>. QED
    BY <1>1, <1>2, <2>1, FS_Subset
<1>3. ASSUME NEW n \in Nat, Within(body, v, n) = Within(body, v, n + 1)
      PROVE  Within(body, v, n + 1) = Within(body, v, (n + 1) + 1)
  <2>1. n + 1 \in Nat
    OBVIOUS
  <2>2. /\ Within(body, v, n + 1) = Equation(body, v, Within(body, v, n))
        /\ Within(body, v, (n + 1) + 1) = Equation(body, v, Within(body, v, n + 1))
    BY <2>1, WithinMore
  <2>. QED
    BY <1>3, <2>2
<1>. DEFINE Good(n) == Within(body, v, n) = Within(body, v, n + 1) \/ Cardinality(Within(body, v, n)) >= n
<1>4. \A n \in Nat : Good(n)
  <2>. DEFINE S == {n \in Nat : ~Good(n)}
  <2>. SUFFICES ASSUME S # {} PROVE FALSE
    OBVIOUS
  <2>1. \E n \in S : \A m \in S : n <= m
    <3>1. S \in SUBSET Nat
      OBVIOUS
    <3>. HIDE DEF S
    <3>. QED
      BY <3>1, LeastNumber
  <2>2. PICK n \in S : \A m \in S : n <= m
    BY <2>1
  <2>3. n \in Nat /\ ~Good(n)
    OBVIOUS
  <2>4. n # 0
    BY <1>1, <2>3
  <2>5. n - 1 \in Nat /\ (n - 1) + 1 = n
    BY <2>3, <2>4
  <2>6. Good(n - 1)
    BY <2>2, <2>5
  <2>7. Within(body, v, n - 1) # Within(body, v, (n - 1) + 1)
    BY <1>3, <2>3, <2>5
  <2>8. Cardinality(Within(body, v, n - 1)) < Cardinality(Within(body, v, n))
    BY <1>2, <2>5, <2>7
  <2>. QED
    BY <1>1, <2>3, <2>5, <2>6, <2>7, <2>8
<1>5. NumBlocks \in Nat /\ NumBlocks + 1 \in Nat
  BY BlocksAssumption
<1>6. Within(body, v, NumBlocks) = Within(body, v, NumBlocks + 1)
  <2>. SUFFICES ASSUME Within(body, v, NumBlocks) # Within(body, v, NumBlocks + 1) PROVE FALSE
    OBVIOUS
  <2>1. Cardinality(Within(body, v, NumBlocks)) >= NumBlocks
    BY <1>4, <1>5
  <2>2. Cardinality(Within(body, v, NumBlocks)) < Cardinality(Within(body, v, NumBlocks + 1))
    BY <1>2, <1>5
  <2>. QED
    BY <1>1, <1>5, <2>1, <2>2
<1>. QED
  BY <1>5, <1>6, WithinMore

-----------------------------------------------------------------------------
(***************************************************************************)
(* Liveness by paths is a solution of the equations, and the least one on  *)
(* every set of blocks that control does not leave.                        *)
(***************************************************************************)
LEMMA ReadInType ==
  ASSUME NEW body \in Body, NEW b \in Block PROVE ReadIn(body, b) \subseteq Vreg
<1>1. body[b] \in Seq(Instr)
  BY DEF Body
<1>2. \A k \in 1 .. Len(body[b]) : InstrUses(body[b][k]) \subseteq Vreg
  BY <1>1, OperandsAreRegisters
<1>. QED
  BY <1>2 DEF ReadIn, ReadFrom

LEMMA LiveIntoIs ==
  ASSUME NEW body \in Body, NEW b \in Block
  PROVE  LiveInto(body, b) = {v \in Vreg : b \in Within(body, v, NumBlocks)}
<1>. DEFINE Seen(p) ==
       ReadFrom(body[p[Len(p)]], 1)
         \ UNION {WrittenIn(body[p[i]], 1, Len(body[p[i]])) : i \in 1 .. Len(p) - 1}
<1>1. ASSUME NEW n \in 1 .. NumBlocks, NEW p \in PathsOf(body, b, n)
      PROVE  \A v : v \in Seen(p) <=> ReadAt(body, v, p, n)
  <2>1. p \in [1 .. n -> Block] /\ n \in Nat
    BY BlocksAssumption DEF PathsOf
  <2>2. Len(p) = n
    BY <2>1
  <2>. QED
    BY <2>2 DEF ReadAt, ReadIn, KilledIn
<1>2. \A n \in 1 .. NumBlocks : \A p \in PathsOf(body, b, n) : \A v :
        ReadAt(body, v, p, n) => v \in Vreg
  BY ReadInType, BlocksAssumption DEF ReadAt, PathsOf
<1>3. LiveInto(body, b) = UNION {Seen(p) : p \in UNION {PathsOf(body, b, n) : n \in 1 .. NumBlocks}}
  BY PathsAre DEF LiveInto
<1>4. ASSUME NEW v
      PROVE  v \in LiveInto(body, b)
               <=> \E n \in 1 .. NumBlocks : \E p \in PathsOf(body, b, n) : v \in Seen(p)
  <2>. HIDE DEF Seen
  <2>. QED
    BY <1>3
<1>. HIDE DEF Seen
<1>. QED
  BY <1>1, <1>2, <1>4 DEF Within, Via

\* The equation of a block.
LEMMA LiveIntoEquation ==
  ASSUME NEW body \in Body, NEW b \in Block
  PROVE  /\ LiveInto(body, b) = ReadIn(body, b) \cup (LiveOutOf(body, b) \ KilledIn(body, b))
         /\ LiveInto(body, b) \subseteq Vreg /\ LiveOutOf(body, b) \subseteq Vreg
<1>1. SuccSet(body[b]) \subseteq Block
  BY SuccsInBlock DEF Body
<1>2. \A c \in Block : LiveInto(body, c) = {v \in Vreg : c \in Within(body, v, NumBlocks)}
  BY LiveIntoIs
<1>3. LiveInto(body, b) \subseteq Vreg
  BY <1>2
<1>4. \A v : v \in LiveOutOf(body, b) <=> \E s \in SuccSet(body[b]) : v \in LiveInto(body, s)
  BY DEF LiveOutOf
<1>5. LiveOutOf(body, b) \subseteq Vreg
  BY <1>1, <1>2, <1>4
<1>6. ASSUME NEW v \in Vreg
      PROVE  v \in LiveInto(body, b)
               <=> v \in ReadIn(body, b) \/ (v \in LiveOutOf(body, b) /\ v \notin KilledIn(body, b))
  <2>1. v \in LiveInto(body, b) <=> b \in Equation(body, v, Within(body, v, NumBlocks))
    BY <1>2, Saturates
  <2>2. SuccSet(body[b]) \cap Within(body, v, NumBlocks) # {} <=> v \in LiveOutOf(body, b)
    BY <1>1, <1>2, <1>4
  <2>. QED
    BY <2>1, <2>2 DEF Equation
<1>. QED
  BY <1>3, <1>5, <1>6, ReadInType

\* Sets that satisfy the equations where control stays hold what is live there.
LEMMA LiveIntoLeast ==
  ASSUME NEW body \in Body, NEW S \in SUBSET Block, NEW f,
         \A b \in S : SuccSet(body[b]) \subseteq S,
         \A b \in S :
           ReadIn(body, b) \cup ((UNION {f[s] : s \in SuccSet(body[b])}) \ KilledIn(body, b)) \subseteq f[b]
  PROVE  \A b \in S : LiveInto(body, b) \subseteq f[b]
<1>1. ASSUME NEW v \in Vreg
      PROVE  \A n \in Nat : \A b \in S : b \in Within(body, v, n) => v \in f[b]
  <2>. DEFINE Bad == {n \in Nat : \E b \in S : b \in Within(body, v, n) /\ v \notin f[b]}
  <2>. SUFFICES ASSUME Bad # {} PROVE FALSE
    OBVIOUS
  <2>1. \E n \in Bad : \A m \in Bad : n <= m
    <3>1. Bad \in SUBSET Nat
      OBVIOUS
    <3>. HIDE DEF Bad
    <3>. QED
      BY <3>1, LeastNumber
  <2>2. PICK n \in Bad : \A m \in Bad : n <= m
    BY <2>1
  <2>3. PICK b \in S : b \in Within(body, v, n) /\ v \notin f[b]
    OBVIOUS
  <2>4. n # 0
    BY <2>3 DEF Within
  <2>5. n \in Nat /\ n - 1 \in Nat /\ (n - 1) + 1 = n
    BY <2>4
  <2>6. \A c \in S : c \in Within(body, v, n - 1) => v \in f[c]
    BY <2>2, <2>5
  <2>7. Within(body, v, (n - 1) + 1) = Equation(body, v, Within(body, v, n - 1))
    BY <2>5, WithinMore
  <2>8. b \in Equation(body, v, Within(body, v, n - 1))
    BY <2>3, <2>5, <2>7
  <2>9. v \in ReadIn(body, b)
          \/ (v \notin KilledIn(body, b) /\ SuccSet(body[b]) \cap Within(body, v, n - 1) # {})
    BY <2>8 DEF Equation
  <2>. QED
    BY <2>3, <2>6, <2>9
<1>. QED
  BY <1>1, LiveIntoIs, BlocksAssumption

-----------------------------------------------------------------------------
(***************************************************************************)
(* Within a block.                                                         *)
(***************************************************************************)
\* Nothing of a block follows its last instruction.
LEMMA AfterLast ==
  ASSUME NEW c \in Seq(Instr), NEW out \in SUBSET Vreg
  PROVE  LiveAfterIn(c, out, Len(c)) = out
<1>1. ReadFrom(c, Len(c) + 1) = {} /\ WrittenIn(c, Len(c) + 1, Len(c)) = {}
  BY DEF ReadFrom, WrittenIn
<1>. QED
  BY <1>1 DEF LiveAfterIn

\* One instruction up: its definition goes, its operands come.
LEMMA AfterOneUp ==
  ASSUME NEW c \in Seq(Instr), NEW out \in SUBSET Vreg, NEW k \in 1 .. Len(c)
  PROVE  LiveAfterIn(c, out, k - 1) =
           (LiveAfterIn(c, out, k) \ InstrDef(c[k])) \cup InstrUses(c[k])
<1>1. Len(c) \in Nat /\ k \in Nat /\ (k - 1) + 1 = k /\ c[k] \in Instr
  OBVIOUS
<1>2. InstrUses(c[k]) \subseteq Vreg /\ InstrDef(c[k]) \subseteq Vreg
  BY <1>1, OperandsAreRegisters
<1>3. ASSUME NEW j \in Nat, k <= j
      PROVE  WrittenIn(c, k, j) = InstrDef(c[k]) \cup WrittenIn(c, k + 1, j)
  <2>1. \A i : i \in k .. j <=> i = k \/ i \in k + 1 .. j
    BY <1>1, <1>3
  <2>. QED
    BY <2>1 DEF WrittenIn
<1>4. WrittenIn(c, k, k - 1) = {}
  BY <1>1 DEF WrittenIn
<1>5. ASSUME NEW v
      PROVE  v \in ReadFrom(c, k)
               <=> v \in InstrUses(c[k]) \/ (v \in ReadFrom(c, k + 1) /\ v \notin InstrDef(c[k]))
  <2>1. v \in ReadFrom(c, k)
          <=> \E j \in k .. Len(c) : v \in InstrUses(c[j]) /\ v \notin WrittenIn(c, k, j - 1)
    BY DEF ReadFrom
  <2>2. v \in ReadFrom(c, k + 1)
          <=> \E j \in k + 1 .. Len(c) : v \in InstrUses(c[j]) /\ v \notin WrittenIn(c, k + 1, j - 1)
    BY DEF ReadFrom
  <2>3. \A j : j \in k .. Len(c) <=> j = k \/ j \in k + 1 .. Len(c)
    BY <1>1
  <2>4. \A j \in k + 1 .. Len(c) : j - 1 \in Nat /\ k <= j - 1
    BY <1>1
  <2>5. \A j \in k + 1 .. Len(c) :
          v \notin WrittenIn(c, k, j - 1)
            <=> v \notin InstrDef(c[k]) /\ v \notin WrittenIn(c, k + 1, j - 1)
    BY <1>3, <2>4
  <2>. QED
    BY <1>4, <2>1, <2>2, <2>3, <2>5
<1>6. WrittenIn(c, k, Len(c)) = InstrDef(c[k]) \cup WrittenIn(c, k + 1, Len(c))
  BY <1>1, <1>3
<1>. QED
  BY <1>1, <1>2, <1>5, <1>6 DEF LiveAfterIn

\* Before its first instruction lives what is live into the block.
LEMMA AfterNone ==
  ASSUME NEW body \in Body, NEW b \in Block
  PROVE  LiveAfterIn(body[b], LiveOutOf(body, b), 0) = LiveInto(body, b)
<1>1. 0 + 1 = 1
  OBVIOUS
<1>2. LiveInto(body, b) = ReadIn(body, b) \cup (LiveOutOf(body, b) \ KilledIn(body, b))
      /\ LiveInto(body, b) \subseteq Vreg
  BY LiveIntoEquation
<1>. QED
  BY <1>1, <1>2 DEF LiveAfterIn, ReadIn, KilledIn

\* live_after of an instruction, by its block.
LEMMA LiveAfterAt ==
  ASSUME NEW body \in Body, NEW b \in Block, NEW k \in 1 .. Len(body[b])
  PROVE  /\ LiveAfter(body)[b][k] = LiveAfterIn(body[b], LiveOutOf(body, b), k)
         /\ LiveAfter(body)[b][k] \subseteq Vreg
BY DEF LiveAfter, LiveAfterIn

\* Only registers that some instruction reads are ever live.
LEMMA LiveAreRead ==
  ASSUME NEW body \in Body, NEW R \in SUBSET Vreg,
         \A b \in Block : \A k \in 1 .. Len(body[b]) : InstrUses(body[b][k]) \subseteq R
  PROVE  \A b \in Block : \A k \in 1 .. Len(body[b]) : LiveAfter(body)[b][k] \subseteq R
<1>1. \A b \in Block : \A k \in Nat : k > 0 => ReadFrom(body[b], k) \subseteq R
  BY DEF ReadFrom
<1>2. \A b \in Block : SuccSet(body[b]) \subseteq Block
  BY SuccsInBlock DEF Body
<1>3. \A b \in Block : LiveInto(body, b) \subseteq R
  <2>. DEFINE f == [b \in Block |-> R]
  <2>1. \A b \in Block : f[b] = R
    OBVIOUS
  <2>. HIDE DEF f
  <2>2. \A b \in Block :
          ReadIn(body, b) \cup ((UNION {f[s] : s \in SuccSet(body[b])}) \ KilledIn(body, b))
            \subseteq f[b]
    BY <1>1, <1>2, <2>1 DEF ReadIn
  <2>. QED
    BY <1>2, <2>1, <2>2, LiveIntoLeast
<1>4. \A b \in Block : LiveOutOf(body, b) \subseteq R
  BY <1>2, <1>3 DEF LiveOutOf
<1>. SUFFICES ASSUME NEW b \in Block, NEW k \in 1 .. Len(body[b])
              PROVE  LiveAfter(body)[b][k] \subseteq R
  OBVIOUS
<1>5. k + 1 \in Nat /\ k + 1 > 0
  BY DEF Body
<1>. QED
  BY <1>1, <1>4, <1>5, LiveAfterAt DEF LiveAfterIn
=============================================================================
