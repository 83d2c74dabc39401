-------------------------- MODULE RelaxationProofs --------------------------
(***************************************************************************)
(* For every function, threshold and reach: the text that is emitted has   *)
(* each label once and all that its branches name; relaxation ends by      *)
(* itself, and no branch it leaves is out of reach.                        *)
(***************************************************************************)
EXTENDS Backend, FiniteSetTheorems, SequenceTheorems, WellFoundedInduction, TLAPS

-----------------------------------------------------------------------------
(***************************************************************************)
(* Induction, in the form used below.                                      *)
(***************************************************************************)
Smaller == {p \in Nat \X Nat : p[1] < p[2]}

LEMMA LeastNumber ==
  ASSUME NEW S \in SUBSET Nat, S # {}
  PROVE  \E least \in S : \A n \in S : least <= n
<1>1. IsWellFoundedOn(Smaller, Nat)
  BY NatLessThanWellFounded DEF OpToRel, Smaller
<1>2. \E least \in S : \A n \in S : ~(<<n, least>> \in Smaller)
  BY <1>1, WFMin
<1>3. \A j, n \in Nat : <<j, n>> \in Smaller <=> j < n
  BY DEF Smaller
<1>4. \A j, n \in Nat : ~(j < n) => n <= j
  OBVIOUS
<1>. QED
  BY <1>2, <1>3, <1>4

-----------------------------------------------------------------------------
(***************************************************************************)
(* Sequences laid end to end. Offset k of segs is the number of items      *)
(* before its k-th segment.                                                *)
(***************************************************************************)
Segments(S) == Seq(Seq(S))
Laid(segs, c, off) ==
  /\ off \in [1 .. Len(segs) + 1 -> Nat] /\ off[1] = 0
  /\ \A k \in DOMAIN segs : off[k + 1] = off[k] + Len(segs[k])
  /\ Len(c) = off[Len(segs) + 1]
  /\ \A k \in DOMAIN segs : \A j \in DOMAIN segs[k] : c[off[k] + j] = segs[k][j]

\* The recursive function of FlattenSeq: its k-th value is all up to segment k.
Joined(segs, f) ==
  \A k \in DOMAIN segs : f[k] = IF k = 1 THEN segs[k] ELSE f[k - 1] \o segs[k]

LEMMA JoinedExists ==
  ASSUME NEW S, NEW segs \in Segments(S)
  PROVE  \E f : f = [k \in 1 .. Len(segs) |-> IF k = 1 THEN segs[k] ELSE f[k - 1] \o segs[k]]
<1>. DEFINE Upto(f, n) == f \in [1 .. n -> Seq(S)] /\
              \A k \in 1 .. n : f[k] = IF k = 1 THEN segs[k] ELSE f[k - 1] \o segs[k]
     Bad == {n \in 0 .. Len(segs) : \A f : ~Upto(f, n)}
<1>0. Len(segs) \in Nat /\ DOMAIN segs = 1 .. Len(segs)
      /\ \A k \in DOMAIN segs : segs[k] \in Seq(S)
  BY DEF Segments
<1>1. ASSUME NEW n \in 0 .. Len(segs) - 1, NEW f, Upto(f, n)
      PROVE  \E g : Upto(g, n + 1)
  <2>. DEFINE g == [k \in 1 .. n + 1 |-> IF k <= n THEN f[k] ELSE
                      IF n = 0 THEN segs[n + 1] ELSE f[n] \o segs[n + 1]]
  <2>0. n \in Nat /\ n + 1 \in 1 .. Len(segs) /\ segs[n + 1] \in Seq(S)
    BY <1>0
  <2>1. n # 0 => f[n] \in Seq(S) /\ f[n] \o segs[n + 1] \in Seq(S)
    BY <1>1, <2>0
  <2>2. g \in [1 .. n + 1 -> Seq(S)]
    BY <1>1, <2>0, <2>1
  <2>3. ASSUME NEW k \in 1 .. n + 1
        PROVE  g[k] = IF k = 1 THEN segs[k] ELSE g[k - 1] \o segs[k]
    <3>1. CASE k <= n
      <4>0. \A i \in 1 .. n : g[i] = f[i]
        BY <2>0
      <4>. HIDE DEF g
      <4>a. k \in 1 .. n /\ (k # 1 => k - 1 \in 1 .. n)
        BY <2>0, <3>1
      <4>1. g[k] = f[k] /\ (k # 1 => g[k - 1] = f[k - 1])
        BY <4>a, <4>0
      <4>2. f[k] = IF k = 1 THEN segs[k] ELSE f[k - 1] \o segs[k]
        BY <1>1, <4>a
      <4>. QED
        BY <4>1, <4>2
    <3>2. CASE k = n + 1
      <4>1. g[n + 1] = IF n = 0 THEN segs[n + 1] ELSE f[n] \o segs[n + 1]
        BY <2>0
      <4>2. n # 0 => g[n] = f[n] /\ (n + 1) - 1 = n
        BY <2>0
      <4>. HIDE DEF g
      <4>. QED
        BY <2>0, <3>2, <4>1, <4>2
    <3>. QED
      BY <2>0, <3>1, <3>2
  <2>. HIDE DEF g
  <2>. QED
    BY <2>2, <2>3
<1>2. \E f : Upto(f, 0)
  <2>1. Upto([k \in 1 .. 0 |-> <<>>], 0)
    OBVIOUS
  <2>. QED
    BY <2>1
<1>. HIDE DEF Upto
<1>3. Bad = {}
  <2>. SUFFICES ASSUME Bad # {} PROVE FALSE
    OBVIOUS
  <2>1. \E n \in Bad : \A w \in Bad : n <= w
    <3>1. Bad \in SUBSET Nat
      BY <1>0
    <3>. HIDE DEF Bad
    <3>. QED
      BY <3>1, LeastNumber
  <2>2. PICK n \in Bad : \A w \in Bad : n <= w
    BY <2>1
  <2>3. n # 0 /\ n - 1 \in 0 .. Len(segs) - 1 /\ n - 1 \notin Bad /\ (n - 1) + 1 = n
    BY <1>0, <1>2, <2>2
  <2>4. \E f : Upto(f, n - 1)
    BY <1>0, <2>3
  <2>. QED
    BY <1>1, <2>3, <2>4
<1>4. PICK f : Upto(f, Len(segs))
  BY <1>0, <1>3
<1>5. f = [k \in 1 .. Len(segs) |-> IF k = 1 THEN segs[k] ELSE f[k - 1] \o segs[k]]
  BY <1>0, <1>4 DEF Upto
<1>. QED
  BY <1>5

LEMMA FlattenIs ==
  ASSUME NEW S, NEW segs \in Segments(S), segs # <<>>
  PROVE  \E f : Joined(segs, f) /\ FlattenSeq(segs) = f[Len(segs)]
<1>. DEFINE Rec(f, k) == IF k = 1 THEN segs[k] ELSE f[k - 1] \o segs[k]
     R == CHOOSE f : f = [k \in 1 .. Len(segs) |-> Rec(f, k)]
<1>1. DOMAIN segs = 1 .. Len(segs) /\ Len(segs) \in Nat /\ Len(segs) # 0
  BY DEF Segments
<1>2. \E f : f = [k \in 1 .. Len(segs) |-> Rec(f, k)]
  BY JoinedExists
<1>. HIDE DEF Rec
<1>3. R = [k \in 1 .. Len(segs) |-> Rec(R, k)]
  BY <1>2
<1>4. FlattenSeq(segs) = R[Len(segs)]
  BY <1>1, Zenon DEF FlattenSeq, Rec
<1>. HIDE DEF R
<1>5. Joined(segs, R)
  BY <1>1, <1>3 DEF Joined, Rec
<1>. QED
  BY <1>4, <1>5

LEMMA Flattened ==
  ASSUME NEW S, NEW segs \in Segments(S)
  PROVE  FlattenSeq(segs) \in Seq(S) /\ \E off : Laid(segs, FlattenSeq(segs), off)
<1>0. /\ Len(segs) \in Nat /\ DOMAIN segs = 1 .. Len(segs)
      /\ \A k \in 1 .. Len(segs) : /\ segs[k] \in Seq(S) /\ Len(segs[k]) \in Nat
                                   /\ DOMAIN segs[k] = 1 .. Len(segs[k])
  BY DEF Segments
<1>1. CASE segs = <<>>
  <2>1. FlattenSeq(segs) = <<>>
    BY <1>1 DEF FlattenSeq, Segments
  <2>2. Laid(segs, <<>>, [k \in 1 .. 1 |-> 0])
    BY <1>1 DEF Laid, Segments
  <2>. QED
    BY <2>1, <2>2
<1>2. CASE segs # <<>>
  <2>0. Len(segs) # 0
    BY <1>2
  <2>1. PICK f : Joined(segs, f) /\ FlattenSeq(segs) = f[Len(segs)]
    BY <1>2, FlattenIs
  <2>. DEFINE off == [k \in 1 .. Len(segs) + 1 |-> IF k = 1 THEN 0 ELSE Len(f[k - 1])]
       Whole(n) == /\ f[n] \in Seq(S) /\ Len(f[n]) = off[n] + Len(segs[n])
                   /\ \A k \in 1 .. n : \A j \in 1 .. Len(segs[k]) :
                        off[k] + j \in 1 .. Len(f[n]) /\ f[n][off[k] + j] = segs[k][j]
       Bad == {n \in 1 .. Len(segs) : ~Whole(n)}
  <2>2. off[1] = 0 /\ \A k \in 1 .. Len(segs) : off[k + 1] = Len(f[k])
    <3>1. \A k \in 1 .. Len(segs) : k + 1 \in 1 .. Len(segs) + 1 /\ k + 1 # 1 /\ (k + 1) - 1 = k
      BY <1>0
    <3>. QED
      BY <1>0, <3>1
  <2>3. DOMAIN off = 1 .. Len(segs) + 1
    OBVIOUS
  <2>. HIDE DEF off
  <2>4. Whole(1)
    <3>1. f[1] = segs[1] /\ 1 \in 1 .. Len(segs)
      BY <1>0, <2>0, <2>1 DEF Joined
    <3>. QED
      BY <1>0, <2>2, <3>1
  <2>5. ASSUME NEW n \in 1 .. Len(segs), n # 1, Whole(n - 1) PROVE Whole(n)
    <3>. DEFINE q == n - 1
    <3>1. q \in 1 .. Len(segs) /\ q + 1 = n
      BY <1>0, <2>5
    <3>. HIDE DEF q
    <3>2. Whole(q)
      BY <2>5 DEF q
    <3>3. f[n] = f[q] \o segs[n] /\ off[n] = Len(f[q])
      BY <1>0, <2>1, <2>2, <2>5, <3>1 DEF Joined, q
    <3>4. f[q] \in Seq(S) /\ segs[n] \in Seq(S) /\ Len(f[q]) \in Nat
      BY <1>0, <3>2
    <3>5. /\ f[n] \in Seq(S) /\ Len(f[n]) = Len(f[q]) + Len(segs[n])
          /\ \A i \in 1 .. Len(f[q]) : f[n][i] = f[q][i]
          /\ \A j \in 1 .. Len(segs[n]) : f[n][Len(f[q]) + j] = segs[n][j]
      <4>. DEFINE a == Len(f[q])
                  b == Len(segs[n])
      <4>0. a \in Nat /\ b \in Nat
        BY <1>0, <3>4
      <4>1. f[q] \o segs[n] \in Seq(S) /\ Len(f[q] \o segs[n]) = a + b
        BY <3>4, ConcatProperties
      <4>2. \A i \in 1 .. a + b :
              (f[q] \o segs[n])[i] = IF i <= a THEN f[q][i] ELSE segs[n][i - a]
        BY <3>4, ConcatProperties
      <4>. HIDE DEF Whole, a, b
      <4>3. \A j \in 1 .. b : a + j \in 1 .. a + b /\ ~(a + j <= a) /\ (a + j) - a = j
        BY <4>0
      <4>4. \A i \in 1 .. a : i \in 1 .. a + b /\ i <= a
        BY <4>0
      <4>5. \A i \in 1 .. a : f[n][i] = f[q][i]
        BY <3>3, <4>2, <4>4
      <4>6. \A j \in 1 .. b : f[n][a + j] = segs[n][j]
        BY <3>3, <4>2, <4>3
      <4>. QED
        BY <3>3, <4>1, <4>5, <4>6 DEF a, b
    <3>6. ASSUME NEW k \in 1 .. n, NEW j \in 1 .. Len(segs[k])
          PROVE  off[k] + j \in 1 .. Len(f[n]) /\ f[n][off[k] + j] = segs[k][j]
      <4>. DEFINE a == Len(f[q])
                  b == Len(segs[n])
                  c == Len(f[n])
      <4>0. a \in Nat /\ b \in Nat /\ c = a + b /\ off[n] = a
        BY <1>0, <3>3, <3>4, <3>5
      <4>1. CASE k = n
        <5>1. j \in 1 .. b
          BY <4>1
        <5>. HIDE DEF a, b, c
        <5>2. off[k] + j \in 1 .. c /\ off[k] + j = a + j
          BY <4>0, <4>1, <5>1
        <5>3. f[n][a + j] = segs[n][j]
          BY <3>5, <5>1 DEF a, b
        <5>. QED
          BY <4>1, <5>2, <5>3 DEF c
      <4>2. CASE k # n
        <5>1. k \in 1 .. q
          BY <1>0, <3>1, <4>2
        <5>2. off[k] + j \in 1 .. a /\ f[q][off[k] + j] = segs[k][j]
          BY <3>2, <5>1
        <5>3. off[k] + j \in 1 .. c
          <6>. HIDE DEF a, b, c
          <6>. QED
            BY <4>0, <5>2
        <5>. QED
          BY <3>5, <5>2, <5>3
      <4>. QED
        BY <4>1, <4>2
    <3>. QED
      BY <3>3, <3>5, <3>6
  <2>. HIDE DEF Whole
  <2>6. Bad = {}
    <3>. SUFFICES ASSUME Bad # {} PROVE FALSE
      OBVIOUS
    <3>1. Bad \in SUBSET Nat
      BY <1>0
    <3>2. \E n \in Bad : \A w \in Bad : n <= w
      <4>. HIDE DEF Bad
      <4>. QED
        BY <3>1, LeastNumber
    <3>3. PICK n \in Bad : \A w \in Bad : n <= w
      BY <3>2
    <3>4. n # 1 => n - 1 \in 1 .. Len(segs) /\ n - 1 \notin Bad
      BY <1>0, <3>3
    <3>. QED
      BY <2>4, <2>5, <3>3, <3>4
  <2>7. Len(segs) \in 1 .. Len(segs) /\ \A n \in 1 .. Len(segs) : Whole(n)
    BY <1>0, <2>0, <2>6
  <2>8. off \in [1 .. Len(segs) + 1 -> Nat]
    <3>1. \A k \in 1 .. Len(segs) : Len(f[k]) \in Nat
      BY <2>7 DEF Whole
    <3>2. \A k \in 1 .. Len(segs) + 1 : k = 1 \/ (k - 1 \in 1 .. Len(segs) /\ (k - 1) + 1 = k)
      BY <1>0
    <3>3. ASSUME NEW k \in 1 .. Len(segs) + 1 PROVE off[k] \in Nat
      <4>1. CASE k = 1
        BY <2>2, <4>1
      <4>2. CASE k # 1
        <5>1. off[(k - 1) + 1] = Len(f[k - 1]) /\ (k - 1) + 1 = k
          BY <2>2, <3>2, <4>2
        <5>. QED
          BY <3>1, <3>2, <4>2, <5>1
      <4>. QED
        BY <4>1, <4>2
    <3>4. off = [k \in 1 .. Len(segs) + 1 |-> off[k]]
      BY DEF off
    <3>. QED
      BY <3>3, <3>4
  <2>9. Laid(segs, f[Len(segs)], off)
    <3>1. \A k \in 1 .. Len(segs) : off[k + 1] = off[k] + Len(segs[k])
      BY <2>2, <2>7 DEF Whole
    <3>2. Len(f[Len(segs)]) = off[Len(segs) + 1]
      BY <2>2, <2>7
    <3>3. \A k \in 1 .. Len(segs) : \A j \in 1 .. Len(segs[k]) :
            f[Len(segs)][off[k] + j] = segs[k][j]
      BY <2>7 DEF Whole
    <3>. QED
      BY <1>0, <2>2, <2>8, <3>1, <3>2, <3>3 DEF Laid
  <2>. QED
    BY <2>1, <2>7, <2>9 DEF Whole
<1>. QED
  BY <1>1, <1>2

\* Every item is in a segment, and segments do not overlap.
LEMMA LaidCovers ==
  ASSUME NEW S, NEW segs \in Segments(S), NEW c, NEW off, Laid(segs, c, off), NEW p \in 1 .. Len(c)
  PROVE  \E k \in DOMAIN segs : \E j \in DOMAIN segs[k] : p = off[k] + j
<1>0. /\ Len(segs) \in Nat /\ DOMAIN segs = 1 .. Len(segs)
      /\ \A k \in 1 .. Len(segs) : Len(segs[k]) \in Nat /\ DOMAIN segs[k] = 1 .. Len(segs[k])
  BY DEF Segments
<1>1. /\ off \in [1 .. Len(segs) + 1 -> Nat] /\ off[1] = 0 /\ Len(c) = off[Len(segs) + 1]
      /\ \A k \in 1 .. Len(segs) : off[k + 1] = off[k] + Len(segs[k])
  BY <1>0 DEF Laid
<1>. DEFINE Past == {k \in 1 .. Len(segs) + 1 : off[k] >= p}
<1>2. Past \in SUBSET Nat /\ Len(segs) + 1 \in Past
  BY <1>0, <1>1
<1>3. \E k \in Past : \A i \in Past : k <= i
  <2>. HIDE DEF Past
  <2>. QED
    BY <1>2, LeastNumber
<1>4. PICK k \in Past : \A i \in Past : k <= i
  BY <1>3
<1>5. p \in Nat /\ p # 0
  BY <1>0, <1>1
<1>6. k # 1 /\ k - 1 \in 1 .. Len(segs) /\ (k - 1) + 1 = k /\ k - 1 \in 1 .. Len(segs) + 1
  BY <1>0, <1>1, <1>4, <1>5
<1>7. off[k - 1] \in Nat /\ off[k] \in Nat
  BY <1>1, <1>4, <1>6
<1>8. off[k] >= p /\ ~(off[k - 1] >= p)
  BY <1>0, <1>4, <1>6
<1>. DEFINE d == Len(segs[k - 1])
<1>9. off[k] = off[k - 1] + d /\ d \in Nat
  BY <1>0, <1>1, <1>6
<1>. HIDE DEF d
<1>10. p - off[k - 1] \in 1 .. d /\ p = off[k - 1] + (p - off[k - 1])
  BY <1>5, <1>7, <1>8, <1>9
<1>. QED
  BY <1>0, <1>6, <1>10 DEF d

LEMMA LaidApart ==
  ASSUME NEW S, NEW segs \in Segments(S), NEW c, NEW off, Laid(segs, c, off),
         NEW j \in DOMAIN segs, NEW k \in DOMAIN segs, j < k
  PROVE  off[j + 1] <= off[k]
<1>0. /\ Len(segs) \in Nat /\ DOMAIN segs = 1 .. Len(segs)
      /\ \A i \in 1 .. Len(segs) : Len(segs[i]) \in Nat
  BY DEF Segments
<1>1. /\ off \in [1 .. Len(segs) + 1 -> Nat]
      /\ \A i \in 1 .. Len(segs) : off[i + 1] = off[i] + Len(segs[i])
  BY <1>0 DEF Laid
<1>. DEFINE Bad == {i \in 1 .. Len(segs) : j < i /\ ~(off[j + 1] <= off[i])}
<1>2. Bad \in SUBSET Nat
  BY <1>0
<1>. SUFFICES ASSUME Bad # {} PROVE FALSE
  BY <1>0
<1>3. \E i \in Bad : \A w \in Bad : i <= w
  <2>. HIDE DEF Bad
  <2>. QED
    BY <1>2, LeastNumber
<1>4. PICK i \in Bad : \A w \in Bad : i <= w
  BY <1>3
<1>a. i \in Nat /\ j \in Nat /\ j < i /\ i \in 1 .. Len(segs) /\ ~(off[j + 1] <= off[i])
  BY <1>0, <1>4
<1>b. j + 1 \in 1 .. Len(segs) + 1
  BY <1>0, <1>a
<1>c. off[j + 1] \in Nat
  BY <1>1, <1>b
<1>5. i \in Nat /\ j \in Nat /\ j < i /\ i \in 1 .. Len(segs) /\ i # j + 1
  BY <1>a, <1>c
<1>6. i - 1 \in 1 .. Len(segs) /\ j < i - 1 /\ (i - 1) + 1 = i
  BY <1>0, <1>5
<1>7. off[j + 1] <= off[i - 1]
  BY <1>4, <1>5, <1>6
<1>. DEFINE d == Len(segs[i - 1])
<1>8. off[i] = off[i - 1] + d /\ d \in Nat
  BY <1>0, <1>1, <1>6
<1>. HIDE DEF d
<1>9. off[i - 1] \in Nat /\ off[j + 1] \in Nat
  <2>1. i - 1 \in 1 .. Len(segs) + 1 /\ j + 1 \in 1 .. Len(segs) + 1
    BY <1>0, <1>5, <1>6
  <2>. QED
    BY <1>1, <2>1
<1>10. off[j + 1] <= off[i]
  BY <1>7, <1>8, <1>9
<1>. QED
  BY <1>4, <1>10

-----------------------------------------------------------------------------
(***************************************************************************)
(* Texts: their items, the labels they define and those their branches     *)
(* name. The labels of a function and those of the trampolines.            *)
(***************************************************************************)
NewNames == {"take", "skip"}
Ops ==
  Computes \cup Branches
    \cup {"CMP", "RCMPI", "LW", "LB", "SW", "SB", "IMM", "JAL", "CALL", "RET", "label", "ir"}
Names ==
  Allocatable \cup {"", "r0", "t3", "fp", "sp", "lr", "callee", "__mul"} \cup OwnNames \cup NewNames
Item == [op : Ops, x : Names, y : Names, n : Int]
Key(i) == <<i.x, i.n>>
LabelsOf(c) == {Key(c[k]) : k \in {j \in DOMAIN c : c[j].op = "label"}}
TargetsOf(c) == {Key(c[k]) : k \in {j \in DOMAIN c : c[j].op \in Branches}}
\* No label is defined twice.
Distinct(c) ==
  \A j, k \in DOMAIN c :
    c[j].op = "label" /\ c[k].op = "label" /\ c[j].x = c[k].x /\ c[j].n = c[k].n => j = k

\* A text as it is emitted: each label is defined once, each branch names one of
\* them, and no jump is long yet.
Emitted(c) ==
  /\ c \in Seq(Item)
  /\ Distinct(c) /\ TargetsOf(c) \subseteq LabelsOf(c)
  /\ \A k \in DOMAIN c : /\ c[k].op \in Branches \cup {"label"} => c[k].x \in OwnNames
                         /\ c[k].op # "JAL"

(***************************************************************************)
(* The items of a text laid end to end are those of its segments.          *)
(***************************************************************************)
LEMMA FlattenText ==
  ASSUME NEW segs \in Segments(Item), NEW c, NEW off, Laid(segs, c, off), c \in Seq(Item)
  PROVE  /\ \A p \in DOMAIN c : \E k \in DOMAIN segs : \E j \in DOMAIN segs[k] :
              p = off[k] + j /\ c[p] = segs[k][j]
         /\ \A k \in DOMAIN segs : \A j \in DOMAIN segs[k] :
              off[k] + j \in DOMAIN c /\ c[off[k] + j] = segs[k][j]
<1>0. /\ Len(segs) \in Nat /\ DOMAIN segs = 1 .. Len(segs) /\ DOMAIN c = 1 .. Len(c)
      /\ \A k \in 1 .. Len(segs) : Len(segs[k]) \in Nat /\ DOMAIN segs[k] = 1 .. Len(segs[k])
  BY DEF Segments
<1>1. /\ \A k \in DOMAIN segs : \A j \in DOMAIN segs[k] : c[off[k] + j] = segs[k][j]
      /\ off \in [1 .. Len(segs) + 1 -> Nat] /\ Len(c) = off[Len(segs) + 1]
      /\ \A k \in 1 .. Len(segs) : off[k + 1] = off[k] + Len(segs[k])
  BY <1>0 DEF Laid
<1>2. \A p \in DOMAIN c : \E k \in DOMAIN segs : \E j \in DOMAIN segs[k] : p = off[k] + j
  BY <1>0, LaidCovers
<1>3. ASSUME NEW k \in DOMAIN segs, NEW j \in DOMAIN segs[k] PROVE off[k] + j \in DOMAIN c
  <2>. DEFINE z == Len(segs)
              d == Len(segs[k])
  <2>0. z \in Nat /\ d \in Nat /\ k \in 1 .. z /\ j \in 1 .. d /\ off[k + 1] = off[k] + d
    BY <1>0, <1>1
  <2>1. off[k] \in Nat /\ off[k + 1] \in Nat /\ off[z + 1] \in Nat
    <3>. HIDE DEF d
    <3>1. k \in 1 .. z + 1 /\ k + 1 \in 1 .. z + 1 /\ z + 1 \in 1 .. z + 1
      BY <2>0
    <3>. QED
      BY <1>1, <3>1
  <2>2. off[k + 1] <= off[z + 1]
    <3>1. CASE k = z
      BY <2>1, <3>1
    <3>2. CASE k # z
      <4>1. z \in DOMAIN segs /\ k < z
        BY <1>0, <2>0, <3>2
      <4>2. off[k + 1] <= off[z]
        BY <4>1, LaidApart
      <4>. DEFINE e == Len(segs[z])
      <4>3. off[z + 1] = off[z] + e /\ e \in Nat /\ z \in 1 .. Len(segs) + 1
        BY <1>0, <1>1, <4>1
      <4>. HIDE DEF e
      <4>4. off[z] \in Nat
        BY <1>1, <4>3
      <4>. QED
        BY <2>1, <4>2, <4>3, <4>4
    <3>. QED
      BY <3>1, <3>2
  <2>. HIDE DEF d
  <2>3. off[k] + j \in 1 .. off[z + 1]
    BY <2>0, <2>1, <2>2
  <2>. QED
    BY <1>0, <1>1, <2>3
<1>4. ASSUME NEW p \in DOMAIN c
      PROVE  \E k \in DOMAIN segs : \E j \in DOMAIN segs[k] : p = off[k] + j /\ c[p] = segs[k][j]
  <2>1. PICK k \in DOMAIN segs : \E j \in DOMAIN segs[k] : p = off[k] + j
    BY <1>2
  <2>2. PICK j \in DOMAIN segs[k] : p = off[k] + j
    BY <2>1
  <2>3. c[p] = segs[k][j]
    BY <1>1, <2>2
  <2>. QED
    BY <2>2, <2>3
<1>. QED
  BY <1>1, <1>3, <1>4

\* Places in different segments are different.
LEMMA LaidApart2 ==
  ASSUME NEW S, NEW segs \in Segments(S), NEW c, NEW off, Laid(segs, c, off),
         NEW k \in DOMAIN segs, NEW j \in DOMAIN segs[k],
         NEW l \in DOMAIN segs, NEW i \in DOMAIN segs[l], off[k] + j = off[l] + i
  PROVE  k = l /\ j = i
<1>0. /\ Len(segs) \in Nat /\ DOMAIN segs = 1 .. Len(segs)
      /\ \A w \in 1 .. Len(segs) : Len(segs[w]) \in Nat /\ DOMAIN segs[w] = 1 .. Len(segs[w])
  BY DEF Segments
<1>1. ASSUME NEW u \in DOMAIN segs, NEW v \in DOMAIN segs, u < v,
             NEW a \in DOMAIN segs[u], NEW b \in DOMAIN segs[v]
      PROVE  off[u] + a < off[v] + b
  <2>1. off[u + 1] <= off[v]
    BY <1>1, LaidApart
  <2>. DEFINE d == Len(segs[u])
  <2>2. off[u + 1] = off[u] + d /\ d \in Nat /\ a \in 1 .. d
    BY <1>0 DEF Laid
  <2>3. b \in Nat /\ b >= 1
    BY <1>0
  <2>. HIDE DEF d
  <2>4. off[u] \in Nat /\ off[v] \in Nat
    <3>1. u \in 1 .. Len(segs) + 1 /\ v \in 1 .. Len(segs) + 1
      BY <1>0
    <3>. QED
      BY <3>1 DEF Laid
  <2>. QED
    BY <2>1, <2>2, <2>3, <2>4
<1>2. off[k] \in Nat /\ j \in Nat /\ i \in Nat /\ off[k] + j \in Nat
  <2>1. k \in 1 .. Len(segs) + 1 /\ j \in Nat /\ i \in Nat
    BY <1>0
  <2>2. off[k] \in Nat
    BY <2>1 DEF Laid
  <2>. QED
    BY <2>1, <2>2
<1>3. k = l
  <2>1. ~(off[k] + j < off[k] + j)
    BY <1>2
  <2>2. k \in Int /\ l \in Int
    BY <1>0
  <2>3. ~(k < l) /\ ~(l < k)
    BY <1>1, <2>1
  <2>. QED
    BY <2>2, <2>3
<1>. QED
  BY <1>2, <1>3

-----------------------------------------------------------------------------
(***************************************************************************)
(* One round of relaxation. The labels of the function and those of the    *)
(* trampolines; a trampoline's own branches reach two and four items.      *)
(***************************************************************************)
Trampolines(c) ==
  \A k \in DOMAIN c : c[k].op \in Branches =>
    /\ c[k].x = "take" =>
         /\ k + 2 \in DOMAIN c
         /\ c[k + 1].op \in Branches /\ c[k + 1].x = "skip"
         /\ c[k + 2].op = "label" /\ c[k + 2].x = "take" /\ c[k + 2].n = c[k].n
    /\ c[k].x = "skip" =>
         /\ k + 4 \in DOMAIN c
         /\ \A j \in {k + 1, k + 2, k + 3} : c[j].op \notin Branches
         /\ c[k + 4].op = "label" /\ c[k + 4].x = "skip" /\ c[k + 4].n = c[k].n

Sound(c, next) ==
  /\ c \in Seq(Item) /\ next \in Nat
  /\ Distinct(c) /\ TargetsOf(c) \subseteq LabelsOf(c)
  /\ \A k \in DOMAIN c :
       /\ c[k].op \in Branches => c[k].x \in OwnNames \cup NewNames
       /\ c[k].op = "label" => c[k].x \in OwnNames \/ (c[k].x \in NewNames /\ c[k].n < next)
  /\ Trampolines(c)

\* A label that is defined once is where relaxation and the assembler find it.
LEMMA OneSite ==
  ASSUME NEW c \in Seq(Item), Distinct(c), NEW q \in DOMAIN c, c[q].op = "label",
         NEW i, i.x = c[q].x, i.n = c[q].n
  PROVE  FirstSite(c, i) = q /\ LastSite(c, i) = q
<1>1. Sites(c, i.x, i.n) = {q}
  BY DEF Sites, Distinct
<1>2. q \in Int
  OBVIOUS
<1>3. Min({q}) = q /\ Max({q}) = q
  <2>1. q <= q /\ q >= q
    BY <1>2
  <2>. QED
    BY <2>1 DEF Min, Max
<1>. QED
  BY <1>1, <1>3 DEF FirstSite, LastSite

LEMMA TargetSite ==
  ASSUME NEW c, NEW next, Sound(c, next), NEW k \in DOMAIN c, c[k].op \in Branches
  PROVE  \E q \in DOMAIN c : /\ c[q].op = "label" /\ c[q].x = c[k].x /\ c[q].n = c[k].n
                             /\ FirstSite(c, c[k]) = q /\ LastSite(c, c[k]) = q
<1>1. Key(c[k]) \in LabelsOf(c)
  BY DEF Sound, TargetsOf
<1>2. PICK q \in DOMAIN c : c[q].op = "label" /\ Key(c[q]) = Key(c[k])
  BY <1>1 DEF LabelsOf
<1>3. c[q].x = c[k].x /\ c[q].n = c[k].n
  BY <1>2 DEF Key
<1>. QED
  BY <1>2, <1>3, OneSite DEF Sound

LEMMA PlaceSteps ==
  ASSUME NEW c, NEW k \in Nat \ {0}
  PROVE  Place(c, k) \in Nat /\ Place(c, k + 1) \in {Place(c, k), Place(c, k) + 1}
<1>. DEFINE Before(i) == {j \in 1 .. i - 1 : Takes(c[j])}
<1>1. \A i \in Nat : IsFiniteSet(Before(i))
  <2>. SUFFICES ASSUME NEW i \in Nat PROVE IsFiniteSet(Before(i))
    OBVIOUS
  <2>1. IsFiniteSet(1 .. i - 1)
    BY FS_Interval
  <2>. QED
    BY <2>1, FS_Subset
<1>2. IsFiniteSet(Before(k))
  BY <1>1
<1>3. Before(k + 1) = IF Takes(c[k]) THEN Before(k) \cup {k} ELSE Before(k)
  OBVIOUS
<1>4. k \notin Before(k)
  OBVIOUS
<1>. HIDE DEF Before
<1>5. Cardinality(Before(k)) \in Nat
  BY <1>2, FS_CardinalityType
<1>6. Cardinality(Before(k + 1)) \in {Cardinality(Before(k)), Cardinality(Before(k)) + 1}
  BY <1>2, <1>3, <1>4, FS_AddElement
<1>7. Place(c, k) = Cardinality(Before(k)) /\ Place(c, k + 1) = Cardinality(Before(k + 1))
  BY DEF Place, Before
<1>. QED
  BY <1>5, <1>6, <1>7

LEMMA Near ==
  ASSUME NEW c, NEW k \in Nat \ {0}
  PROVE  /\ Place(c, k + 2) - Place(c, k) \in 0 .. 4
         /\ Place(c, k + 4) - Place(c, k) \in 0 .. 4
<1>1. /\ Place(c, k) \in Nat /\ Place(c, k + 1) \in {Place(c, k), Place(c, k) + 1}
      /\ Place(c, (k + 1) + 1) \in {Place(c, k + 1), Place(c, k + 1) + 1}
      /\ Place(c, (k + 2) + 1) \in {Place(c, k + 2), Place(c, k + 2) + 1}
      /\ Place(c, (k + 3) + 1) \in {Place(c, k + 3), Place(c, k + 3) + 1}
  <2>1. k + 1 \in Nat \ {0} /\ k + 2 \in Nat \ {0} /\ k + 3 \in Nat \ {0}
    OBVIOUS
  <2>. QED
    BY <2>1, PlaceSteps
<1>2. (k + 1) + 1 = k + 2 /\ (k + 2) + 1 = k + 3 /\ (k + 3) + 1 = k + 4
  OBVIOUS
<1>. QED
  BY <1>1, <1>2

\* No branch of a trampoline is ever too far from its label.
LEMMA OwnAreFar ==
  ASSUME NEW c, NEW next, Sound(c, next), NEW k \in Far(c)
  PROVE  k \in DOMAIN c /\ c[k].op \in Branches /\ c[k].x \in OwnNames
<1>1. k \in DOMAIN c /\ c[k].op \in Branches
  BY DEF Far
<1>. DEFINE delta == Place(c, FirstSite(c, c[k])) - Place(c, k)
<1>2. delta > Threshold \/ delta < -Threshold
  BY DEF Far
<1>3. k \in Nat \ {0} /\ c \in Seq(Item) /\ Distinct(c)
  BY <1>1 DEF Sound
<1>4. ASSUME c[k].x = "take" PROVE FALSE
  <2>1. k + 2 \in DOMAIN c /\ c[k + 2].op = "label" /\ c[k + 2].x = c[k].x /\ c[k + 2].n = c[k].n
    BY <1>1, <1>4 DEF Sound, Trampolines
  <2>2. FirstSite(c, c[k]) = k + 2
    BY <1>3, <2>1, OneSite
  <2>3. delta \in 0 .. 4
    BY <1>3, <2>2, Near
  <2>. QED
    BY <1>2, <2>3, RangeAssumption
<1>5. ASSUME c[k].x = "skip" PROVE FALSE
  <2>1. k + 4 \in DOMAIN c /\ c[k + 4].op = "label" /\ c[k + 4].x = c[k].x /\ c[k + 4].n = c[k].n
    BY <1>1, <1>5 DEF Sound, Trampolines
  <2>2. FirstSite(c, c[k]) = k + 4
    BY <1>3, <2>1, OneSite
  <2>3. delta \in 0 .. 4
    BY <1>3, <2>2, Near
  <2>. QED
    BY <1>2, <2>3, RangeAssumption
<1>6. c[k].x \in OwnNames \cup NewNames
  BY <1>1 DEF Sound
<1>. QED
  BY <1>1, <1>4, <1>5, <1>6 DEF NewNames

-----------------------------------------------------------------------------
(***************************************************************************)
(* The segment that takes the place of an item, and the text of all.       *)
(***************************************************************************)
Fresh(c, far, next, k) == next + Cardinality({j \in Conditional(c, far) : j < k})
Segment(c, far, next, k) ==
  CASE k \notin far -> <<c[k]>>
    [] k \in far /\ c[k].op = "BR" -> J(c[k].x, c[k].n)
    [] OTHER -> Trampoline(c[k], Fresh(c, far, next, k))

\* One item more.
LEMMA OneItemMore ==
  ASSUME NEW S, NEW n \in Nat, NEW s \in Seq(S), Len(s) = n, NEW e \in S,
         NEW w \in Seq(S), Len(w) = n + 1, \A i \in 1 .. n : w[i] = s[i], w[n + 1] = e
  PROVE  s \o <<e>> = w
<1>. DEFINE t == <<e>>
<1>1. t \in Seq(S) /\ Len(t) = 1 /\ t[1] = e
  OBVIOUS
<1>. HIDE DEF t
<1>2. /\ s \o t \in Seq(S) /\ Len(s \o t) = Len(s) + Len(t)
      /\ \A i \in 1 .. Len(s) + Len(t) :
           (s \o t)[i] = IF i <= Len(s) THEN s[i] ELSE t[i - Len(s)]
  BY <1>1, ConcatProperties
<1>3. Len(s) + Len(t) = n + 1 /\ Len(s) = n
  BY <1>1
<1>4. \A i \in 1 .. n + 1 : (s \o t)[i] = w[i]
  <2>1. \A i \in 1 .. n + 1 : (s \o t)[i] = IF i <= n THEN s[i] ELSE t[i - n]
    BY <1>2, <1>3
  <2>. SUFFICES ASSUME NEW i \in 1 .. n + 1 PROVE (s \o t)[i] = w[i]
    OBVIOUS
  <2>2. CASE i <= n
    BY <2>1, <2>2
  <2>3. CASE ~(i <= n)
    <3>1. i = n + 1 /\ i - n = 1
      BY <2>3
    <3>. QED
      BY <1>1, <2>1, <2>3, <3>1
  <2>. QED
    BY <2>2, <2>3
<1>. QED
  BY <1>2, <1>3, <1>4, SeqEqual DEF t

LEMMA TrampolineIs ==
  ASSUME NEW i, NEW id
  PROVE  Trampoline(i, id) =
           <<Ins(i.op, "take", "", id), Ins("BR", "skip", "", id), Ins("label", "take", "", id),
             Ins("IMM", i.x, "", i.n), Ins("JAL", i.x, "", i.n), Ins("label", "skip", "", id)>>
<1>. DEFINE a == Ins(i.op, "take", "", id)
            b == Ins("BR", "skip", "", id)
            d == Ins("label", "take", "", id)
            e == Ins("IMM", i.x, "", i.n)
            f == Ins("JAL", i.x, "", i.n)
            g == Ins("label", "skip", "", id)
<1>9. Trampoline(i, id) = <<a>> \o <<b>> \o <<d>> \o (<<e>> \o <<f>>) \o <<g>>
  BY DEF Trampoline, To, Label, J
<1>. HIDE DEF a, b, d, e, f, g
<1>. DEFINE S == {a, b, d, e, f, g}
            t1 == <<a>>
            t2 == <<a, b>>
            t3 == <<a, b, d>>
            t4 == <<a, b, d, e>>
            t5 == <<a, b, d, e, f>>
            t6 == <<a, b, d, e, f, g>>
            u == <<e>>
            v == <<e, f>>
<1>0. b \in S /\ d \in S /\ e \in S /\ f \in S /\ g \in S
  OBVIOUS
<1>1. t1 \o <<b>> = t2
  <2>1. /\ t1 \in Seq(S) /\ Len(t1) = 1 /\ t2 \in Seq(S) /\ Len(t2) = 1 + 1
        /\ (\A w \in 1 .. 1 : t2[w] = t1[w]) /\ t2[1 + 1] = b
    OBVIOUS
  <2>. HIDE DEF S, t1, t2
  <2>. QED
    BY <1>0, <2>1, OneItemMore
<1>2. t2 \o <<d>> = t3
  <2>1. /\ t2 \in Seq(S) /\ Len(t2) = 2 /\ t3 \in Seq(S) /\ Len(t3) = 2 + 1
        /\ (\A w \in 1 .. 2 : t3[w] = t2[w]) /\ t3[2 + 1] = d
    OBVIOUS
  <2>. HIDE DEF S, t2, t3
  <2>. QED
    BY <1>0, <2>1, OneItemMore
<1>3. t3 \o <<e>> = t4
  <2>1. /\ t3 \in Seq(S) /\ Len(t3) = 3 /\ t4 \in Seq(S) /\ Len(t4) = 3 + 1
        /\ (\A w \in 1 .. 3 : t4[w] = t3[w]) /\ t4[3 + 1] = e
    OBVIOUS
  <2>. HIDE DEF S, t3, t4
  <2>. QED
    BY <1>0, <2>1, OneItemMore
<1>4. t4 \o <<f>> = t5
  <2>1. /\ t4 \in Seq(S) /\ Len(t4) = 4 /\ t5 \in Seq(S) /\ Len(t5) = 4 + 1
        /\ (\A w \in 1 .. 4 : t5[w] = t4[w]) /\ t5[4 + 1] = f
    OBVIOUS
  <2>. HIDE DEF S, t4, t5
  <2>. QED
    BY <1>0, <2>1, OneItemMore
<1>5. t5 \o <<g>> = t6
  <2>1. /\ t5 \in Seq(S) /\ Len(t5) = 5 /\ t6 \in Seq(S) /\ Len(t6) = 5 + 1
        /\ (\A w \in 1 .. 5 : t6[w] = t5[w]) /\ t6[5 + 1] = g
    OBVIOUS
  <2>. HIDE DEF S, t5, t6
  <2>. QED
    BY <1>0, <2>1, OneItemMore
<1>6. u \o <<f>> = v
  <2>1. /\ u \in Seq(S) /\ Len(u) = 1 /\ v \in Seq(S) /\ Len(v) = 1 + 1
        /\ (\A w \in 1 .. 1 : v[w] = u[w]) /\ v[1 + 1] = f
    OBVIOUS
  <2>. HIDE DEF S, u, v
  <2>. QED
    BY <1>0, <2>1, OneItemMore
<1>7. t3 \o v = t5
  <2>1. t3 \in Seq(S) /\ <<e>> \in Seq(S) /\ <<f>> \in Seq(S)
    OBVIOUS
  <2>2. t3 \o (<<e>> \o <<f>>) = (t3 \o <<e>>) \o <<f>>
    <3>. HIDE DEF S, t3
    <3>. QED
      BY <2>1, ConcatAssociative
  <2>3. t3 \o v = t3 \o (<<e>> \o <<f>>)
    BY <1>6
  <2>. HIDE DEF t3, t4, t5, v, u, S
  <2>. QED
    BY <1>3, <1>4, <2>2, <2>3
<1>8. t1 \o <<b>> \o <<d>> \o (u \o <<f>>) \o <<g>> = t6
  <2>. HIDE DEF t1, t2, t3, t4, t5, t6, u, v
  <2>. QED
    BY <1>1, <1>2, <1>5, <1>6, <1>7
<1>. QED
  BY <1>8, <1>9 DEF a, b, d, e, f, g

LEMMA JumpIs ==
  ASSUME NEW x, NEW n PROVE J(x, n) = <<Ins("IMM", x, "", n), Ins("JAL", x, "", n)>>
<1>. DEFINE a == Ins("IMM", x, "", n)
            b == Ins("JAL", x, "", n)
<1>1. J(x, n) = <<a>> \o <<b>>
  BY DEF J, To
<1>. HIDE DEF a, b
<1>. DEFINE S == {a, b}
            t1 == <<a>>
            t2 == <<a, b>>
<1>2. t1 \o <<b>> = t2
  <2>1. /\ t1 \in Seq(S) /\ Len(t1) = 1 /\ t2 \in Seq(S) /\ Len(t2) = 1 + 1 /\ b \in S
        /\ (\A w \in 1 .. 1 : t2[w] = t1[w]) /\ t2[1 + 1] = b
    OBVIOUS
  <2>. HIDE DEF S, t1, t2
  <2>. QED
    BY <2>1, OneItemMore
<1>. QED
  BY <1>1, <1>2 DEF a, b

\* The rewriting that one round does: the branches of far are made long.
Round(c, far, next) == /\ c \in Seq(Item) /\ next \in Nat
                       /\ far \subseteq {k \in DOMAIN c : c[k].op \in Branches}

\* The numbers of a round are new and differ.
LEMMA FreshOnes ==
  ASSUME NEW c, NEW far, NEW next, Round(c, far, next), NEW k \in DOMAIN c
  PROVE  /\ Fresh(c, far, next, k) \in Nat /\ next <= Fresh(c, far, next, k)
         /\ Cardinality(Conditional(c, far)) \in Nat
         /\ k \in Conditional(c, far) =>
              /\ Fresh(c, far, next, k) < next + Cardinality(Conditional(c, far))
              /\ \A l \in DOMAIN c : k < l => Fresh(c, far, next, k) < Fresh(c, far, next, l)
<1>. DEFINE All == Conditional(c, far)
            Up(l) == {j \in All : j < l}
<1>1. /\ next \in Nat /\ DOMAIN c = 1 .. Len(c) /\ Len(c) \in Nat
      /\ All \subseteq DOMAIN c
  BY DEF Round, Conditional
<1>2. IsFiniteSet(All)
  <2>1. IsFiniteSet(1 .. Len(c))
    BY <1>1, FS_Interval
  <2>. HIDE DEF All
  <2>. QED
    BY <1>1, <2>1, FS_Subset
<1>. HIDE DEF All
<1>3. \A l : IsFiniteSet(Up(l))
  BY <1>2, FS_Subset
<1>4. \A l \in DOMAIN c : Fresh(c, far, next, l) = next + Cardinality(Up(l))
  BY DEF Fresh, All
<1>5. \A l : Cardinality(Up(l)) \in Nat
  BY <1>3, FS_CardinalityType
<1>6. Cardinality(All) \in Nat
  BY <1>2, FS_CardinalityType
<1>7. ASSUME k \in All, NEW T \in SUBSET All, Up(k) \cup {k} \subseteq T
      PROVE  Cardinality(Up(k)) < Cardinality(T) /\ Cardinality(T) \in Nat
  <2>1. k \notin Up(k)
    BY <1>1, <1>7
  <2>. HIDE DEF Up
  <2>2. IsFiniteSet(T)
    BY <1>2, FS_Subset
  <2>3. Cardinality(Up(k) \cup {k}) = Cardinality(Up(k)) + 1
    BY <1>3, <2>1, FS_AddElement
  <2>4. Cardinality(Up(k) \cup {k}) <= Cardinality(T)
    BY <1>7, <2>2, FS_Subset
  <2>5. Cardinality(T) \in Nat
    BY <2>2, FS_CardinalityType
  <2>. QED
    BY <1>5, <2>3, <2>4, <2>5
<1>8. ASSUME k \in All PROVE Cardinality(Up(k)) < Cardinality(All)
  BY <1>7, <1>8
<1>9. ASSUME k \in All, NEW l \in DOMAIN c, k < l PROVE Cardinality(Up(k)) < Cardinality(Up(l))
  <2>1. Up(k) \cup {k} \subseteq Up(l)
    BY <1>1, <1>9
  <2>2. Up(l) \in SUBSET All
    OBVIOUS
  <2>. QED
    BY <1>7, <1>9, <2>1, <2>2
<1>. HIDE DEF Up
<1>. QED
  <2>1. Fresh(c, far, next, k) \in Nat /\ next <= Fresh(c, far, next, k)
    BY <1>1, <1>4, <1>5
  <2>2. ASSUME k \in All
        PROVE  /\ Fresh(c, far, next, k) < next + Cardinality(All)
               /\ \A l \in DOMAIN c : k < l => Fresh(c, far, next, k) < Fresh(c, far, next, l)
    <3>1. Fresh(c, far, next, k) < next + Cardinality(All)
      BY <1>1, <1>4, <1>5, <1>6, <1>8, <2>2
    <3>2. ASSUME NEW l \in DOMAIN c, k < l PROVE Fresh(c, far, next, k) < Fresh(c, far, next, l)
      BY <1>1, <1>4, <1>5, <1>9, <2>2, <3>2
    <3>. QED
      BY <3>1, <3>2
  <2>. QED
    BY <1>6, <2>1, <2>2 DEF All

SegmentShape(c, far, k, s, id) ==
  /\ s \in Seq(Item)
  /\ k \notin far => DOMAIN s = 1 .. 1 /\ s[1] = c[k]
  /\ k \in far /\ c[k].op = "BR" =>
       /\ DOMAIN s = 1 .. 2
       /\ s[1] = Ins("IMM", c[k].x, "", c[k].n) /\ s[2] = Ins("JAL", c[k].x, "", c[k].n)
  /\ k \in far /\ c[k].op # "BR" =>
       /\ DOMAIN s = 1 .. 6
       /\ s[1] = Ins(c[k].op, "take", "", id) /\ s[2] = Ins("BR", "skip", "", id)
       /\ s[3] = Ins("label", "take", "", id)
       /\ s[4] = Ins("IMM", c[k].x, "", c[k].n) /\ s[5] = Ins("JAL", c[k].x, "", c[k].n)
       /\ s[6] = Ins("label", "skip", "", id)

LEMMA SegmentIs ==
  ASSUME NEW c, NEW far, NEW next, Round(c, far, next), NEW k \in DOMAIN c
  PROVE  SegmentShape(c, far, k, Segment(c, far, next, k), Fresh(c, far, next, k))
<1>. DEFINE s == Segment(c, far, next, k)
            id == Fresh(c, far, next, k)
<1>1. c[k] \in Item
  BY DEF Round
<1>0. c[k].op \in Ops /\ c[k].x \in Names /\ c[k].n \in Int
  BY <1>1 DEF Item
<1>2. /\ \A op \in Ops, x \in Names, n \in Int : Ins(op, x, "", n) \in Item
      /\ {"BR", "IMM", "JAL", "label"} \subseteq Ops /\ {"take", "skip"} \subseteq Names
  <2>1. "" \in Names /\ {"take", "skip"} \subseteq Names
    BY DEF Names, NewNames
  <2>2. {"BR", "IMM", "JAL", "label"} \subseteq Ops
    BY DEF Ops, Branches
  <2>. QED
    BY <2>1, <2>2 DEF Ins, Item
<1>3. id \in Int
  BY FreshOnes
<1>4. CASE k \notin far
  <2>. DEFINE a == c[k]
  <2>1. s = <<a>> /\ a \in Item
    BY <1>1, <1>4 DEF Segment
  <2>. HIDE DEF a
  <2>2. s \in Seq(Item) /\ DOMAIN s = 1 .. 1 /\ s[1] = a
    BY <2>1
  <2>. QED
    BY <1>4, <2>2 DEF a, SegmentShape
<1>5. CASE k \in far /\ c[k].op = "BR"
  <2>. DEFINE a == Ins("IMM", c[k].x, "", c[k].n)
              b == Ins("JAL", c[k].x, "", c[k].n)
  <2>1. s = <<a, b>>
    BY <1>5, JumpIs DEF Segment
  <2>2. a \in Item /\ b \in Item
    BY <1>0, <1>2
  <2>. HIDE DEF a, b
  <2>3. s \in Seq(Item) /\ DOMAIN s = 1 .. 2 /\ s[1] = a /\ s[2] = b
    BY <2>1, <2>2
  <2>. QED
    BY <1>5, <2>3 DEF a, b, SegmentShape
<1>6. CASE k \in far /\ c[k].op # "BR"
  <2>. DEFINE a == Ins(c[k].op, "take", "", id)
              b == Ins("BR", "skip", "", id)
              d == Ins("label", "take", "", id)
              e == Ins("IMM", c[k].x, "", c[k].n)
              f == Ins("JAL", c[k].x, "", c[k].n)
              g == Ins("label", "skip", "", id)
  <2>1. s = <<a, b, d, e, f, g>>
    BY <1>6, TrampolineIs DEF Segment
  <2>2. a \in Item /\ b \in Item /\ d \in Item /\ e \in Item /\ f \in Item /\ g \in Item
    BY <1>0, <1>2, <1>3
  <2>. HIDE DEF a, b, d, e, f, g
  <2>3. /\ s \in Seq(Item) /\ DOMAIN s = 1 .. 6
        /\ s[1] = a /\ s[2] = b /\ s[3] = d /\ s[4] = e /\ s[5] = f /\ s[6] = g
    BY <2>1, <2>2
  <2>. QED
    BY <1>6, <2>3 DEF a, b, d, e, f, g, SegmentShape
<1>. QED
  BY <1>4, <1>5, <1>6

Segmented(c, far, next) == [k \in DOMAIN c |-> Segment(c, far, next, k)]

LEMMA RewrittenIs ==
  ASSUME NEW c, NEW far, NEW next, Round(c, far, next)
  PROVE  /\ Segmented(c, far, next) \in Segments(Item)
         /\ Rewritten(c, far, next) \in Seq(Item)
         /\ \E off : Laid(Segmented(c, far, next), Rewritten(c, far, next), off)
<1>1. \A k \in DOMAIN c : Segment(c, far, next, k) \in Seq(Item)
  BY SegmentIs DEF SegmentShape
<1>2. c \in Seq(Item)
  BY DEF Round
<1>3. Segmented(c, far, next) \in Segments(Item)
  <2>. DEFINE S == Seq(Item)
  <2>. HIDE DEF S
  <2>1. \A k \in 1 .. Len(c) : Segment(c, far, next, k) \in S
    BY <1>1, <1>2 DEF S
  <2>2. Len(c) \in Nat /\ DOMAIN c = 1 .. Len(c)
    BY <1>2
  <2>3. Segmented(c, far, next) \in Seq(S)
    BY <2>1, <2>2 DEF Segmented
  <2>. QED
    BY <2>3 DEF Segments, S
<1>4. Rewritten(c, far, next) = FlattenSeq(Segmented(c, far, next))
  BY Zenon DEF Rewritten, Segmented, Segment, Fresh
<1>. QED
  BY <1>3, <1>4, Flattened

-----------------------------------------------------------------------------
(***************************************************************************)
(* A round keeps the text sound.                                           *)
(***************************************************************************)
LEMMA RoundOf ==
  ASSUME NEW c, NEW next, Sound(c, next) PROVE Round(c, Far(c), next)
BY DEF Sound, Round, Far

\* The labels and the branches of a segment.
SegmentText(c, far, k, s, id) ==
  \A j \in DOMAIN s :
    /\ s[j].op = "label" =>
         \/ k \notin far /\ j = 1 /\ s[j] = c[k]
         \/ /\ k \in Conditional(c, far) /\ s[j].n = id
            /\ (j = 3 /\ s[j].x = "take") \/ (j = 6 /\ s[j].x = "skip")
    /\ s[j].op \in Branches =>
         \/ k \notin far /\ j = 1 /\ s[j] = c[k]
         \/ /\ k \in Conditional(c, far) /\ s[j].n = id
            /\ (j = 1 /\ s[j].x = "take") \/ (j = 2 /\ s[j].x = "skip")
    /\ s[j].op = "JAL" =>
         \/ k \notin far /\ j = 1 /\ s[j] = c[k]
         \/ k \in far /\ c[k].op = "BR" /\ j = 2
         \/ k \in Conditional(c, far) /\ j = 5

LEMMA SegmentTextIs ==
  ASSUME NEW c, NEW far, NEW next, Round(c, far, next), NEW k \in DOMAIN c
  PROVE  SegmentText(c, far, k, Segment(c, far, next, k), Fresh(c, far, next, k))
<1>. DEFINE s == Segment(c, far, next, k)
            id == Fresh(c, far, next, k)
<1>0. SegmentShape(c, far, k, s, id)
  BY SegmentIs
<1>. HIDE DEF s, id
<1>. SUFFICES ASSUME NEW j \in DOMAIN s
              PROVE  /\ s[j].op = "label" =>
                          \/ k \notin far /\ j = 1 /\ s[j] = c[k]
                          \/ /\ k \in Conditional(c, far) /\ s[j].n = id
                             /\ (j = 3 /\ s[j].x = "take") \/ (j = 6 /\ s[j].x = "skip")
                     /\ s[j].op \in Branches =>
                          \/ k \notin far /\ j = 1 /\ s[j] = c[k]
                          \/ /\ k \in Conditional(c, far) /\ s[j].n = id
                             /\ (j = 1 /\ s[j].x = "take") \/ (j = 2 /\ s[j].x = "skip")
                     /\ s[j].op = "JAL" =>
                          \/ k \notin far /\ j = 1 /\ s[j] = c[k]
                          \/ k \in far /\ c[k].op = "BR" /\ j = 2
                          \/ k \in Conditional(c, far) /\ j = 5
  BY DEF SegmentText, s, id
<1>1. {"label", "IMM", "JAL"} \cap Branches = {}
  BY DEF Branches
<1>2. CASE k \notin far
  <2>1. DOMAIN s = 1 .. 1 /\ s[1] = c[k]
    BY <1>0, <1>2 DEF SegmentShape
  <2>2. j = 1
    BY <2>1
  <2>. QED
    BY <1>2, <2>1, <2>2
<1>3. CASE k \in far /\ c[k].op = "BR"
  <2>1. DOMAIN s = 1 .. 2 /\ s[1].op = "IMM" /\ s[2].op = "JAL"
    <3>. DEFINE a == Ins("IMM", c[k].x, "", c[k].n)
                b == Ins("JAL", c[k].x, "", c[k].n)
    <3>1. DOMAIN s = 1 .. 2 /\ s[1] = a /\ s[2] = b
      BY <1>0, <1>3 DEF SegmentShape
    <3>2. a.op = "IMM" /\ b.op = "JAL"
      BY DEF Ins
    <3>. HIDE DEF a, b
    <3>. QED
      BY <3>1, <3>2
  <2>2. j \in {1, 2}
    BY <2>1
  <2>. QED
    BY <1>1, <1>3, <2>1, <2>2
<1>4. CASE k \in far /\ c[k].op # "BR"
  <2>1. /\ DOMAIN s = 1 .. 6
        /\ s[1] = Ins(c[k].op, "take", "", id) /\ s[2] = Ins("BR", "skip", "", id)
        /\ s[3] = Ins("label", "take", "", id)
        /\ s[4] = Ins("IMM", c[k].x, "", c[k].n) /\ s[5] = Ins("JAL", c[k].x, "", c[k].n)
        /\ s[6] = Ins("label", "skip", "", id)
    BY <1>0, <1>4 DEF SegmentShape
  <2>2. /\ s[1].op = c[k].op /\ s[1].x = "take" /\ s[1].n = id
        /\ s[2].op = "BR" /\ s[2].x = "skip" /\ s[2].n = id
        /\ s[3].op = "label" /\ s[3].x = "take" /\ s[3].n = id
        /\ s[4].op = "IMM" /\ s[5].op = "JAL"
        /\ s[6].op = "label" /\ s[6].x = "skip" /\ s[6].n = id
    <3>. DEFINE a == Ins(c[k].op, "take", "", id)
                b == Ins("BR", "skip", "", id)
                d == Ins("label", "take", "", id)
                e == Ins("IMM", c[k].x, "", c[k].n)
                f == Ins("JAL", c[k].x, "", c[k].n)
                g == Ins("label", "skip", "", id)
    <3>1. s[1] = a /\ s[2] = b /\ s[3] = d /\ s[4] = e /\ s[5] = f /\ s[6] = g
      BY <2>1
    <3>2. /\ a.op = c[k].op /\ a.x = "take" /\ a.n = id
          /\ b.op = "BR" /\ b.x = "skip" /\ b.n = id
          /\ d.op = "label" /\ d.x = "take" /\ d.n = id
          /\ e.op = "IMM" /\ f.op = "JAL"
          /\ g.op = "label" /\ g.x = "skip" /\ g.n = id
      BY DEF Ins
    <3>. HIDE DEF a, b, d, e, f, g
    <3>. QED
      BY <3>1, <3>2
  <2>a. DOMAIN s = 1 .. 6
    BY <2>1
  <2>3. j \in {1, 2, 3, 4, 5, 6}
    BY <2>a
  <2>4. k \in Conditional(c, far) /\ c[k].op \in Branches /\ "BR" # "label"
    BY <1>4 DEF Conditional, Round
  <2>5. c[k].op # "label"
    BY <1>1, <2>4
  <2>. HIDE DEF Branches
  <2>. QED
    BY <1>1, <2>2, <2>3, <2>4, <2>5
<1>. QED
  BY <1>2, <1>3, <1>4

\* What the rewritten text is made of.
Layout(c, far, next, d, off) ==
  /\ d \in Seq(Item) /\ Laid(Segmented(c, far, next), d, off)
  /\ \A p \in DOMAIN d : \E k \in DOMAIN c : \E j \in DOMAIN Segment(c, far, next, k) :
       p = off[k] + j /\ d[p] = Segment(c, far, next, k)[j]
  /\ \A k \in DOMAIN c : \A j \in DOMAIN Segment(c, far, next, k) :
       off[k] + j \in DOMAIN d /\ d[off[k] + j] = Segment(c, far, next, k)[j]
  /\ \A k \in DOMAIN c : off[k] \in Nat
  /\ \A k \in DOMAIN c \ far :
       /\ off[k] + 1 \in DOMAIN d /\ d[off[k] + 1] = c[k]
       /\ k + 1 \in DOMAIN c => off[k + 1] = off[k] + 1

LEMMA LayoutIs ==
  ASSUME NEW c, NEW far, NEW next, Round(c, far, next)
  PROVE  \E off : Layout(c, far, next, Rewritten(c, far, next), off)
<1>. DEFINE d == Rewritten(c, far, next)
<1>. DEFINE segs == Segmented(c, far, next)
<1>0. segs \in Segments(Item) /\ d \in Seq(Item)
  BY RewrittenIs
<1>1. PICK off : Laid(segs, d, off)
  BY RewrittenIs
<1>2. DOMAIN segs = DOMAIN c /\ \A k \in DOMAIN c : segs[k] = Segment(c, far, next, k)
  BY DEF Segmented
<1>. HIDE DEF segs, d
<1>3. /\ \A p \in DOMAIN d : \E k \in DOMAIN segs : \E j \in DOMAIN segs[k] :
           p = off[k] + j /\ d[p] = segs[k][j]
      /\ \A k \in DOMAIN segs : \A j \in DOMAIN segs[k] :
           off[k] + j \in DOMAIN d /\ d[off[k] + j] = segs[k][j]
  BY <1>0, <1>1, FlattenText
<1>4. ASSUME NEW k \in DOMAIN c \ far
      PROVE  /\ off[k] \in Nat /\ off[k] + 1 \in DOMAIN d /\ d[off[k] + 1] = c[k]
             /\ k + 1 \in DOMAIN c => off[k + 1] = off[k] + 1
  <2>0. SegmentShape(c, far, k, segs[k], Fresh(c, far, next, k))
    BY <1>2, SegmentIs
  <2>1. DOMAIN segs[k] = 1 .. 1 /\ segs[k][1] = c[k] /\ 1 \in DOMAIN segs[k]
    <3>. DEFINE t == segs[k]
    <3>1. SegmentShape(c, far, k, t, Fresh(c, far, next, k)) /\ k \notin far
      BY <2>0
    <3>. HIDE DEF t
    <3>2. DOMAIN t = 1 .. 1 /\ t[1] = c[k]
      BY <3>1 DEF SegmentShape
    <3>. QED
      BY <3>2 DEF t
  <2>2. off[k] + 1 \in DOMAIN d /\ d[off[k] + 1] = c[k]
    BY <1>2, <1>3, <2>1
  <2>3. segs[k] \in Seq(Item) /\ Len(segs) \in Nat /\ DOMAIN segs = 1 .. Len(segs)
    BY <1>0, <1>2 DEF Segments
  <2>. DEFINE t == segs[k]
  <2>4. Len(segs[k]) = 1
    <3>1. t \in Seq(Item) /\ DOMAIN t = 1 .. 1
      BY <2>1, <2>3
    <3>. HIDE DEF t
    <3>2. Len(t) = 1
      BY <3>1
    <3>. QED
      BY <3>2 DEF t
  <2>5. off[k] \in Nat /\ off[k + 1] = off[k] + 1
    <3>1. k \in 1 .. Len(segs) + 1
      BY <1>2, <2>3
    <3>2. off[k] \in Nat
      BY <1>1, <3>1 DEF Laid
    <3>3. off[k + 1] = off[k] + Len(segs[k])
      BY <1>1, <1>2 DEF Laid
    <3>. QED
      BY <2>4, <3>2, <3>3
  <2>. QED
    BY <2>2, <2>5
<1>5. Laid(segs, d, off) /\ \A p \in DOMAIN d : \E k \in DOMAIN c :
        \E j \in DOMAIN Segment(c, far, next, k) :
          p = off[k] + j /\ d[p] = Segment(c, far, next, k)[j]
  BY <1>1, <1>2, <1>3
<1>6. \A k \in DOMAIN c : \A j \in DOMAIN Segment(c, far, next, k) :
        off[k] + j \in DOMAIN d /\ d[off[k] + j] = Segment(c, far, next, k)[j]
  BY <1>2, <1>3
<1>7. \A k \in DOMAIN c : off[k] \in Nat
  <2>1. Len(segs) \in Nat /\ DOMAIN segs = 1 .. Len(segs)
    BY <1>0 DEF Segments
  <2>2. \A k \in DOMAIN c : k \in 1 .. Len(segs) + 1
    BY <1>2, <2>1
  <2>. QED
    BY <1>1, <2>2 DEF Laid
<1>8. Layout(c, far, next, d, off)
  BY <1>0, <1>4, <1>5, <1>6, <1>7 DEF Layout, segs
<1>. QED
  BY <1>8 DEF d
LEMMA ItemParts ==
  ASSUME NEW c \in Seq(Item), NEW k \in DOMAIN c
  PROVE  c[k].op \in Ops /\ c[k].x \in Names /\ c[k].n \in Int /\ k \in Nat
<1>1. c[k] \in Item /\ k \in Nat
  OBVIOUS
<1>. QED
  BY <1>1 DEF Item

\* Where the labels and the branches of the rewritten text come from.
LEMMA LabelFrom ==
  ASSUME NEW c, NEW far, NEW next, Round(c, far, next), NEW d, NEW off, Layout(c, far, next, d, off),
         NEW p \in DOMAIN d, d[p].op = "label"
  PROVE  \E k \in DOMAIN c :
           \/ k \notin far /\ p = off[k] + 1 /\ d[p] = c[k]
           \/ /\ k \in Conditional(c, far) /\ d[p].n = Fresh(c, far, next, k)
              /\ (p = off[k] + 3 /\ d[p].x = "take") \/ (p = off[k] + 6 /\ d[p].x = "skip")
<1>1. PICK k \in DOMAIN c : \E j \in DOMAIN Segment(c, far, next, k) :
        p = off[k] + j /\ d[p] = Segment(c, far, next, k)[j]
  BY DEF Layout
<1>. DEFINE s == Segment(c, far, next, k)
<1>2. PICK j \in DOMAIN s : p = off[k] + j /\ d[p] = s[j]
  BY <1>1
<1>3. SegmentText(c, far, k, s, Fresh(c, far, next, k))
  BY SegmentTextIs
<1>. HIDE DEF s
<1>4. s[j].op = "label"
  BY <1>2
<1>. QED
  BY <1>2, <1>3, <1>4 DEF SegmentText

LEMMA BranchFrom ==
  ASSUME NEW c, NEW far, NEW next, Round(c, far, next), NEW d, NEW off, Layout(c, far, next, d, off),
         NEW p \in DOMAIN d, d[p].op \in Branches
  PROVE  \E k \in DOMAIN c :
           \/ k \notin far /\ p = off[k] + 1 /\ d[p] = c[k]
           \/ /\ k \in Conditional(c, far) /\ d[p].n = Fresh(c, far, next, k)
              /\ (p = off[k] + 1 /\ d[p].x = "take") \/ (p = off[k] + 2 /\ d[p].x = "skip")
<1>1. PICK k \in DOMAIN c : \E j \in DOMAIN Segment(c, far, next, k) :
        p = off[k] + j /\ d[p] = Segment(c, far, next, k)[j]
  BY DEF Layout
<1>. DEFINE s == Segment(c, far, next, k)
<1>2. PICK j \in DOMAIN s : p = off[k] + j /\ d[p] = s[j]
  BY <1>1
<1>3. SegmentText(c, far, k, s, Fresh(c, far, next, k))
  BY SegmentTextIs
<1>. HIDE DEF s
<1>4. s[j].op \in Branches
  BY <1>2
<1>. QED
  BY <1>2, <1>3, <1>4 DEF SegmentText

LEMMA JumpFrom ==
  ASSUME NEW c, NEW far, NEW next, Round(c, far, next), NEW d, NEW off, Layout(c, far, next, d, off),
         NEW p \in DOMAIN d, d[p].op = "JAL"
  PROVE  \E k \in DOMAIN c :
           \/ k \notin far /\ p = off[k] + 1 /\ d[p] = c[k]
           \/ k \in far /\ c[k].op = "BR" /\ p = off[k] + 2
           \/ k \in Conditional(c, far) /\ p = off[k] + 5
<1>1. PICK k \in DOMAIN c : \E j \in DOMAIN Segment(c, far, next, k) :
        p = off[k] + j /\ d[p] = Segment(c, far, next, k)[j]
  BY DEF Layout
<1>. DEFINE s == Segment(c, far, next, k)
<1>2. PICK j \in DOMAIN s : p = off[k] + j /\ d[p] = s[j]
  BY <1>1
<1>3. SegmentText(c, far, k, s, Fresh(c, far, next, k))
  BY SegmentTextIs
<1>. HIDE DEF s
<1>4. s[j].op = "JAL"
  BY <1>2
<1>. QED
  BY <1>2, <1>3, <1>4 DEF SegmentText

\* A jump in place of a branch.
LEMMA JumpAt ==
  ASSUME NEW c, NEW far, NEW next, Round(c, far, next), NEW d, NEW off, Layout(c, far, next, d, off),
         NEW k \in far, c[k].op = "BR"
  PROVE  off[k] + 2 \in DOMAIN d /\ d[off[k] + 2].op = "JAL" /\ d[off[k] + 2].x = c[k].x
<1>. DEFINE s == Segment(c, far, next, k)
            b == Ins("JAL", c[k].x, "", c[k].n)
<1>0. k \in DOMAIN c
  BY DEF Round
<1>1. SegmentShape(c, far, k, s, Fresh(c, far, next, k))
  BY <1>0, SegmentIs
<1>2. \A j \in DOMAIN s : off[k] + j \in DOMAIN d /\ d[off[k] + j] = s[j]
  BY <1>0 DEF Layout
<1>. HIDE DEF s
<1>3. DOMAIN s = 1 .. 2 /\ s[2] = b
  BY <1>1 DEF SegmentShape
<1>4. b.op = "JAL" /\ b.x = c[k].x
  BY DEF Ins
<1>. HIDE DEF b
<1>5. off[k] + 2 \in DOMAIN d /\ d[off[k] + 2] = b
  BY <1>2, <1>3
<1>. QED
  BY <1>4, <1>5

\* A trampoline, item by item.
LEMMA TrampolineAt ==
  ASSUME NEW c, NEW far, NEW next, Round(c, far, next), NEW d, NEW off, Layout(c, far, next, d, off),
         NEW k \in Conditional(c, far)
  PROVE  LET id == Fresh(c, far, next, k) IN
         /\ k \in DOMAIN c /\ off[k] \in Nat /\ {off[k] + j : j \in 1 .. 6} \subseteq DOMAIN d
         /\ d[off[k] + 1].op = c[k].op /\ d[off[k] + 1].x = "take" /\ d[off[k] + 1].n = id
         /\ d[off[k] + 2].op = "BR" /\ d[off[k] + 2].x = "skip" /\ d[off[k] + 2].n = id
         /\ d[off[k] + 3].op = "label" /\ d[off[k] + 3].x = "take" /\ d[off[k] + 3].n = id
         /\ d[off[k] + 4].op = "IMM"
         /\ d[off[k] + 5].op = "JAL" /\ d[off[k] + 5].x = c[k].x
         /\ d[off[k] + 6].op = "label" /\ d[off[k] + 6].x = "skip" /\ d[off[k] + 6].n = id
<1>. DEFINE s == Segment(c, far, next, k)
            id == Fresh(c, far, next, k)
            a == Ins(c[k].op, "take", "", id)
            b == Ins("BR", "skip", "", id)
            t == Ins("label", "take", "", id)
            e == Ins("IMM", c[k].x, "", c[k].n)
            f == Ins("JAL", c[k].x, "", c[k].n)
            g == Ins("label", "skip", "", id)
<1>0. k \in DOMAIN c /\ k \in far /\ c[k].op # "BR"
  BY DEF Conditional, Round
<1>1. SegmentShape(c, far, k, s, id)
  BY <1>0, SegmentIs
<1>2. \A j \in DOMAIN s : off[k] + j \in DOMAIN d /\ d[off[k] + j] = s[j]
  BY <1>0 DEF Layout
<1>3. off[k] \in Nat
  BY <1>0 DEF Layout
<1>. HIDE DEF s, id
<1>4. /\ DOMAIN s = 1 .. 6
      /\ s[1] = a /\ s[2] = b /\ s[3] = t /\ s[4] = e /\ s[5] = f /\ s[6] = g
  BY <1>0, <1>1 DEF SegmentShape
<1>5. /\ a.op = c[k].op /\ a.x = "take" /\ a.n = id
      /\ b.op = "BR" /\ b.x = "skip" /\ b.n = id
      /\ t.op = "label" /\ t.x = "take" /\ t.n = id
      /\ e.op = "IMM" /\ f.op = "JAL" /\ f.x = c[k].x
      /\ g.op = "label" /\ g.x = "skip" /\ g.n = id
  BY DEF Ins
<1>. HIDE DEF a, b, t, e, f, g
<1>6. /\ {off[k] + j : j \in 1 .. 6} \subseteq DOMAIN d
      /\ d[off[k] + 1] = a /\ d[off[k] + 2] = b /\ d[off[k] + 3] = t
      /\ d[off[k] + 4] = e /\ d[off[k] + 5] = f /\ d[off[k] + 6] = g
  <2>1. 1 \in 1 .. 6 /\ 2 \in 1 .. 6 /\ 3 \in 1 .. 6 /\ 4 \in 1 .. 6 /\ 5 \in 1 .. 6 /\ 6 \in 1 .. 6
    OBVIOUS
  <2>2. \A j \in 1 .. 6 : off[k] + j \in DOMAIN d /\ d[off[k] + j] = s[j]
    BY <1>2, <1>4
  <2>. QED
    BY <1>4, <2>1, <2>2
<1>. QED
  BY <1>0, <1>3, <1>5, <1>6 DEF id
\* A round keeps each label's definition unique.
LEMMA DistinctKept ==
  ASSUME NEW c, NEW next, Sound(c, next), NEW d, NEW off, Layout(c, Far(c), next, d, off)
  PROVE  Distinct(d)
<1>. DEFINE far == Far(c)
            id(k) == Fresh(c, far, next, k)
            Kept(p, k) == k \in DOMAIN c /\ k \notin far /\ p = off[k] + 1 /\ d[p] = c[k]
            New(p, k) == /\ k \in Conditional(c, far) /\ k \in DOMAIN c /\ d[p].n = id(k)
                         /\ (p = off[k] + 3 /\ d[p].x = "take") \/ (p = off[k] + 6 /\ d[p].x = "skip")
<1>0. Round(c, far, next)
  BY RoundOf
<1>1. \A p \in DOMAIN d : d[p].op = "label" => \E k \in DOMAIN c : Kept(p, k) \/ New(p, k)
  BY <1>0, LabelFrom
<1>2. /\ \A k \in DOMAIN c : c[k].op = "label" =>
           c[k].x \in OwnNames \/ (c[k].x \in NewNames /\ c[k].n < next /\ c[k].n \in Int)
      /\ c \in Seq(Item) /\ next \in Nat /\ Distinct(c)
  <2>1. \A k \in DOMAIN c : c[k].n \in Int
    BY ItemParts DEF Sound
  <2>. QED
    BY <2>1 DEF Sound
<1>3. \A k \in DOMAIN c : id(k) \in Nat /\ next <= id(k)
  BY <1>0, FreshOnes
<1>4. \A k \in Conditional(c, far), l \in DOMAIN c : k \in DOMAIN c /\ k < l => id(k) < id(l)
  BY <1>0, FreshOnes
<1>. HIDE DEF far, id
<1>5. ASSUME NEW p \in DOMAIN d, NEW q \in DOMAIN d, d[p].op = "label", d[p].x = d[q].x,
             d[p].n = d[q].n, NEW k, NEW l, Kept(p, k), New(q, l)
      PROVE  FALSE
  <2>1. c[k].op = "label" /\ c[k].x \in {"take", "skip"} /\ c[k].n = id(l)
    BY <1>5
  <2>2. c[k].n < next /\ c[k].n \in Int
    BY <1>2, <1>5, <2>1 DEF OwnNames
  <2>. QED
    BY <1>2, <1>3, <1>5, <2>1, <2>2
<1>. SUFFICES ASSUME NEW p \in DOMAIN d, NEW q \in DOMAIN d, d[p].op = "label", d[q].op = "label",
                     d[p].x = d[q].x, d[p].n = d[q].n
              PROVE  p = q
  BY DEF Distinct
<1>6. PICK k \in DOMAIN c : Kept(p, k) \/ New(p, k)
  BY <1>1
<1>7. PICK l \in DOMAIN c : Kept(q, l) \/ New(q, l)
  BY <1>1
<1>8. CASE Kept(p, k) /\ Kept(q, l)
  <2>1. k = l
    BY <1>2, <1>8 DEF Distinct
  <2>. QED
    BY <1>8, <2>1
<1>9. CASE New(p, k) /\ New(q, l)
  <2>0. k \in Int /\ l \in Int
    BY <1>2, ItemParts
  <2>1. id(k) = id(l) /\ k \in Int /\ l \in Int
    BY <1>9, <2>0
  <2>2. ~(k < l) /\ ~(l < k)
    <3>1. id(k) \in Nat /\ id(l) \in Nat
      BY <1>3, <1>9
    <3>2. (k < l => id(k) < id(l)) /\ (l < k => id(l) < id(k))
      BY <1>4, <1>9
    <3>. QED
      BY <2>1, <3>1, <3>2
  <2>3. k = l
    BY <2>1, <2>2
  <2>. QED
    BY <1>9, <2>3
<1>. QED
  BY <1>5, <1>6, <1>7, <1>8, <1>9

\* Labels stay, so that every branch keeps its label.
LEMMA TargetsKept ==
  ASSUME NEW c, NEW next, Sound(c, next), NEW d, NEW off, Layout(c, Far(c), next, d, off)
  PROVE  TargetsOf(d) \subseteq LabelsOf(d)
<1>. DEFINE far == Far(c)
<1>0. Round(c, far, next)
  BY RoundOf
<1>. SUFFICES ASSUME NEW p \in DOMAIN d, d[p].op \in Branches PROVE Key(d[p]) \in LabelsOf(d)
  BY DEF TargetsOf
<1>1. PICK k \in DOMAIN c :
         \/ k \notin far /\ p = off[k] + 1 /\ d[p] = c[k]
         \/ /\ k \in Conditional(c, far) /\ d[p].n = Fresh(c, far, next, k)
            /\ (p = off[k] + 1 /\ d[p].x = "take") \/ (p = off[k] + 2 /\ d[p].x = "skip")
  BY <1>0, BranchFrom
<1>2. CASE k \notin far /\ d[p] = c[k]
  <2>1. Key(c[k]) \in LabelsOf(c)
    BY <1>2 DEF Sound, TargetsOf
  <2>2. PICK q \in DOMAIN c : c[q].op = "label" /\ Key(c[q]) = Key(c[k])
    BY <2>1 DEF LabelsOf
  <2>3. q \notin far
    BY <2>2 DEF Far, Branches
  <2>4. off[q] + 1 \in DOMAIN d /\ d[off[q] + 1] = c[q]
    BY <2>3 DEF Layout
  <2>. QED
    BY <1>2, <2>2, <2>4 DEF LabelsOf
<1>3. CASE k \in Conditional(c, far) /\ d[p].n = Fresh(c, far, next, k) /\ d[p].x \in {"take", "skip"}
  <2>1. \E q \in DOMAIN d : d[q].op = "label" /\ d[q].x = d[p].x /\ d[q].n = d[p].n
    <3>. DEFINE id == Fresh(c, far, next, k)
    <3>1. /\ {off[k] + j : j \in 1 .. 6} \subseteq DOMAIN d
          /\ d[off[k] + 3].op = "label" /\ d[off[k] + 3].x = "take" /\ d[off[k] + 3].n = id
          /\ d[off[k] + 6].op = "label" /\ d[off[k] + 6].x = "skip" /\ d[off[k] + 6].n = id
      BY <1>0, <1>3, TrampolineAt
    <3>2. off[k] + 3 \in DOMAIN d /\ off[k] + 6 \in DOMAIN d
      BY <3>1
    <3>. HIDE DEF id
    <3>. QED
      BY <1>3, <3>1, <3>2 DEF id
  <2>. QED
    BY <2>1 DEF LabelsOf, Key
<1>. QED
  BY <1>1, <1>2, <1>3

\* The trampolines stay in one piece.
LEMMA TrampolinesKept ==
  ASSUME NEW c, NEW next, Sound(c, next), NEW d, NEW off, Layout(c, Far(c), next, d, off)
  PROVE  Trampolines(d)
<1>. DEFINE far == Far(c)
<1>0. Round(c, far, next)
  BY RoundOf
<1>1. /\ \A k \in DOMAIN c : off[k] \in Nat
      /\ \A k \in DOMAIN c : k \notin far =>
           /\ off[k] + 1 \in DOMAIN d /\ d[off[k] + 1] = c[k]
           /\ k + 1 \in DOMAIN c => off[k + 1] = off[k] + 1
  BY DEF Layout
<1>2. \A k \in DOMAIN c : c[k].op \notin Branches \/ c[k].x \notin OwnNames => k \notin far
  BY OwnAreFar
<1>3. /\ \A k \in DOMAIN c : \A j \in Nat : k + j \in DOMAIN c =>
           \A i \in 0 .. j : k + i \in DOMAIN c
      /\ DOMAIN c \subseteq Nat
  BY DEF Sound
<1>4. "take" \notin OwnNames /\ "skip" \notin OwnNames /\ "label" \notin Branches
      /\ "IMM" \notin Branches /\ "JAL" \notin Branches
  BY DEF OwnNames, Branches
<1>. SUFFICES ASSUME NEW p \in DOMAIN d, d[p].op \in Branches
              PROVE  /\ d[p].x = "take" =>
                          /\ p + 2 \in DOMAIN d
                          /\ d[p + 1].op \in Branches /\ d[p + 1].x = "skip"
                          /\ d[p + 2].op = "label" /\ d[p + 2].x = "take" /\ d[p + 2].n = d[p].n
                     /\ d[p].x = "skip" =>
                          /\ p + 4 \in DOMAIN d
                          /\ \A j \in {p + 1, p + 2, p + 3} : d[j].op \notin Branches
                          /\ d[p + 4].op = "label" /\ d[p + 4].x = "skip" /\ d[p + 4].n = d[p].n
  BY DEF Trampolines
<1>5. PICK k \in DOMAIN c :
         \/ k \notin far /\ p = off[k] + 1 /\ d[p] = c[k]
         \/ /\ k \in Conditional(c, far) /\ d[p].n = Fresh(c, far, next, k)
            /\ (p = off[k] + 1 /\ d[p].x = "take") \/ (p = off[k] + 2 /\ d[p].x = "skip")
  BY <1>0, BranchFrom
<1>9. Layout(c, far, next, d, off)
  OBVIOUS
<1>. HIDE DEF far
<1>6. CASE k \notin far /\ p = off[k] + 1 /\ d[p] = c[k] /\ c[k].x = "take"
  <2>1. /\ k + 2 \in DOMAIN c
        /\ c[k + 1].op \in Branches /\ c[k + 1].x = "skip"
        /\ c[k + 2].op = "label" /\ c[k + 2].x = "take" /\ c[k + 2].n = c[k].n
    BY <1>6 DEF Sound, Trampolines
  <2>2. k + 1 \in DOMAIN c /\ (k + 1) + 1 = k + 2
    BY <1>3, <2>1
  <2>3. k + 1 \notin far /\ k + 2 \notin far
    BY <1>2, <1>4, <2>1, <2>2
  <2>4. off[k + 1] = off[k] + 1 /\ off[k + 2] = off[k + 1] + 1
    BY <1>1, <1>6, <2>1, <2>2, <2>3
  <2>5. off[k + 1] + 1 = p + 1 /\ off[k + 2] + 1 = p + 2
    BY <1>1, <1>6, <2>4
  <2>6. d[p + 1] = c[k + 1] /\ d[p + 2] = c[k + 2] /\ p + 2 \in DOMAIN d
    BY <1>1, <2>1, <2>2, <2>3, <2>5
  <2>. QED
    BY <1>6, <2>1, <2>6
<1>7. CASE k \notin far /\ p = off[k] + 1 /\ d[p] = c[k] /\ c[k].x = "skip"
  <2>1. /\ k + 4 \in DOMAIN c
        /\ c[k + 1].op \notin Branches /\ c[k + 2].op \notin Branches /\ c[k + 3].op \notin Branches
        /\ c[k + 4].op = "label" /\ c[k + 4].x = "skip" /\ c[k + 4].n = c[k].n
    BY <1>7 DEF Sound, Trampolines
  <2>2. /\ k + 1 \in DOMAIN c /\ k + 2 \in DOMAIN c /\ k + 3 \in DOMAIN c
        /\ (k + 1) + 1 = k + 2 /\ (k + 2) + 1 = k + 3 /\ (k + 3) + 1 = k + 4
    BY <1>3, <2>1
  <2>3. k + 1 \notin far /\ k + 2 \notin far /\ k + 3 \notin far /\ k + 4 \notin far
    BY <1>2, <1>4, <2>1, <2>2
  <2>4. /\ off[k + 1] = off[k] + 1 /\ off[k + 2] = off[k + 1] + 1
        /\ off[k + 3] = off[k + 2] + 1 /\ off[k + 4] = off[k + 3] + 1
    BY <1>1, <1>7, <2>1, <2>2, <2>3
  <2>5. /\ off[k + 1] + 1 = p + 1 /\ off[k + 2] + 1 = p + 2
        /\ off[k + 3] + 1 = p + 3 /\ off[k + 4] + 1 = p + 4
    BY <1>1, <1>7, <2>4
  <2>6. /\ d[p + 1] = c[k + 1] /\ d[p + 2] = c[k + 2] /\ d[p + 3] = c[k + 3]
        /\ d[p + 4] = c[k + 4] /\ p + 4 \in DOMAIN d
    BY <1>1, <2>1, <2>2, <2>3, <2>5
  <2>. QED
    BY <1>7, <2>1, <2>6
<1>8. CASE k \in Conditional(c, far) /\ d[p].n = Fresh(c, far, next, k)
           /\ ((p = off[k] + 1 /\ d[p].x = "take") \/ (p = off[k] + 2 /\ d[p].x = "skip"))
  <2>. DEFINE id == Fresh(c, far, next, k)
              o == off[k]
  <2>1. /\ o \in Nat /\ {o + j : j \in 1 .. 6} \subseteq DOMAIN d
        /\ d[o + 2].op = "BR" /\ d[o + 2].x = "skip"
        /\ d[o + 3].op = "label" /\ d[o + 3].x = "take" /\ d[o + 3].n = id
        /\ d[o + 4].op = "IMM" /\ d[o + 5].op = "JAL"
        /\ d[o + 6].op = "label" /\ d[o + 6].x = "skip" /\ d[o + 6].n = id
    BY <1>0, <1>8, <1>9, TrampolineAt
  <2>2. o + 3 \in DOMAIN d /\ o + 6 \in DOMAIN d /\ "BR" \in Branches
    BY <2>1 DEF Branches
  <2>3. CASE p = o + 1 /\ d[p].x = "take"
    <3>1. p + 1 = o + 2 /\ p + 2 = o + 3
      BY <2>1, <2>3
    <3>. HIDE DEF o, id
    <3>. QED
      BY <1>8, <2>1, <2>2, <2>3, <3>1 DEF id
  <2>4. CASE p = o + 2 /\ d[p].x = "skip"
    <3>1. p + 1 = o + 3 /\ p + 2 = o + 4 /\ p + 3 = o + 5 /\ p + 4 = o + 6
      BY <2>1, <2>4
    <3>2. d[p].n = id
      BY <1>8
    <3>. HIDE DEF o, id
    <3>. QED
      BY <1>4, <2>1, <2>2, <2>4, <3>1, <3>2
  <2>. QED
    BY <1>8, <2>3, <2>4
<1>. QED
  BY <1>5, <1>6, <1>7, <1>8

LEMMA SoundKept ==
  ASSUME NEW c, NEW next, Sound(c, next)
  PROVE  Sound(Rewritten(c, Far(c), next), next + Cardinality(Conditional(c, Far(c))))
<1>. DEFINE far == Far(c)
            d == Rewritten(c, far, next)
            top == next + Cardinality(Conditional(c, far))
<1>0. Round(c, far, next)
  BY RoundOf
<1>1. PICK off : Layout(c, far, next, d, off)
  BY <1>0, LayoutIs
<1>2. CASE DOMAIN c = {}
  <2>1. d \in Seq(Item) /\ DOMAIN d = {}
    BY <1>1, <1>2 DEF Layout
  <2>2. top \in Nat
    <3>1. Conditional(c, far) = {}
      BY <1>0, <1>2 DEF Conditional, Round
    <3>2. Cardinality({}) = 0
      BY FS_EmptySet
    <3>. QED
      BY <3>1, <3>2 DEF Sound
  <2>. HIDE DEF d, top
  <2>3. Distinct(d) /\ Trampolines(d)
    BY <2>1 DEF Distinct, Trampolines
  <2>4. TargetsOf(d) \subseteq LabelsOf(d)
    BY <2>1 DEF TargetsOf
  <2>5. Sound(d, top)
    BY <2>1, <2>2, <2>3, <2>4 DEF Sound
  <2>. QED
    BY <2>5 DEF d, top
<1>3. CASE DOMAIN c # {}
  <2>1. top \in Nat /\ next <= top /\ next \in Nat
    <3>1. Cardinality(Conditional(c, far)) \in Nat /\ next \in Nat
      BY <1>0, <1>3, FreshOnes DEF Round
    <3>. QED
      BY <3>1
  <2>2. \A k \in Conditional(c, far) : Fresh(c, far, next, k) < top
    <3>1. Conditional(c, far) \subseteq DOMAIN c
      BY <1>0 DEF Conditional, Round
    <3>. QED
      BY <1>0, <3>1, FreshOnes
  <2>. HIDE DEF d, top
  <2>3. ASSUME NEW p \in DOMAIN d, d[p].op \in Branches PROVE d[p].x \in OwnNames \cup NewNames
    <3>1. PICK k \in DOMAIN c :
             \/ k \notin far /\ p = off[k] + 1 /\ d[p] = c[k]
             \/ /\ k \in Conditional(c, far) /\ d[p].n = Fresh(c, far, next, k)
                /\ (p = off[k] + 1 /\ d[p].x = "take") \/ (p = off[k] + 2 /\ d[p].x = "skip")
      BY <1>0, <1>1, <2>3, BranchFrom
    <3>. QED
      BY <2>3, <3>1 DEF Sound, NewNames
  <2>4. ASSUME NEW p \in DOMAIN d, d[p].op = "label"
        PROVE  d[p].x \in OwnNames \/ (d[p].x \in NewNames /\ d[p].n < top)
    <3>1. PICK k \in DOMAIN c :
             \/ k \notin far /\ p = off[k] + 1 /\ d[p] = c[k]
             \/ /\ k \in Conditional(c, far) /\ d[p].n = Fresh(c, far, next, k)
                /\ (p = off[k] + 3 /\ d[p].x = "take") \/ (p = off[k] + 6 /\ d[p].x = "skip")
      BY <1>0, <1>1, <2>4, LabelFrom
    <3>2. CASE d[p] = c[k]
      <4>1. c[k].x \in OwnNames \/ (c[k].x \in NewNames /\ c[k].n < next)
        BY <2>4, <3>2 DEF Sound
      <4>2. c[k].n \in Int
        BY ItemParts DEF Sound
      <4>. QED
        BY <2>1, <3>2, <4>1, <4>2
    <3>3. CASE k \in Conditional(c, far) /\ d[p].n = Fresh(c, far, next, k) /\ d[p].x \in {"take", "skip"}
      BY <2>2, <3>3 DEF NewNames
    <3>. QED
      BY <3>1, <3>2, <3>3
  <2>5. d \in Seq(Item)
    BY <1>1 DEF Layout
  <2>6. Distinct(d) /\ TargetsOf(d) \subseteq LabelsOf(d) /\ Trampolines(d)
    BY <1>1, DistinctKept, TargetsKept, TrampolinesKept
  <2>7. Sound(d, top)
    BY <2>1, <2>3, <2>4, <2>5, <2>6 DEF Sound
  <2>. QED
    BY <2>7 DEF d, top
<1>. QED
  BY <1>2, <1>3
-----------------------------------------------------------------------------
(***************************************************************************)
(* A round changes no number of branches and jumps of the function: each   *)
(* branch that is made long leaves one jump and no branch.                 *)
(***************************************************************************)
LEMMA CountMoved ==
  ASSUME NEW S, IsFiniteSet(S), NEW T, NEW f \in [S -> T],
         \A t \in T : \E x \in S : f[x] = t, \A x, y \in S : f[x] = f[y] => x = y
  PROVE  IsFiniteSet(T) /\ Cardinality(T) = Cardinality(S)
<1>1. f \in Surjection(S, T)
  BY DEF Surjection
<1>2. f \in Injection(S, T)
  BY DEF Injection, IsInjective
<1>. QED
  BY <1>1, <1>2, FS_Surjection

\* Where a branch or a jump of the text is found after the round.
MovedTo(c, far, off, k) ==
  off[k] + (IF k \notin far THEN 1 ELSE IF c[k].op = "BR" THEN 2 ELSE 5)

LEMMA MovedApart ==
  ASSUME NEW c, NEW far, NEW next, Round(c, far, next), NEW d, NEW off, Layout(c, far, next, d, off),
         NEW k \in DOMAIN c, NEW l \in DOMAIN c,
         MovedTo(c, far, off, k) = MovedTo(c, far, off, l)
  PROVE  k = l
<1>. DEFINE segs == Segmented(c, far, next)
            pos(q) == IF q \notin far THEN 1 ELSE IF c[q].op = "BR" THEN 2 ELSE 5
<1>1. segs \in Segments(Item) /\ Laid(segs, d, off) /\ DOMAIN segs = DOMAIN c
  BY RewrittenIs DEF Layout, Segmented
<1>2. \A q \in DOMAIN c : pos(q) \in DOMAIN segs[q]
  <2>. SUFFICES ASSUME NEW q \in DOMAIN c PROVE pos(q) \in DOMAIN segs[q]
    OBVIOUS
  <2>. DEFINE t == Segment(c, far, next, q)
  <2>1. segs[q] = t
    BY DEF Segmented
  <2>2. SegmentShape(c, far, q, t, Fresh(c, far, next, q))
    BY SegmentIs
  <2>. HIDE DEF t, segs
  <2>3. CASE q \notin far
    <3>1. DOMAIN t = 1 .. 1
      BY <2>2, <2>3 DEF SegmentShape
    <3>. QED
      BY <2>1, <2>3, <3>1
  <2>4. CASE q \in far /\ c[q].op = "BR"
    <3>1. DOMAIN t = 1 .. 2
      BY <2>2, <2>4 DEF SegmentShape
    <3>. QED
      BY <2>1, <2>4, <3>1
  <2>5. CASE q \in far /\ c[q].op # "BR"
    <3>1. DOMAIN t = 1 .. 6
      BY <2>2, <2>5 DEF SegmentShape
    <3>. QED
      BY <2>1, <2>5, <3>1
  <2>. QED
    BY <2>3, <2>4, <2>5
<1>3. off[k] + pos(k) = off[l] + pos(l)
  BY DEF MovedTo
<1>. HIDE DEF segs, pos
<1>. QED
  BY <1>1, <1>2, <1>3, LaidApart2

LEMMA OwnFinite ==
  ASSUME NEW c \in Seq(Item), NEW ops
  PROVE  IsFiniteSet(Own(c, ops)) /\ Cardinality(Own(c, ops)) \in Nat /\ Own(c, ops) \subseteq DOMAIN c
<1>1. DOMAIN c = 1 .. Len(c) /\ Len(c) \in Nat
  OBVIOUS
<1>2. IsFiniteSet(DOMAIN c)
  BY <1>1, FS_Interval
<1>3. Own(c, ops) \subseteq DOMAIN c
  BY DEF Own
<1>. QED
  BY <1>2, <1>3, FS_Subset, FS_CardinalityType

LEMMA JumpsCounted ==
  ASSUME NEW c, NEW next, Sound(c, next), NEW d, NEW off, Layout(c, Far(c), next, d, off)
  PROVE  Cardinality(Own(d, {"JAL"})) = Cardinality(Own(c, {"JAL"}) \cup Far(c))
<1>. DEFINE far == Far(c)
            S == Own(c, {"JAL"}) \cup far
            T == Own(d, {"JAL"})
            f == [k \in S |-> MovedTo(c, far, off, k)]
<1>0. Round(c, far, next) /\ Layout(c, far, next, d, off) /\ c \in Seq(Item)
  BY RoundOf DEF Sound
<1>1. far \subseteq DOMAIN c /\ \A k \in far : c[k].op \in Branches /\ c[k].x \in OwnNames
  BY OwnAreFar
<1>. HIDE DEF far
<1>2. IsFiniteSet(S) /\ S \subseteq DOMAIN c
  <2>1. IsFiniteSet(DOMAIN c)
    <3>1. DOMAIN c = 1 .. Len(c) /\ Len(c) \in Nat
      BY <1>0
    <3>. QED
      BY <3>1, FS_Interval
  <2>2. S \subseteq DOMAIN c
    BY <1>1 DEF Own
  <2>. QED
    BY <2>1, <2>2, FS_Subset
<1>3. "JAL" \notin Branches
  BY DEF Branches
<1>4. ASSUME NEW k \in S PROVE MovedTo(c, far, off, k) \in T
  <2>1. CASE k \notin far
    <3>1. k \in DOMAIN c /\ c[k].op = "JAL" /\ c[k].x \in OwnNames
      BY <1>4, <2>1 DEF Own, OwnNames
    <3>2. off[k] + 1 \in DOMAIN d /\ d[off[k] + 1] = c[k]
      BY <1>0, <2>1, <3>1 DEF Layout
    <3>. QED
      BY <2>1, <3>1, <3>2 DEF Own, OwnNames, MovedTo
  <2>2. CASE k \in far /\ c[k].op = "BR"
    <3>1. off[k] + 2 \in DOMAIN d /\ d[off[k] + 2].op = "JAL" /\ d[off[k] + 2].x = c[k].x
      BY <1>0, <2>2, JumpAt
    <3>2. c[k].x \in OwnNames
      BY <1>1, <2>2
    <3>. QED
      BY <2>2, <3>1, <3>2 DEF Own, OwnNames, MovedTo
  <2>3. CASE k \in far /\ c[k].op # "BR"
    <3>0. k \in Conditional(c, far)
      BY <2>3 DEF Conditional
    <3>1. /\ {off[k] + j : j \in 1 .. 6} \subseteq DOMAIN d
          /\ d[off[k] + 5].op = "JAL" /\ d[off[k] + 5].x = c[k].x
      BY <1>0, <3>0, TrampolineAt
    <3>2. c[k].x \in OwnNames
      BY <1>1, <2>3
    <3>3. off[k] + 5 \in DOMAIN d
      BY <3>1
    <3>. QED
      BY <2>3, <3>1, <3>2, <3>3 DEF Own, OwnNames, MovedTo
  <2>. QED
    BY <2>1, <2>2, <2>3
<1>5. ASSUME NEW p \in T PROVE \E k \in S : MovedTo(c, far, off, k) = p
  <2>1. p \in DOMAIN d /\ d[p].op = "JAL" /\ d[p].x \in OwnNames
    BY DEF Own, OwnNames
  <2>2. PICK k \in DOMAIN c :
           \/ k \notin far /\ p = off[k] + 1 /\ d[p] = c[k]
           \/ k \in far /\ c[k].op = "BR" /\ p = off[k] + 2
           \/ k \in Conditional(c, far) /\ p = off[k] + 5
    BY <1>0, <2>1, JumpFrom
  <2>3. k \in S
    BY <2>1, <2>2 DEF Own, OwnNames, Conditional
  <2>4. MovedTo(c, far, off, k) = p
    BY <2>2 DEF MovedTo, Conditional
  <2>. QED
    BY <2>3, <2>4
<1>6. \A k, l \in S : MovedTo(c, far, off, k) = MovedTo(c, far, off, l) => k = l
  BY <1>0, <1>2, MovedApart
<1>. HIDE DEF S, T
<1>7. /\ f \in [S -> T] /\ \A t \in T : \E x \in S : f[x] = t
      /\ \A x, y \in S : f[x] = f[y] => x = y
  BY <1>4, <1>5, <1>6
<1>. HIDE DEF f
<1>8. Cardinality(T) = Cardinality(S)
  BY <1>2, <1>7, CountMoved
<1>. QED
  BY <1>8 DEF S, T, far

LEMMA BranchesCounted ==
  ASSUME NEW c, NEW next, Sound(c, next), NEW d, NEW off, Layout(c, Far(c), next, d, off)
  PROVE  Cardinality(Own(d, Branches)) = Cardinality(Own(c, Branches) \ Far(c))
<1>. DEFINE far == Far(c)
            S == Own(c, Branches) \ far
            T == Own(d, Branches)
            f == [k \in S |-> MovedTo(c, far, off, k)]
<1>0. Round(c, far, next) /\ Layout(c, far, next, d, off) /\ c \in Seq(Item)
  BY RoundOf DEF Sound
<1>. HIDE DEF far
<1>2. IsFiniteSet(S) /\ S \subseteq DOMAIN c
  <2>1. IsFiniteSet(DOMAIN c)
    <3>1. DOMAIN c = 1 .. Len(c) /\ Len(c) \in Nat
      BY <1>0
    <3>. QED
      BY <3>1, FS_Interval
  <2>2. S \subseteq DOMAIN c
    BY DEF Own
  <2>. QED
    BY <2>1, <2>2, FS_Subset
<1>4. ASSUME NEW k \in S PROVE MovedTo(c, far, off, k) \in T
  <2>1. k \in DOMAIN c /\ k \notin far /\ c[k].op \in Branches /\ c[k].x \in OwnNames
    BY DEF Own, OwnNames
  <2>2. off[k] + 1 \in DOMAIN d /\ d[off[k] + 1] = c[k]
    BY <1>0, <2>1 DEF Layout
  <2>. QED
    BY <2>1, <2>2 DEF Own, OwnNames, MovedTo
<1>5. ASSUME NEW p \in T PROVE \E k \in S : MovedTo(c, far, off, k) = p
  <2>1. p \in DOMAIN d /\ d[p].op \in Branches /\ d[p].x \in OwnNames
    BY DEF Own, OwnNames
  <2>2. PICK k \in DOMAIN c :
           \/ k \notin far /\ p = off[k] + 1 /\ d[p] = c[k]
           \/ /\ k \in Conditional(c, far) /\ d[p].n = Fresh(c, far, next, k)
              /\ (p = off[k] + 1 /\ d[p].x = "take") \/ (p = off[k] + 2 /\ d[p].x = "skip")
    BY <1>0, <2>1, BranchFrom
  <2>3. k \notin far /\ p = off[k] + 1 /\ d[p] = c[k]
    BY <2>1, <2>2 DEF OwnNames
  <2>4. k \in S
    BY <2>1, <2>3 DEF Own, OwnNames
  <2>5. MovedTo(c, far, off, k) = p
    BY <2>3 DEF MovedTo
  <2>. QED
    BY <2>4, <2>5
<1>6. \A k, l \in S : MovedTo(c, far, off, k) = MovedTo(c, far, off, l) => k = l
  BY <1>0, <1>2, MovedApart
<1>. HIDE DEF S, T
<1>7. /\ f \in [S -> T] /\ \A t \in T : \E x \in S : f[x] = t
      /\ \A x, y \in S : f[x] = f[y] => x = y
  BY <1>4, <1>5, <1>6
<1>. HIDE DEF f
<1>8. Cardinality(T) = Cardinality(S)
  BY <1>2, <1>7, CountMoved
<1>. QED
  BY <1>8 DEF S, T, far

\* The count of both, and of the jumps, after a round.
LEMMA Counted ==
  ASSUME NEW c, NEW next, Sound(c, next)
  PROVE  LET d == Rewritten(c, Far(c), next) IN
         /\ Cardinality(Own(d, Branches)) + Cardinality(Own(d, {"JAL"}))
              = Cardinality(Own(c, Branches)) + Cardinality(Own(c, {"JAL"}))
         /\ Far(c) # {} => Cardinality(Own(d, {"JAL"})) >= Cardinality(Own(c, {"JAL"})) + 1
<1>. DEFINE far == Far(c)
            d == Rewritten(c, far, next)
            B == Own(c, Branches)
            L == Own(c, {"JAL"})
<1>0. Round(c, far, next) /\ c \in Seq(Item)
  BY RoundOf DEF Sound
<1>1. PICK off : Layout(c, far, next, d, off)
  BY <1>0, LayoutIs
<1>2. /\ IsFiniteSet(B) /\ Cardinality(B) \in Nat /\ B \subseteq DOMAIN c
      /\ IsFiniteSet(L) /\ Cardinality(L) \in Nat /\ L \subseteq DOMAIN c
  BY <1>0, OwnFinite
<1>3. far \subseteq B
  BY OwnAreFar DEF Own, OwnNames
<1>4. L \cap far = {}
  BY <1>3 DEF Own, Branches
<1>5. Cardinality(Own(d, {"JAL"})) = Cardinality(L \cup far)
  BY <1>1, JumpsCounted
<1>6. Cardinality(Own(d, Branches)) = Cardinality(B \ far)
  BY <1>1, BranchesCounted
<1>. HIDE DEF far, d, B, L
<1>7. IsFiniteSet(far) /\ IsFiniteSet(B \ far)
  BY <1>2, <1>3, FS_Subset
<1>8. Cardinality(far) \in Nat /\ Cardinality(B \ far) \in Nat
  BY <1>7, FS_CardinalityType
<1>9. Cardinality({}) = 0
  BY FS_EmptySet
<1>10. Cardinality(L \cup far) = Cardinality(L) + Cardinality(far)
  <2>1. Cardinality(L \cup far) = Cardinality(L) + Cardinality(far) - Cardinality(L \cap far)
    BY <1>2, <1>7, FS_Union
  <2>. DEFINE u == Cardinality(L)
              v == Cardinality(far)
              w == Cardinality(L \cap far)
  <2>2. u \in Nat /\ v \in Nat /\ w = 0
    BY <1>2, <1>4, <1>8, <1>9
  <2>3. Cardinality(L \cup far) = u + v - w
    BY <2>1
  <2>. HIDE DEF u, v, w
  <2>4. Cardinality(L \cup far) = u + v
    BY <2>2, <2>3
  <2>. QED
    BY <2>4 DEF u, v
<1>11. Cardinality(B) = Cardinality(far) + Cardinality(B \ far)
  <2>1. far \cup (B \ far) = B /\ far \cap (B \ far) = {}
    BY <1>3
  <2>2. Cardinality(far \cup (B \ far))
          = Cardinality(far) + Cardinality(B \ far) - Cardinality(far \cap (B \ far))
    BY <1>7, FS_Union
  <2>. DEFINE u == Cardinality(far)
              v == Cardinality(B \ far)
              w == Cardinality(far \cap (B \ far))
  <2>3. u \in Nat /\ v \in Nat /\ w = 0
    BY <1>8, <1>9, <2>1
  <2>4. Cardinality(B) = u + v - w
    BY <2>1, <2>2
  <2>. HIDE DEF u, v, w
  <2>5. Cardinality(B) = u + v
    BY <2>3, <2>4
  <2>. QED
    BY <2>5 DEF u, v
<1>12. far # {} => Cardinality(far) >= 1
  BY <1>7, <1>8, FS_EmptySet
<1>13. /\ Cardinality(Own(d, Branches)) + Cardinality(Own(d, {"JAL"}))
            = Cardinality(B) + Cardinality(L)
       /\ far # {} => Cardinality(Own(d, {"JAL"})) >= Cardinality(L) + 1
  BY <1>2, <1>5, <1>6, <1>8, <1>10, <1>11, <1>12
<1>. QED
  BY <1>13 DEF far, d, B, L
-----------------------------------------------------------------------------
(***************************************************************************)
(* The theorem.                                                            *)
(***************************************************************************)

\* What every round keeps. The counts are those of Settles, in every state.
Kept ==
  /\ fn \in Functions /\ Sound(code, ids)
  /\ status \in {"relaxing", "running", "returned", "refused"}
  /\ round \in 0 .. Rounds
  /\ Cardinality(Own(code, Branches)) + Cardinality(Own(code, {"JAL"}))
       = Cardinality(Own(EmitFunction(fn), Branches))
  /\ round <= Cardinality(Own(code, {"JAL"}))
  /\ RefusedAtTheCap

\* A branch that relaxation leaves is in the assembler's reach.
LEMMA NearFits ==
  ASSUME NEW c, NEW next, Sound(c, next), Far(c) = {}
  PROVE  OutOfRange(c) = {}
<1>. SUFFICES ASSUME NEW k \in DOMAIN c, c[k].op \in Branches
              PROVE  Fits(Displacement(c, k))
  BY DEF OutOfRange
<1>1. PICK q \in DOMAIN c : FirstSite(c, c[k]) = q /\ LastSite(c, c[k]) = q
  BY TargetSite
<1>. DEFINE a == Place(c, q)
            b == Place(c, k)
<1>2. a \in Nat /\ b \in Nat
  <2>1. q \in Nat \ {0} /\ k \in Nat \ {0}
    BY DEF Sound
  <2>. QED
    BY <2>1, PlaceSteps
<1>3. ~(a - b > Threshold \/ a - b < -Threshold)
  BY <1>1 DEF Far
<1>4. Displacement(c, k) = (2 * a - 2 * b) \div 2
  BY <1>1 DEF Displacement, Lc
<1>. HIDE DEF a, b
<1>5. Displacement(c, k) = a - b
  BY <1>2, <1>4
<1>. QED
  BY <1>2, <1>3, <1>5, RangeAssumption DEF Fits

-----------------------------------------------------------------------------
(***************************************************************************)
(* What is emitted: calm code, without labels and jumps, for most          *)
(* instructions.                                                           *)
(***************************************************************************)
CalmOps == Computes \cup {"CMP", "RCMPI", "LW", "LB", "SW", "SB", "IMM", "CALL", "RET", "ir"}
CalmItem == [op : CalmOps, x : Names, y : Names, n : Int]
Calm == Seq(CalmItem)
Homed == Allocatable \cup {""}

LEMMA NamesAre ==
  /\ Homed \subseteq Names /\ Allocatable \subseteq Names
  /\ {"", "r0", "a0", "a1", "t0", "t1", "t2", "t3", "fp", "sp", "lr", "callee", "__mul"} \subseteq Names
BY DEF Names, Homed, Allocatable

LEMMA CalmIns ==
  ASSUME NEW op \in CalmOps, NEW x \in Names, NEW y \in Names, NEW n \in Int
  PROVE  <<Ins(op, x, y, n)>> \in Calm
<1>. DEFINE i == Ins(op, x, y, n)
<1>1. i \in CalmItem
  BY DEF Ins, CalmItem
<1>. HIDE DEF i
<1>2. <<i>> \in Seq(CalmItem)
  BY <1>1
<1>. QED
  BY <1>2 DEF i, Calm

LEMMA CalmJoin ==
  ASSUME NEW a \in Calm, NEW b \in Calm PROVE a \o b \in Calm
BY DEF Calm

LEMMA CalmNone == <<>> \in Calm
BY DEF Calm

LEMMA CalmUnless ==
  ASSUME NEW c, NEW s \in Calm PROVE Unless(c, s) \in Calm
BY CalmNone DEF Unless

LEMMA CalmRR ==
  ASSUME NEW op \in {"CMP", "ADD", "SUB", "AND", "XOR", "SRL", "SRA"}, NEW x \in Names, NEW y \in Names
  PROVE  RR(op, x, y) \in Calm
<1>1. op \in CalmOps
  BY DEF CalmOps, Computes
<1>2. 0 \in Int
  OBVIOUS
<1>. QED
  BY <1>1, <1>2, CalmIns, Zenon DEF RR

LEMMA CalmMacros ==
  ASSUME NEW x \in Names, NEW y \in Names, NEW n \in Int
  PROVE  /\ ADDI(x, y, n) \in Calm /\ IMM(n) \in Calm /\ MOV(x, y) \in Calm
         /\ PUSH(x) \in Calm /\ POP(x) \in Calm /\ NEG(x) \in Calm /\ COM(x) \in Calm
         /\ OR(x, y) \in Calm /\ SLL(x) \in Calm /\ LI(x, n) \in Calm /\ RET \in Calm
<1>1. /\ "ADDI" \in CalmOps /\ "IMM" \in CalmOps /\ "SW" \in CalmOps /\ "LW" \in CalmOps
      /\ "RSUBI" \in CalmOps /\ "XORI" \in CalmOps /\ "RET" \in CalmOps
  BY DEF CalmOps, Computes
<1>2. "" \in Names /\ "r0" \in Names /\ "t0" \in Names /\ "sp" \in Names /\ "lr" \in Names
  BY NamesAre
<1>3. \A v \in Names, w \in Names, k \in Int : ADDI(v, w, k) \in Calm
  BY <1>1, CalmIns, Zenon DEF ADDI
<1>4. \A k \in Int : IMM(k) \in Calm
  BY <1>1, <1>2, CalmIns, Zenon DEF IMM
<1>5. 0 \in Int /\ 1 \in Int
  OBVIOUS
<1>15. -1 \in Int
  OBVIOUS
<1>6. \A v \in Names, w \in Names : MOV(v, w) \in Calm
  BY <1>3, <1>5, Zenon DEF MOV
<1>7. PUSH(x) \in Calm
  <2>1. ADDI("sp", "sp", -1) \in Calm
    BY <1>2, <1>3, <1>15, Zenon
  <2>2. <<Ins("SW", x, "sp", 0)>> \in Calm
    BY <1>1, <1>2, <1>5, CalmIns, Zenon
  <2>. QED
    BY <2>1, <2>2, CalmJoin, Zenon DEF PUSH
<1>8. POP(x) \in Calm
  <2>1. ADDI("sp", "sp", 1) \in Calm
    BY <1>2, <1>3, <1>5, Zenon
  <2>2. <<Ins("LW", x, "sp", 0)>> \in Calm
    BY <1>1, <1>2, <1>5, CalmIns, Zenon
  <2>. QED
    BY <2>1, <2>2, CalmJoin, Zenon DEF POP
<1>9. NEG(x) \in Calm
  BY <1>1, <1>2, <1>5, CalmIns, Zenon DEF NEG
<1>10. COM(x) \in Calm
  <2>1. <<Ins("XORI", x, "", -1)>> \in Calm
    BY <1>1, <1>2, <1>15, CalmIns, Zenon
  <2>2. IMM(4095) \in Calm
    BY <1>4
  <2>. DEFINE u == IMM(4095)
              v == <<Ins("XORI", x, "", -1)>>
  <2>3. COM(x) = u \o v
    BY DEF COM
  <2>. HIDE DEF u, v
  <2>4. u \in Calm
    BY <2>2 DEF u
  <2>5. v \in Calm
    BY <2>1, Zenon DEF v
  <2>. QED
    BY <2>3, <2>4, <2>5, CalmJoin
<1>11. OR(x, y) \in Calm
  BY <1>2, <1>6, CalmRR, CalmJoin DEF OR
<1>12. SLL(x) \in Calm
  BY CalmRR DEF SLL
<1>13. LI(x, n) \in Calm
  <2>1. n \div 16 \in Int /\ n % 16 \in Int
    OBVIOUS
  <2>. QED
    BY <1>2, <1>3, <1>4, <2>1, CalmJoin DEF LI
<1>14. RET \in Calm
  BY <1>1, <1>2, <1>5, CalmIns, Zenon DEF RET
<1>. QED
  BY <1>3, <1>4, <1>6, <1>7, <1>8, <1>9, <1>10, <1>11, <1>12, <1>13, <1>14

LEMMA CalmCall ==
  ASSUME NEW f \in {"callee", "__mul"} PROVE CALL(f) \in Calm
<1>1. "IMM" \in CalmOps /\ "CALL" \in CalmOps /\ 0 \in Int
  BY DEF CalmOps
<1>2. f \in Names /\ "" \in Names
  BY NamesAre
<1>3. To("IMM", f, 0) \in Calm /\ To("CALL", f, 0) \in Calm
  BY <1>1, <1>2, CalmIns, Zenon DEF To
<1>. QED
  BY <1>3, CalmJoin, Zenon DEF CALL

\* The pieces that the generator puts together.
LEMMA CalmImmediates ==
  ASSUME NEW x \in Names, NEW y \in Names, NEW n \in Int
  PROVE  AddImm(x, y, n) \in Calm /\ LoadImm(x, n) \in Calm /\ MoveTo(x, y) \in Calm
<1>1. Wrap(n) \in Int /\ Wrap(n) \div 16 \in Int /\ Wrap(n) % 16 \in Int
  BY DEF Wrap
<1>2. AddImm(x, y, n) \in Calm
  BY <1>1, CalmMacros, CalmJoin DEF AddImm
<1>3. LoadImm(x, n) \in Calm
  BY <1>1, CalmMacros, NamesAre DEF LoadImm
<1>4. MoveTo(x, y) \in Calm
  BY CalmMacros, CalmNone DEF MoveTo
<1>. QED
  BY <1>2, <1>3, <1>4

LEMMA ScratchIs ==
  ASSUME NEW avoid, NEW u, NEW v, NEW w, avoid \subseteq {u, v, w}
  PROVE  Scratch(avoid) \in Names
<1>. DEFINE Free(k) == Candidates[k] \notin avoid
            First(k) == Free(k) /\ \A j \in 1 .. k - 1 : Candidates[j] \in avoid
<1>1. /\ Candidates[1] = "t3" /\ Candidates[2] = "t2" /\ Candidates[3] = "t1" /\ Candidates[4] = "t0"
  BY DEF Candidates
<1>2. Free(1) \/ Free(2) \/ Free(3) \/ Free(4)
  BY <1>1
<1>3. \E k \in 1 .. 4 : First(k)
  <2>1. CASE Free(1)
    BY <2>1
  <2>2. CASE ~Free(1) /\ Free(2)
    BY <2>2
  <2>3. CASE ~Free(1) /\ ~Free(2) /\ Free(3)
    BY <2>3
  <2>4. CASE ~Free(1) /\ ~Free(2) /\ ~Free(3) /\ Free(4)
    BY <2>4
  <2>. QED
    BY <1>2, <2>1, <2>2, <2>3, <2>4
<1>4. PICK k \in 1 .. 4 : Scratch(avoid) = Candidates[k]
  BY <1>3 DEF Scratch
<1>5. k \in {1, 2, 3, 4}
  OBVIOUS
<1>. QED
  BY <1>1, <1>4, <1>5, NamesAre

LEMMA MaterializeIs ==
  ASSUME NEW o \in IrOperand, NEW x \in Names
  PROVE  Materialize(o, x) \in [at : Names, code : Calm]
<1>1. o.r \in Names /\ o.n \in Int /\ "r0" \in Names
  BY NamesAre DEF IrOperand, Homed
<1>2. LoadImm(x, o.n) \in Calm /\ LI(x, o.n) \in Calm /\ <<>> \in Calm
  BY <1>1, CalmImmediates, CalmMacros, CalmNone
<1>. QED
  BY <1>1, <1>2 DEF Materialize

LEMMA AsSegments ==
  ASSUME NEW S, NEW size \in Nat, NEW segs \in [1 .. size -> Seq(S)]
  PROVE  segs \in Segments(S)
<1>. DEFINE C == Seq(S)
<1>1. segs \in [1 .. size -> C]
  OBVIOUS
<1>. HIDE DEF C
<1>2. segs \in Seq(C)
  BY <1>1
<1>. QED
  BY <1>2 DEF C, Segments

LEMMA CalmFlat ==
  ASSUME NEW size \in Nat, NEW segs \in [1 .. size -> Calm]
  PROVE  FlattenSeq(segs) \in Calm
<1>1. segs \in Segments(CalmItem)
  BY AsSegments DEF Calm
<1>. QED
  BY <1>1, Flattened DEF Calm

LEMMA CalmTimes ==
  ASSUME NEW n \in Int, NEW c \in Calm PROVE Times(n, c) \in Calm
<1>. DEFINE size == IF n < 0 THEN 0 ELSE n
<1>1. size \in Nat /\ 1 .. n = 1 .. size
  OBVIOUS
<1>. HIDE DEF size
<1>2. [k \in 1 .. n |-> c] \in [1 .. size -> Calm]
  BY <1>1
<1>. QED
  BY <1>1, <1>2, CalmFlat DEF Times

-----------------------------------------------------------------------------
(***************************************************************************)
(* The frame.                                                              *)
(***************************************************************************)
LEMMA CalleeUsedIs ==
  ASSUME NEW f PROVE CalleeUsed(f) \in Seq(Names)
<1>. DEFINE segs == [k \in DOMAIN SavedRegs |-> Unless(SavedRegs[k] \notin Homes(f), <<SavedRegs[k]>>)]
<1>1. DOMAIN SavedRegs = 1 .. 4 /\ \A k \in 1 .. 4 : SavedRegs[k] \in Names
  <2>1. "s0" \in Names /\ "s1" \in Names /\ "s2" \in Names /\ "s3" \in Names
    BY NamesAre DEF Allocatable
  <2>2. \A k \in 1 .. 4 : k \in {1, 2, 3, 4}
    OBVIOUS
  <2>. QED
    BY <2>1, <2>2 DEF SavedRegs
<1>2. \A k \in 1 .. 4 : <<SavedRegs[k]>> \in Seq(Names) /\ <<>> \in Seq(Names)
  BY <1>1
<1>3. \A k \in 1 .. 4 : segs[k] \in Seq(Names)
  BY <1>1, <1>2 DEF Unless
<1>4. segs \in [1 .. 4 -> Seq(Names)]
  BY <1>1, <1>3
<1>. HIDE DEF segs
<1>5. segs \in Segments(Names)
  BY <1>4, AsSegments
<1>6. FlattenSeq(segs) \in Seq(Names)
  BY <1>5, Flattened
<1>. QED
  BY <1>6 DEF segs, CalleeUsed, EachOf

LEMMA SlotOffsetIs ==
  ASSUME NEW s \in Int, NEW f PROVE SlotOffset(s, f) \in Int
<1>1. Len(CalleeUsed(f)) \in Nat
  BY CalleeUsedIs
<1>. QED
  BY <1>1 DEF SlotOffset

LEMMA CalmSpAdj ==
  ASSUME NEW n \in Int PROVE SpAdj(n) \in Calm
<1>. DEFINE step == IF n < 0 THEN -8 ELSE 7
            full == IF n < 0 THEN (-n) \div 8 ELSE n \div 7
            rest == n - full * step
            steps == [k \in 1 .. full |-> Ins("ADDI", "sp", "sp", step)]
<1>1. step \in Int /\ full \in Nat /\ rest \in Int
  OBVIOUS
<1>2. SpAdj(n) = steps \o Unless(rest = 0, ADDI("sp", "sp", rest))
  BY DEF SpAdj
<1>. HIDE DEF step, full, rest
<1>3. "sp" \in Names /\ "ADDI" \in CalmOps
  BY NamesAre DEF CalmOps, Computes
<1>4. Ins("ADDI", "sp", "sp", step) \in CalmItem
  BY <1>1, <1>3, Zenon DEF Ins, CalmItem
<1>5. steps \in Calm
  BY <1>1, <1>4 DEF Calm
<1>6. ADDI("sp", "sp", rest) \in Calm
  BY <1>1, <1>3, CalmMacros
<1>. QED
  BY <1>2, <1>5, <1>6, CalmUnless, CalmJoin

LEMMA CalmAtFp ==
  ASSUME NEW op \in {"LW", "SW"}, NEW x \in Names, NEW off \in Int
  PROVE  AtFp(op, x, off) \in Calm
<1>1. op \in CalmOps /\ "fp" \in Names
  BY NamesAre DEF CalmOps
<1>2. Wrap(off) \div 16 \in Int /\ Wrap(off) % 16 \in Int
  BY DEF Wrap
<1>3. \A k \in Int : <<Ins(op, x, "fp", k)>> \in Calm
  BY <1>1, CalmIns, Zenon
<1>4. IMM(Wrap(off) \div 16) \in Calm
  BY <1>2, CalmMacros
<1>5. IMM(Wrap(off) \div 16) \o <<Ins(op, x, "fp", Wrap(off) % 16)>> \in Calm
  BY <1>2, <1>3, <1>4, CalmJoin, Zenon
<1>. QED
  BY <1>3, <1>5, Zenon DEF AtFp

LEMMA CalmStackParam ==
  ASSUME NEW p \in Int, NEW f PROVE StackParam(p, f) \in Calm
<1>1. p - ArgRegs + 1 \in Int /\ SlotOffset(p, f) \in Int
  BY SlotOffsetIs DEF ArgRegs
<1>2. "t3" \in Names
  BY NamesAre
<1>3. AtFp("LW", "t3", p - ArgRegs + 1) \in Calm
  <2>. DEFINE off == p - ArgRegs + 1
  <2>1. off \in Int
    BY <1>1
  <2>. HIDE DEF off
  <2>2. AtFp("LW", "t3", off) \in Calm
    BY <1>2, <2>1, CalmAtFp
  <2>. QED
    BY <2>2 DEF off
<1>4. AtFp("SW", "t3", SlotOffset(p, f)) \in Calm
  BY <1>1, <1>2, CalmAtFp
<1>. QED
  BY <1>3, <1>4, CalmJoin, Zenon DEF StackParam

LEMMA CalmPrologue ==
  ASSUME NEW f, f.slots \in Nat, f.params \in Nat PROVE Prologue(f) \in Calm
<1>. DEFINE used == CalleeUsed(f)
            pushes == [k \in DOMAIN used |-> PUSH(used[k])]
            params == [k \in 1 .. f.params - ArgRegs |-> ArgRegs + k - 1]
            copies == [k \in DOMAIN params |-> StackParam(params[k], f)]
            size == IF f.params < ArgRegs THEN 0 ELSE f.params - ArgRegs
<1>1. used \in Seq(Names)
  BY CalleeUsedIs
<1>2. "fp" \in Names /\ "sp" \in Names /\ "lr" \in Names
  BY NamesAre
<1>3. size \in Nat /\ 1 .. f.params - ArgRegs = 1 .. size
  BY DEF ArgRegs
<1>4. DOMAIN params = 1 .. size /\ \A k \in 1 .. size : params[k] \in Int
  BY <1>3 DEF ArgRegs
<1>. HIDE DEF used, size, params
<1>5. FlattenSeq(pushes) \in Calm
  <2>1. Len(used) \in Nat /\ DOMAIN used = 1 .. Len(used)
    BY <1>1
  <2>2. \A k \in DOMAIN used : PUSH(used[k]) \in Calm
    BY <1>1, <1>2, CalmMacros
  <2>3. pushes \in [1 .. Len(used) -> Calm]
    BY <2>1, <2>2
  <2>. QED
    BY <2>1, <2>3, CalmFlat
<1>6. FlattenSeq(copies) \in Calm
  <2>1. \A k \in 1 .. size : StackParam(params[k], f) \in Calm
    BY <1>4, CalmStackParam
  <2>2. copies \in [1 .. size -> Calm]
    BY <1>4, <2>1
  <2>. QED
    BY <1>3, <2>2, CalmFlat
<1>7. SpAdj(-f.slots) \in Calm
  <2>1. -f.slots \in Int
    OBVIOUS
  <2>. QED
    BY <2>1, CalmSpAdj
<1>8. PUSH("fp") \in Calm /\ MOV("fp", "sp") \in Calm /\ Unless(Leaf(f), PUSH("lr")) \in Calm
  BY <1>2, CalmMacros, CalmUnless
<1>. HIDE DEF pushes, copies
<1>9. Prologue(f) =
        Unless(Ultra(f),
          PUSH("fp") \o MOV("fp", "sp") \o Unless(Leaf(f), PUSH("lr"))
            \o FlattenSeq(pushes) \o SpAdj(-f.slots) \o FlattenSeq(copies))
  BY Zenon DEF Prologue, EachOf, pushes, copies, used, params
<1>10. PUSH("fp") \o MOV("fp", "sp") \o Unless(Leaf(f), PUSH("lr"))
         \o FlattenSeq(pushes) \o SpAdj(-f.slots) \o FlattenSeq(copies) \in Calm
  BY <1>5, <1>6, <1>7, <1>8, CalmJoin, Zenon
<1>. QED
  BY <1>9, <1>10, CalmUnless, Zenon

LEMMA CalmEpilogue ==
  ASSUME NEW f, f.slots \in Nat PROVE Epilogue(f) \in Calm
<1>. DEFINE used == Reverse(CalleeUsed(f))
            pops == [k \in DOMAIN used |-> POP(used[k])]
<1>1. used \in Seq(Names)
  BY CalleeUsedIs DEF Reverse
<1>2. "fp" \in Names /\ "lr" \in Names
  BY NamesAre
<1>. HIDE DEF used
<1>3. FlattenSeq(pops) \in Calm
  <2>1. Len(used) \in Nat /\ DOMAIN used = 1 .. Len(used)
    BY <1>1
  <2>2. \A k \in DOMAIN used : POP(used[k]) \in Calm
    BY <1>1, <1>2, CalmMacros
  <2>3. pops \in [1 .. Len(used) -> Calm]
    BY <2>1, <2>2
  <2>. QED
    BY <2>1, <2>3, CalmFlat
<1>4. SpAdj(f.slots) \in Calm
  BY CalmSpAdj
<1>5. POP("fp") \in Calm /\ Unless(Leaf(f), POP("lr")) \in Calm /\ RET \in Calm
  BY <1>2, CalmMacros, CalmUnless
<1>. HIDE DEF pops
<1>6. Epilogue(f) =
        Unless(Ultra(f),
          SpAdj(f.slots) \o FlattenSeq(pops) \o Unless(Leaf(f), POP("lr")) \o POP("fp")) \o RET
  BY Zenon DEF Epilogue, EachOf, pops, used
<1>7. SpAdj(f.slots) \o FlattenSeq(pops) \o Unless(Leaf(f), POP("lr")) \o POP("fp") \in Calm
  BY <1>3, <1>4, <1>5, CalmJoin, Zenon
<1>. QED
  BY <1>5, <1>6, <1>7, CalmUnless, CalmJoin, Zenon

-----------------------------------------------------------------------------
(***************************************************************************)
(* Two addresses for three.                                                *)
(***************************************************************************)
Arithmetic == {"CMP", "ADD", "SUB", "AND", "XOR", "SRL", "SRA"}

LEMMA CalmCommutative ==
  ASSUME NEW op \in Arithmetic, NEW d \in Names, NEW a \in Names, NEW b \in Names
  PROVE  Commutative(op, d, a, b) \in Calm
<1>1. RR(op, d, a) \in Calm /\ RR(op, d, b) \in Calm /\ MOV(d, a) \in Calm
  BY CalmRR, CalmMacros, 0 \in Int DEF Arithmetic
<1>2. MOV(d, a) \o RR(op, d, b) \in Calm
  BY <1>1, CalmJoin
<1>. QED
  BY <1>1, <1>2 DEF Commutative

LEMMA CalmOrdered ==
  ASSUME NEW op \in Arithmetic, NEW d \in Names, NEW a \in Names, NEW b \in Names
  PROVE  Ordered(op, d, a, b) \in Calm
<1>1. "t3" \in Names /\ "ADD" \in Arithmetic
  BY NamesAre DEF Arithmetic
<1>2. \A o \in Arithmetic, x \in Names, y \in Names : RR(o, x, y) \in Calm
  BY CalmRR DEF Arithmetic
<1>3. \A x \in Names, y \in Names : MOV(x, y) \in Calm /\ NEG(x) \in Calm
  BY CalmMacros, 0 \in Int
<1>4. MOV(d, a) \o RR(op, d, b) \in Calm /\ RR(op, d, b) \in Calm
  BY <1>2, <1>3, CalmJoin
<1>5. NEG(d) \o RR("ADD", d, a) \in Calm
  BY <1>1, <1>2, <1>3, CalmJoin, Zenon
<1>6. MOV("t3", b) \o MOV(d, a) \o RR(op, d, "t3") \in Calm
  BY <1>1, <1>2, <1>3, CalmJoin, Zenon
<1>. QED
  BY <1>4, <1>5, <1>6, Zenon DEF Ordered

LEMMA CalmDisjunction ==
  ASSUME NEW d \in Names, NEW a \in Names, NEW b \in Names
  PROVE  Disjunction(d, a, b) \in Calm
<1>1. "t1" \in Names /\ "t3" \in Names /\ "AND" \in Arithmetic /\ "XOR" \in Arithmetic
  BY NamesAre DEF Arithmetic
<1>2. \A o \in Arithmetic, x \in Names, y \in Names : RR(o, x, y) \in Calm
  BY CalmRR DEF Arithmetic
<1>3. \A x \in Names, y \in Names :
        MOV(x, y) \in Calm /\ MoveTo(x, y) \in Calm /\ OR(x, y) \in Calm /\ PUSH(x) \in Calm /\ POP(x) \in Calm
  BY CalmMacros, CalmImmediates, 0 \in Int
<1>4. \A s \in Names, x \in Names, y \in Names : OrIn(s, d, x, y) \in Calm
  BY <1>1, <1>2, <1>3, CalmJoin, Zenon DEF OrIn
<1>5. \A x \in Names, y \in Names : PUSH("t1") \o OrIn("t1", d, x, y) \o POP("t1") \in Calm
  BY <1>1, <1>3, <1>4, CalmJoin, Zenon
<1>6. \A x \in Names, y \in Names : MoveTo(d, x) \o OR(d, y) \in Calm
  BY <1>3, CalmJoin
<1>7. \A y \in Names, x \in Names : OrIn("t3", d, x, y) \in Calm
  BY <1>1, <1>4, Zenon
<1>. DEFINE swap1 == d = b /\ d # a
            l1 == IF swap1 THEN b ELSE a
            r1 == IF swap1 THEN a ELSE b
            swap2 == r1 = "t0" /\ l1 # "t0"
            l2 == IF swap2 THEN r1 ELSE l1
            r2 == IF swap2 THEN l1 ELSE r1
<1>8. l1 \in Names /\ r1 \in Names /\ l2 \in Names /\ r2 \in Names
  OBVIOUS
<1>9. Disjunction(d, a, b) =
        CASE d = "t0" /\ r1 = "t3" -> PUSH("t1") \o OrIn("t1", d, l1, r1) \o POP("t1")
          [] d = "t0" /\ r1 # "t3" -> OrIn("t3", d, l1, r1)
          [] OTHER -> MoveTo(d, l2) \o OR(d, r2)
  BY Zenon DEF Disjunction
<1>. HIDE DEF l1, r1, l2, r2
<1>. QED
  BY <1>5, <1>6, <1>7, <1>8, <1>9, Zenon

-----------------------------------------------------------------------------
(***************************************************************************)
(* Instructions without labels of their own.                               *)
(***************************************************************************)
Put == [at : Names, code : Calm]
FirstOf(i, avoid) == Materialize(i.a, Scratch({i.d} \cup avoid))
SecondOf(i, avoid) == Materialize(i.b, Scratch({i.d, FirstOf(i, avoid).at} \cup avoid))

LEMMA IrParts ==
  ASSUME NEW i \in IrInstr
  PROVE  /\ i.d \in Names /\ i.a \in IrOperand /\ i.b \in IrOperand /\ i.w \in Nat
         /\ i.a.r \in Names /\ i.b.r \in Names /\ i.a.n \in Int /\ i.b.n \in Int
BY NamesAre DEF IrInstr, IrOperand, Homed

LEMMA OneOperand ==
  ASSUME NEW o \in IrOperand, NEW d PROVE Materialize(o, Scratch({d})) \in Put
<1>1. Scratch({d}) \in Names
  BY ScratchIs
<1>. QED
  BY <1>1, MaterializeIs DEF Put

LEMMA TwoOperands ==
  ASSUME NEW i \in IrInstr, NEW avoid \in {{}, {"t0"}}
  PROVE  FirstOf(i, avoid) \in Put /\ SecondOf(i, avoid) \in Put
<1>1. i.a \in IrOperand /\ i.b \in IrOperand
  BY IrParts
<1>2. PICK u : avoid \subseteq {u}
  OBVIOUS
<1>3. \A x, y : Scratch({x} \cup avoid) \in Names /\ Scratch({x, y} \cup avoid) \in Names
  <2>. TAKE x, y
  <2>1. {x} \cup avoid \subseteq {x, y, u} /\ {x, y} \cup avoid \subseteq {x, y, u}
    BY <1>2
  <2>. QED
    BY <2>1, ScratchIs
<1>. QED
  BY <1>1, <1>3, MaterializeIs DEF FirstOf, SecondOf, Put

LEMMA CalmNoOperand ==
  ASSUME NEW o \in IrOperand PROVE Materialize(o, Scratch({})) \in Put
<1>1. Scratch({}) \in Names
  BY ScratchIs
<1>. QED
  BY <1>1, MaterializeIs DEF Put

LEMMA CalmMoved ==
  ASSUME NEW i \in IrInstr PROVE Moved(i) \in Calm /\ Loaded(i) \in Calm
<1>1. i.d \in Names /\ i.a \in IrOperand
  BY IrParts
<1>. DEFINE a == Materialize(i.a, Scratch({i.d}))
            l == Materialize(i.a, i.d)
<1>2. a.at \in Names /\ a.code \in Calm
  BY <1>1, OneOperand DEF Put
<1>3. l.at \in Names /\ l.code \in Calm
  BY <1>1, MaterializeIs
<1>4. Moved(i) = a.code \o MoveTo(i.d, a.at) /\ Loaded(i) = l.code \o MoveTo(i.d, l.at)
  BY DEF Moved, Loaded
<1>. HIDE DEF a, l
<1>5. MoveTo(i.d, a.at) \in Calm /\ MoveTo(i.d, l.at) \in Calm
  BY <1>1, <1>2, <1>3, CalmImmediates, 0 \in Int
<1>. QED
  BY <1>2, <1>3, <1>4, <1>5, CalmJoin

LEMMA CalmAdd ==
  ASSUME NEW i \in IrInstr PROVE Add(i) \in Calm /\ Sub(i) \in Calm
<1>1. i.d \in Names /\ i.a.r \in Names /\ i.b.r \in Names /\ i.a.n \in Int /\ i.b.n \in Int
  BY IrParts
<1>2. -i.b.n \in Int
  BY <1>1
<1>. DEFINE a == FirstOf(i, {})
            b == SecondOf(i, {})
<1>3. a.at \in Names /\ a.code \in Calm /\ b.at \in Names /\ b.code \in Calm
  BY TwoOperands DEF Put
<1>4. /\ Binary(i, {}, LAMBDA x, y : Commutative("ADD", i.d, x, y)) =
           a.code \o b.code \o Commutative("ADD", i.d, a.at, b.at)
      /\ Binary(i, {}, LAMBDA x, y : Ordered("SUB", i.d, x, y)) =
           a.code \o b.code \o Ordered("SUB", i.d, a.at, b.at)
  BY Zenon DEF Binary, FirstOf, SecondOf
<1>. HIDE DEF a, b
<1>5. "ADD" \in Arithmetic /\ "SUB" \in Arithmetic
  BY DEF Arithmetic
<1>6. Commutative("ADD", i.d, a.at, b.at) \in Calm /\ Ordered("SUB", i.d, a.at, b.at) \in Calm
  BY <1>1, <1>3, <1>5, CalmCommutative, CalmOrdered
<1>7. /\ AddImm(i.d, i.a.r, i.b.n) \in Calm /\ AddImm(i.d, i.b.r, i.a.n) \in Calm
      /\ AddImm(i.d, i.a.r, -i.b.n) \in Calm
  BY <1>1, <1>2, CalmImmediates
<1>8. /\ a.code \o b.code \o Commutative("ADD", i.d, a.at, b.at) \in Calm
      /\ a.code \o b.code \o Ordered("SUB", i.d, a.at, b.at) \in Calm
  BY <1>3, <1>6, CalmJoin
<1>9. Add(i) \in Calm
  BY <1>4, <1>7, <1>8, Zenon DEF Add
<1>10. Sub(i) \in Calm
  BY <1>4, <1>7, <1>8, Zenon DEF Sub
<1>. QED
  BY <1>9, <1>10

\* The two-register operations of emit_instr.
LEMMA CalmBinary ==
  ASSUME NEW i \in IrInstr, NEW op \in Arithmetic
  PROVE  /\ Binary(i, {}, LAMBDA x, y : Commutative(op, i.d, x, y)) \in Calm
         /\ Binary(i, {}, LAMBDA x, y : Ordered(op, i.d, x, y)) \in Calm
         /\ Binary(i, {"t0"}, LAMBDA x, y : Disjunction(i.d, x, y)) \in Calm
<1>1. i.d \in Names
  BY IrParts
<1>. DEFINE a == FirstOf(i, {})
            b == SecondOf(i, {})
            a1 == FirstOf(i, {"t0"})
            b1 == SecondOf(i, {"t0"})
<1>2. a.at \in Names /\ a.code \in Calm /\ b.at \in Names /\ b.code \in Calm
  BY TwoOperands DEF Put
<1>3. a1.at \in Names /\ a1.code \in Calm /\ b1.at \in Names /\ b1.code \in Calm
  BY TwoOperands DEF Put
<1>4. /\ Binary(i, {}, LAMBDA x, y : Commutative(op, i.d, x, y)) =
           a.code \o b.code \o Commutative(op, i.d, a.at, b.at)
      /\ Binary(i, {}, LAMBDA x, y : Ordered(op, i.d, x, y)) =
           a.code \o b.code \o Ordered(op, i.d, a.at, b.at)
      /\ Binary(i, {"t0"}, LAMBDA x, y : Disjunction(i.d, x, y)) =
           a1.code \o b1.code \o Disjunction(i.d, a1.at, b1.at)
  BY Zenon DEF Binary, FirstOf, SecondOf
<1>. HIDE DEF a, b, a1, b1
<1>5. /\ Commutative(op, i.d, a.at, b.at) \in Calm /\ Ordered(op, i.d, a.at, b.at) \in Calm
      /\ Disjunction(i.d, a1.at, b1.at) \in Calm
  BY <1>1, <1>2, <1>3, CalmCommutative, CalmOrdered, CalmDisjunction
<1>6. /\ a.code \o b.code \o Commutative(op, i.d, a.at, b.at) \in Calm
      /\ a.code \o b.code \o Ordered(op, i.d, a.at, b.at) \in Calm
      /\ a1.code \o b1.code \o Disjunction(i.d, a1.at, b1.at) \in Calm
  BY <1>2, <1>3, <1>5, CalmJoin
<1>. QED
  BY <1>4, <1>6, Zenon

LEMMA CalmAddrOf ==
  ASSUME NEW i \in IrInstr, NEW f PROVE AddrOf(i, f) \in Calm
<1>1. i.d \in Names /\ i.a.n \in Int /\ "fp" \in Names
  BY IrParts, NamesAre
<1>2. SlotOffset(i.a.n, f) \in Int
  BY <1>1, SlotOffsetIs
<1>3. AddImm(i.d, "fp", SlotOffset(i.a.n, f)) \in Calm
  BY <1>1, <1>2, CalmImmediates
<1>4. LI(i.d, i.a.n) \in Calm
  BY <1>1, CalmMacros
<1>. QED
  BY <1>3, <1>4 DEF AddrOf

LEMMA CalmAccess ==
  ASSUME NEW i \in IrInstr PROVE Load(i) \in Calm /\ Store(i) \in Calm
<1>1. i.d \in Names /\ i.a \in IrOperand /\ i.b \in IrOperand
  BY IrParts
<1>. DEFINE lop == IF i.w = 8 THEN "LB" ELSE "LW"
            sop == IF i.w = 8 THEN "SB" ELSE "SW"
            p == Materialize(i.a, Scratch({i.d}))
            q == Materialize(i.a, Scratch({}))
            v == Materialize(i.b, Scratch({q.at}))
<1>2. lop \in CalmOps /\ sop \in CalmOps /\ 0 \in Int
  BY DEF CalmOps
<1>3. p.at \in Names /\ p.code \in Calm /\ q.at \in Names /\ q.code \in Calm
  BY <1>1, OneOperand, CalmNoOperand DEF Put
<1>4. v.at \in Names /\ v.code \in Calm
  BY <1>1, OneOperand DEF Put
<1>5. /\ Load(i) = p.code \o <<Ins(lop, i.d, p.at, 0)>>
      /\ Store(i) = q.code \o v.code \o <<Ins(sop, v.at, q.at, 0)>>
  BY Zenon DEF Load, Store
<1>. HIDE DEF lop, sop, p, q, v
<1>6. <<Ins(lop, i.d, p.at, 0)>> \in Calm /\ <<Ins(sop, v.at, q.at, 0)>> \in Calm
  BY <1>1, <1>2, <1>3, <1>4, CalmIns, Zenon
<1>7. Load(i) \in Calm
  BY <1>3, <1>5, <1>6, CalmJoin, Zenon
<1>8. Store(i) \in Calm
  <2>1. q.code \o v.code \in Calm
    BY <1>3, <1>4, CalmJoin, Zenon
  <2>. QED
    BY <1>5, <1>6, <2>1, CalmJoin, Zenon
<1>. QED
  BY <1>7, <1>8

LEMMA CalmScaled ==
  ASSUME NEW d \in Names, NEW a \in Names, NEW b \in Names, NEW shifts \in Nat, NEW w \in Int
  PROVE  Scaled(d, a, b, shifts) \in Calm /\ Multiplied(d, a, b, w) \in Calm
<1>1. "a0" \in Names /\ "a1" \in Names /\ "t0" \in Names /\ "ADD" \in Arithmetic
  BY NamesAre DEF Arithmetic
<1>2. \A x \in Names, y \in Names :
        /\ MoveTo(x, y) \in Calm /\ PUSH(x) \in Calm /\ POP(x) \in Calm /\ SLL(x) \in Calm
        /\ LoadImm(x, w) \in Calm
  BY CalmMacros, CalmImmediates
<1>3. \A x \in Names, y \in Names : RR("ADD", x, y) \in Calm
  BY <1>1, CalmRR
<1>4. Scaled(d, a, b, shifts) \in Calm
  <2>1. Times(shifts, SLL(d)) \in Calm
    BY <1>2, CalmTimes
  <2>. QED
    BY <1>2, <1>3, <2>1, CalmJoin, Zenon DEF Scaled
<1>5. Multiplied(d, a, b, w) \in Calm
  <2>1. CALL("__mul") \in Calm
    BY CalmCall
  <2>2. PUSH(a) \o MoveTo("a0", b) \o LoadImm("a1", w) \in Calm
    BY <1>1, <1>2, CalmJoin, Zenon
  <2>3. POP("t0") \in Calm /\ RR("ADD", "a0", "t0") \in Calm /\ MoveTo(d, "a0") \in Calm
    BY <1>1, <1>2, <1>3, Zenon
  <2>. QED
    BY <2>1, <2>2, <2>3, CalmJoin, Zenon DEF Multiplied
<1>. QED
  BY <1>4, <1>5

LEMMA CalmGep ==
  ASSUME NEW i \in IrInstr PROVE Gep(i) \in Calm
<1>1. i.d \in Names /\ i.w \in Int
  BY IrParts
<1>. DEFINE a == FirstOf(i, {})
            b == SecondOf(i, {})
            rest == CASE i.w = 1 -> Commutative("ADD", i.d, a.at, b.at)
                      [] i.w = 2 -> Scaled(i.d, a.at, b.at, 1)
                      [] i.w = 4 -> Scaled(i.d, a.at, b.at, 2)
                      [] OTHER -> Multiplied(i.d, a.at, b.at, i.w)
<1>2. a.at \in Names /\ a.code \in Calm /\ b.at \in Names /\ b.code \in Calm
  BY TwoOperands DEF Put
<1>3. Gep(i) = a.code \o b.code \o rest
  BY Zenon DEF Gep, Binary, FirstOf, SecondOf
<1>. HIDE DEF a, b
<1>4. "ADD" \in Arithmetic /\ 1 \in Nat /\ 2 \in Nat
  BY DEF Arithmetic
<1>5. Commutative("ADD", i.d, a.at, b.at) \in Calm /\ Multiplied(i.d, a.at, b.at, i.w) \in Calm
  BY <1>1, <1>2, <1>4, CalmCommutative, CalmScaled
<1>6. Scaled(i.d, a.at, b.at, 1) \in Calm /\ Scaled(i.d, a.at, b.at, 2) \in Calm
  BY <1>1, <1>2, <1>4, CalmScaled, Zenon
<1>7. rest \in Calm
  BY <1>5, <1>6, Zenon
<1>. HIDE DEF rest
<1>. QED
  BY <1>2, <1>3, <1>7, CalmJoin

LEMMA CalmExtend ==
  ASSUME NEW i \in IrInstr PROVE ZeroExtend(i) \in Calm /\ SignExtend(i) \in Calm
<1>1. i.d \in Names /\ i.a.n \in Int /\ "" \in Names /\ "r0" \in Names
  BY IrParts, NamesAre
<1>2. Mask(i.a.n, i.w) \in Int /\ Extended(i.a.n, i.w) \in Int
  <2>1. \A n \in Int : n % 2 \in Int /\ n % 256 \in Int /\ 0 - (n % 2) \in Int /\ (n % 256) - 256 \in Int
    OBVIOUS
  <2>2. \A n \in Int : \A w : Mask(n, w) \in Int
    BY <2>1 DEF Mask
  <2>3. \A n \in Int : \A w : Extended(n, w) \in Int
    BY <2>1 DEF Extended
  <2>. QED
    BY <1>1, <2>2, <2>3
<1>3. LoadImm(i.d, Mask(i.a.n, i.w)) \in Calm /\ LoadImm(i.d, Extended(i.a.n, i.w)) \in Calm
  BY <1>1, <1>2, CalmImmediates
<1>. DEFINE s == Scratch({i.d})
            low == <<Ins("ANDI", i.d, "", 1)>>
            byte == LI(s, 255) \o RR("AND", i.d, s)
            spread == ADDI(s, "r0", 8) \o Times(8, SLL(i.d)) \o RR("SRA", i.d, s)
<1>4. /\ ZeroExtend(i) = IF IsImm(i.a) THEN LoadImm(i.d, Mask(i.a.n, i.w))
                         ELSE Moved(i) \o CASE i.w = 1 -> low [] i.w = 8 -> byte [] OTHER -> <<>>
      /\ SignExtend(i) = IF IsImm(i.a) THEN LoadImm(i.d, Extended(i.a.n, i.w))
                         ELSE Moved(i) \o CASE i.w = 8 -> spread [] i.w = 1 -> NEG(i.d) [] OTHER -> <<>>
  BY DEF ZeroExtend, SignExtend
<1>5. s \in Names
  BY ScratchIs
<1>. HIDE DEF s
<1>6. low \in Calm
  <2>1. "ANDI" \in CalmOps /\ 1 \in Int
    BY DEF CalmOps, Computes
  <2>. QED
    BY <1>1, <2>1, CalmIns, Zenon
<1>7. /\ RR("AND", i.d, s) \in Calm /\ RR("SRA", i.d, s) \in Calm
      /\ SLL(i.d) \in Calm /\ NEG(i.d) \in Calm
  <2>1. RR("AND", i.d, s) \in Calm /\ RR("SRA", i.d, s) \in Calm
    BY <1>1, <1>5, CalmRR
  <2>2. SLL(i.d) \in Calm /\ NEG(i.d) \in Calm
    BY <1>1, CalmMacros
  <2>. QED
    BY <2>1, <2>2
<1>8. \A k \in Int : LI(s, k) \in Calm /\ ADDI(s, "r0", k) \in Calm
  BY <1>1, <1>5, CalmMacros
<1>9. byte \in Calm
  BY <1>7, <1>8, CalmJoin
<1>10. spread \in Calm
  <2>1. Times(8, SLL(i.d)) \in Calm
    BY <1>7, CalmTimes, 8 \in Nat
  <2>. QED
    BY <1>7, <1>8, <2>1, CalmJoin
<1>. HIDE DEF low, byte, spread
<1>11. Moved(i) \in Calm
  BY CalmMoved
<1>. QED
  BY <1>3, <1>4, <1>6, <1>7, <1>9, <1>10, <1>11, CalmNone, CalmJoin

LEMMA CalmRest ==
  ASSUME NEW i \in IrInstr, NEW f, f.slots \in Nat
  PROVE  /\ Negated(i) \in Calm /\ Inverted(i) \in Calm /\ Call(i) \in Calm /\ Return(i, f) \in Calm
         /\ LoadImm(i.d, i.a.n) \in Calm
<1>1. i.d \in Names /\ i.a.n \in Int /\ i.a.r \in Names /\ "a0" \in Names
  BY IrParts, NamesAre
<1>2. -i.a.n \in Int /\ -i.a.n - 1 \in Int
  BY <1>1
<1>3. LoadImm(i.d, -i.a.n) \in Calm /\ LoadImm(i.d, -i.a.n - 1) \in Calm /\ LoadImm(i.d, i.a.n) \in Calm
  BY <1>1, <1>2, CalmImmediates
<1>4. NEG(i.d) \in Calm /\ COM(i.d) \in Calm
  BY <1>1, CalmMacros
<1>5. Moved(i) \o NEG(i.d) \in Calm /\ Moved(i) \o COM(i.d) \in Calm
  BY <1>4, CalmMoved, CalmJoin
<1>6. Negated(i) \in Calm /\ Inverted(i) \in Calm
  BY <1>3, <1>5 DEF Negated, Inverted
<1>7. MoveTo(i.d, "a0") \in Calm /\ MoveTo("a0", i.a.r) \in Calm /\ LoadImm("a0", i.a.n) \in Calm
      /\ LI("a0", i.a.n) \in Calm
  BY <1>1, CalmImmediates, CalmMacros
<1>8. Call(i) \in Calm
  <2>1. CALL("callee") \in Calm
    BY CalmCall
  <2>2. Unless(i.d = "", MoveTo(i.d, "a0")) \in Calm
    BY <1>7, CalmUnless, Zenon
  <2>. QED
    BY <2>1, <2>2, CalmJoin, Zenon DEF Call
<1>9. Epilogue(f) \in Calm
  BY CalmEpilogue
<1>10. Return(i, f) \in Calm
  BY <1>7, <1>9, CalmNone, CalmJoin, Zenon DEF Return
<1>. QED
  BY <1>3, <1>6, <1>8, <1>10

-----------------------------------------------------------------------------
(***************************************************************************)
(* Texts with labels. L are the labels of the text, and its branches name  *)
(* labels in T.                                                            *)
(***************************************************************************)
Text(c, L, T) ==
  /\ c \in Seq(Item)
  /\ Distinct(c) /\ LabelsOf(c) = L /\ TargetsOf(c) \subseteq T
  /\ \A k \in DOMAIN c : /\ c[k].op \in Branches \cup {"label"} => c[k].x \in OwnNames
                         /\ c[k].op # "JAL"

LEMMA TextCalm ==
  ASSUME NEW c \in Calm PROVE Text(c, {}, {})
<1>1. CalmOps \subseteq Ops /\ "label" \notin CalmOps /\ "JAL" \notin CalmOps
  BY DEF CalmOps, Ops, Computes
<1>2. \A op \in CalmOps : op \notin Branches
  BY DEF CalmOps, Computes, Branches
<1>3. CalmItem \subseteq Item /\ \A i \in CalmItem : i.op \in CalmOps
  BY <1>1 DEF CalmItem, Item
<1>4. c \in Seq(Item) /\ \A k \in DOMAIN c : c[k].op \in CalmOps
  BY <1>3 DEF Calm
<1>. QED
  BY <1>1, <1>2, <1>4 DEF Text, Distinct, LabelsOf, TargetsOf

LEMMA TextOne ==
  ASSUME NEW op \in Branches \cup {"label"}, NEW x \in OwnNames, NEW n \in Int
  PROVE  Text(<<Ins(op, x, "", n)>>, IF op = "label" THEN {<<x, n>>} ELSE {},
              IF op = "label" THEN {} ELSE {<<x, n>>})
<1>. DEFINE i == Ins(op, x, "", n)
            c == <<i>>
<1>1. op \in Ops /\ x \in Names /\ "" \in Names /\ op # "JAL" /\ (op = "label" <=> op \notin Branches)
  BY NamesAre DEF Ops, Names, Branches
<1>2. i \in Item /\ i.op = op /\ i.x = x /\ i.n = n
  BY <1>1, Zenon DEF Ins, Item
<1>3. Key(i) = <<x, n>>
  BY <1>2 DEF Key
<1>. HIDE DEF i
<1>4. c \in Seq(Item) /\ DOMAIN c = {1} /\ c[1] = i
  BY <1>2
<1>. HIDE DEF c
<1>5. Distinct(c) /\ c[1].op # "JAL" /\ c[1].x \in OwnNames
  BY <1>1, <1>2, <1>4 DEF Distinct
<1>6. LabelsOf(c) = IF op = "label" THEN {<<x, n>>} ELSE {}
  BY <1>2, <1>3, <1>4 DEF LabelsOf
<1>7. TargetsOf(c) = IF op = "label" THEN {} ELSE {<<x, n>>}
  BY <1>1, <1>2, <1>3, <1>4 DEF TargetsOf
<1>8. Text(c, IF op = "label" THEN {<<x, n>>} ELSE {}, IF op = "label" THEN {} ELSE {<<x, n>>})
  BY <1>4, <1>5, <1>6, <1>7 DEF Text
<1>. QED
  BY <1>8 DEF c, i

LEMMA TextLabel ==
  ASSUME NEW x \in OwnNames, NEW n \in Int PROVE Text(Label(x, n), {<<x, n>>}, {})
BY TextOne, Zenon DEF Label

LEMMA TextTo ==
  ASSUME NEW op \in Branches, NEW x \in OwnNames, NEW n \in Int
  PROVE  Text(To(op, x, n), {}, {<<x, n>>})
<1>1. op # "label"
  BY DEF Branches
<1>. QED
  BY <1>1, TextOne, Zenon DEF To

LEMMA TextWider ==
  ASSUME NEW c, NEW L, NEW T, Text(c, L, T), NEW U, T \subseteq U PROVE Text(c, L, U)
BY DEF Text

LEMMA TextJoin ==
  ASSUME NEW a, NEW b, NEW L, NEW M, NEW T, NEW U,
         Text(a, L, T), Text(b, M, U), L \cap M = {}
  PROVE  Text(a \o b, L \cup M, T \cup U)
<1>. DEFINE c == a \o b
            p == Len(a)
            q == Len(b)
<1>1. a \in Seq(Item) /\ b \in Seq(Item) /\ p \in Nat /\ q \in Nat
      /\ DOMAIN a = 1 .. p /\ DOMAIN b = 1 .. q
  BY DEF Text
<1>2. c \in Seq(Item) /\ DOMAIN c = 1 .. p + q
      /\ \A k \in 1 .. p + q : c[k] = IF k <= p THEN a[k] ELSE b[k - p]
  BY <1>1
<1>. HIDE DEF c, p, q
<1>3. \A k \in 1 .. p : k \in 1 .. p + q /\ c[k] = a[k]
  BY <1>1, <1>2
<1>4. \A k \in 1 .. q : p + k \in 1 .. p + q /\ c[p + k] = b[k]
  <2>1. \A k \in 1 .. q : p + k \in 1 .. p + q /\ ~(p + k <= p) /\ (p + k) - p = k
    BY <1>1
  <2>. QED
    BY <1>2, <2>1
<1>5. \A k \in 1 .. p + q : k \in 1 .. p \/ \E j \in 1 .. q : k = p + j
  <2>1. \A k \in 1 .. p + q : k \in 1 .. p \/ (k - p \in 1 .. q /\ k = p + (k - p))
    BY <1>1
  <2>. QED
    BY <2>1
<1>6. LabelsOf(c) = L \cup M
  <2>1. LabelsOf(c) \subseteq LabelsOf(a) \cup LabelsOf(b)
    <3>. SUFFICES ASSUME NEW e \in LabelsOf(c) PROVE e \in LabelsOf(a) \cup LabelsOf(b)
      OBVIOUS
    <3>1. PICK k \in DOMAIN c : c[k].op = "label" /\ e = Key(c[k])
      BY DEF LabelsOf
    <3>2. CASE k \in 1 .. p
      BY <1>1, <1>3, <3>1, <3>2 DEF LabelsOf
    <3>3. CASE k \notin 1 .. p
      <4>1. PICK j \in 1 .. q : k = p + j
        BY <1>2, <1>5, <3>3
      <4>2. c[k] = b[j]
        BY <1>4, <4>1
      <4>. QED
        BY <1>1, <3>1, <4>2 DEF LabelsOf
    <3>. QED
      BY <3>2, <3>3
  <2>2. LabelsOf(a) \subseteq LabelsOf(c)
    BY <1>1, <1>2, <1>3 DEF LabelsOf
  <2>3. LabelsOf(b) \subseteq LabelsOf(c)
    BY <1>1, <1>2, <1>4 DEF LabelsOf
  <2>. QED
    BY <2>1, <2>2, <2>3 DEF Text
<1>7. TargetsOf(c) \subseteq T \cup U
  <2>1. TargetsOf(c) \subseteq TargetsOf(a) \cup TargetsOf(b)
    <3>. SUFFICES ASSUME NEW e \in TargetsOf(c) PROVE e \in TargetsOf(a) \cup TargetsOf(b)
      OBVIOUS
    <3>1. PICK k \in DOMAIN c : c[k].op \in Branches /\ e = Key(c[k])
      BY DEF TargetsOf
    <3>2. CASE k \in 1 .. p
      BY <1>1, <1>3, <3>1, <3>2 DEF TargetsOf
    <3>3. CASE k \notin 1 .. p
      <4>1. PICK j \in 1 .. q : k = p + j
        BY <1>2, <1>5, <3>3
      <4>2. c[k] = b[j]
        BY <1>4, <4>1
      <4>. QED
        BY <1>1, <3>1, <4>2 DEF TargetsOf
    <3>. QED
      BY <3>2, <3>3
  <2>. QED
    BY <2>1 DEF Text
<1>8. Distinct(c)
  <2>. SUFFICES ASSUME NEW j \in DOMAIN c, NEW k \in DOMAIN c, c[j].op = "label", c[k].op = "label",
                       c[j].x = c[k].x, c[j].n = c[k].n
                PROVE  j = k
    BY DEF Distinct
  <2>1. Key(c[j]) = Key(c[k])
    BY DEF Key
  <2>2. \A r \in 1 .. p : c[r].op = "label" => Key(c[r]) \in L
    BY <1>1, <1>3 DEF LabelsOf, Text
  <2>3. \A r \in 1 .. q : c[p + r].op = "label" => Key(c[p + r]) \in M
    BY <1>1, <1>4 DEF LabelsOf, Text
  <2>4. CASE j \in 1 .. p /\ k \in 1 .. p
    BY <1>1, <1>3, <2>4 DEF Text, Distinct
  <2>5. CASE j \in 1 .. p /\ k \notin 1 .. p
    BY <1>2, <1>5, <2>1, <2>2, <2>3, <2>5
  <2>6. CASE j \notin 1 .. p /\ k \in 1 .. p
    BY <1>2, <1>5, <2>1, <2>2, <2>3, <2>6
  <2>7. CASE j \notin 1 .. p /\ k \notin 1 .. p
    <3>1. PICK r \in 1 .. q : j = p + r
      BY <1>2, <1>5, <2>7
    <3>2. PICK s \in 1 .. q : k = p + s
      BY <1>2, <1>5, <2>7
    <3>3. b[r].op = "label" /\ b[s].op = "label" /\ b[r].x = b[s].x /\ b[r].n = b[s].n
      BY <1>4, <3>1, <3>2
    <3>. QED
      BY <1>1, <3>1, <3>2, <3>3 DEF Text, Distinct
  <2>. QED
    BY <2>4, <2>5, <2>6, <2>7
<1>9. \A k \in DOMAIN c : /\ c[k].op \in Branches \cup {"label"} => c[k].x \in OwnNames
                          /\ c[k].op # "JAL"
  BY <1>1, <1>2, <1>3, <1>4, <1>5 DEF Text
<1>10. Text(c, L \cup M, T \cup U)
  BY <1>2, <1>6, <1>7, <1>8, <1>9 DEF Text
<1>. QED
  BY <1>10 DEF c

Woven(segs, c, off) ==
  /\ \A p \in DOMAIN c : \E k \in DOMAIN segs : \E j \in DOMAIN segs[k] :
       p = off[k] + j /\ c[p] = segs[k][j]
  /\ \A k \in DOMAIN segs : \A j \in DOMAIN segs[k] :
       off[k] + j \in DOMAIN c /\ c[off[k] + j] = segs[k][j]

LEMMA FlattenWoven ==
  ASSUME NEW segs \in Segments(Item)
  PROVE  FlattenSeq(segs) \in Seq(Item) /\ \E off : Woven(segs, FlattenSeq(segs), off)
<1>. DEFINE c == FlattenSeq(segs)
<1>1. c \in Seq(Item) /\ \E off : Laid(segs, c, off)
  BY Flattened
<1>. HIDE DEF c
<1>2. PICK off : Laid(segs, c, off)
  BY <1>1
<1>3. Woven(segs, c, off)
  BY <1>1, <1>2, FlattenText DEF Woven
<1>. QED
  BY <1>1, <1>3 DEF c

LEMMA TextFlat ==
  ASSUME NEW size \in Nat, NEW segs \in [1 .. size -> Seq(Item)],
         \A k \in 1 .. size : Text(segs[k], LabelsOf(segs[k]), TargetsOf(segs[k])),
         \A j, k \in 1 .. size : j # k => LabelsOf(segs[j]) \cap LabelsOf(segs[k]) = {}
  PROVE  LET c == FlattenSeq(segs)
         IN  /\ Text(c, UNION {LabelsOf(segs[k]) : k \in 1 .. size},
                     UNION {TargetsOf(segs[k]) : k \in 1 .. size})
<1>. DEFINE c == FlattenSeq(segs)
<1>1. segs \in Segments(Item) /\ DOMAIN segs = 1 .. size
  BY AsSegments
<1>2. c \in Seq(Item) /\ \E off : Woven(segs, c, off)
  BY <1>1, FlattenWoven
<1>. HIDE DEF c
<1>3. PICK off : Woven(segs, c, off)
  BY <1>2
<1>4. \A k \in DOMAIN segs : \A j \in DOMAIN segs[k] :
        off[k] + j \in DOMAIN c /\ c[off[k] + j] = segs[k][j]
  BY <1>3 DEF Woven
<1>a. \A p \in DOMAIN c : \E k \in DOMAIN segs : \E j \in DOMAIN segs[k] :
        p = off[k] + j /\ c[p] = segs[k][j]
  BY <1>3 DEF Woven
<1>5. ASSUME NEW p \in DOMAIN c
      PROVE  \E k \in 1 .. size : \E j \in DOMAIN segs[k] : p = off[k] + j /\ c[p] = segs[k][j]
  BY <1>1, <1>a
<1>6. LabelsOf(c) = UNION {LabelsOf(segs[k]) : k \in 1 .. size}
  <2>1. ASSUME NEW e \in LabelsOf(c) PROVE \E k \in 1 .. size : e \in LabelsOf(segs[k])
    <3>1. PICK p \in DOMAIN c : c[p].op = "label" /\ e = Key(c[p])
      BY <2>1 DEF LabelsOf
    <3>2. PICK k \in 1 .. size : \E j \in DOMAIN segs[k] : p = off[k] + j /\ c[p] = segs[k][j]
      BY <1>5
    <3>3. PICK j \in DOMAIN segs[k] : c[p] = segs[k][j]
      BY <3>2
    <3>. QED
      BY <3>1, <3>3 DEF LabelsOf
  <2>2. ASSUME NEW k \in 1 .. size, NEW e \in LabelsOf(segs[k]) PROVE e \in LabelsOf(c)
    <3>1. PICK j \in DOMAIN segs[k] : segs[k][j].op = "label" /\ e = Key(segs[k][j])
      BY <2>2 DEF LabelsOf
    <3>2. off[k] + j \in DOMAIN c /\ c[off[k] + j] = segs[k][j]
      BY <1>1, <1>4
    <3>. QED
      BY <3>1, <3>2 DEF LabelsOf
  <2>. QED
    BY <2>1, <2>2
<1>7. TargetsOf(c) \subseteq UNION {TargetsOf(segs[k]) : k \in 1 .. size}
  <2>1. ASSUME NEW e \in TargetsOf(c) PROVE \E k \in 1 .. size : e \in TargetsOf(segs[k])
    <3>1. PICK p \in DOMAIN c : c[p].op \in Branches /\ e = Key(c[p])
      BY <2>1 DEF TargetsOf
    <3>2. PICK k \in 1 .. size : \E j \in DOMAIN segs[k] : p = off[k] + j /\ c[p] = segs[k][j]
      BY <1>5
    <3>3. PICK j \in DOMAIN segs[k] : c[p] = segs[k][j]
      BY <3>2
    <3>. QED
      BY <3>1, <3>3 DEF TargetsOf
  <2>. QED
    BY <2>1
<1>8. Distinct(c)
  <2>. SUFFICES ASSUME NEW p \in DOMAIN c, NEW q \in DOMAIN c, c[p].op = "label", c[q].op = "label",
                       c[p].x = c[q].x, c[p].n = c[q].n
                PROVE  p = q
    BY DEF Distinct
  <2>1. PICK k \in 1 .. size : \E j \in DOMAIN segs[k] : p = off[k] + j /\ c[p] = segs[k][j]
    BY <1>5
  <2>2. PICK j \in DOMAIN segs[k] : p = off[k] + j /\ c[p] = segs[k][j]
    BY <2>1
  <2>3. PICK l \in 1 .. size : \E i \in DOMAIN segs[l] : q = off[l] + i /\ c[q] = segs[l][i]
    BY <1>5
  <2>4. PICK i \in DOMAIN segs[l] : q = off[l] + i /\ c[q] = segs[l][i]
    BY <2>3
  <2>5. Key(c[p]) = Key(c[q])
    BY DEF Key
  <2>6. Key(c[p]) \in LabelsOf(segs[k]) /\ Key(c[p]) \in LabelsOf(segs[l])
    BY <2>2, <2>4, <2>5 DEF LabelsOf
  <2>7. k = l
    BY <2>6
  <2>8. i = j
    BY <2>2, <2>4, <2>7 DEF Distinct, Text
  <2>. QED
    BY <2>2, <2>4, <2>7, <2>8
<1>9. \A p \in DOMAIN c : /\ c[p].op \in Branches \cup {"label"} => c[p].x \in OwnNames
                          /\ c[p].op # "JAL"
  <2>. TAKE p \in DOMAIN c
  <2>1. PICK k \in 1 .. size : \E j \in DOMAIN segs[k] : p = off[k] + j /\ c[p] = segs[k][j]
    BY <1>5
  <2>2. PICK j \in DOMAIN segs[k] : c[p] = segs[k][j]
    BY <2>1
  <2>. QED
    BY <2>2 DEF Text
<1>10. Text(c, UNION {LabelsOf(segs[k]) : k \in 1 .. size}, UNION {TargetsOf(segs[k]) : k \in 1 .. size})
  BY <1>2, <1>6, <1>7, <1>8, <1>9 DEF Text
<1>. QED
  BY <1>10 DEF c

\* How a text is extended.
LEMMA TextThen ==
  ASSUME NEW a, NEW L, NEW T, Text(a, L, T)
  PROVE  /\ \A b \in Calm : Text(a \o b, L, T)
         /\ \A b : Text(b, {}, T) => Text(a \o b, L, T)
         /\ \A op \in Branches, x \in OwnNames, n \in Int :
              <<x, n>> \in T => Text(a \o To(op, x, n), L, T)
         /\ \A x \in OwnNames, n \in Int :
              <<x, n>> \notin L => Text(a \o Label(x, n), L \cup {<<x, n>>}, T)
<1>1. ASSUME NEW b, Text(b, {}, T) PROVE Text(a \o b, L, T)
  <2>1. Text(a \o b, L \cup {}, T \cup T)
    BY <1>1, TextJoin
  <2>. QED
    BY <2>1
<1>2. ASSUME NEW b \in Calm PROVE Text(a \o b, L, T)
  <2>1. Text(b, {}, T)
    BY TextCalm, TextWider
  <2>. QED
    BY <1>1, <2>1
<1>3. ASSUME NEW op \in Branches, NEW x \in OwnNames, NEW n \in Int, <<x, n>> \in T
      PROVE  Text(a \o To(op, x, n), L, T)
  <2>1. Text(To(op, x, n), {}, {<<x, n>>})
    BY TextTo
  <2>2. Text(To(op, x, n), {}, T)
    BY <1>3, <2>1, TextWider
  <2>. QED
    BY <1>1, <2>2
<1>4. ASSUME NEW x \in OwnNames, NEW n \in Int, <<x, n>> \notin L
      PROVE  Text(a \o Label(x, n), L \cup {<<x, n>>}, T)
  <2>1. Text(Label(x, n), {<<x, n>>}, {})
    BY TextLabel
  <2>2. L \cap {<<x, n>>} = {}
    BY <1>4
  <2>3. Text(a \o Label(x, n), L \cup {<<x, n>>}, T \cup {})
    BY <2>1, <2>2, TextJoin
  <2>. QED
    BY <2>3
<1>. QED
  BY <1>1, <1>2, <1>3, <1>4

LEMMA TextStart ==
  ASSUME NEW c \in Calm, NEW T PROVE Text(c, {}, T)
BY TextCalm, TextWider

-----------------------------------------------------------------------------
(***************************************************************************)
(* The labels of an instruction are numbered by it, and its branches name  *)
(* them or blocks.                                                         *)
(***************************************************************************)
Locals(k) == {"found", "done", "loop"} \X {k}
BlockLabels(S) == {"bb"} \X S
Piece(c, k, S) == \E L \in SUBSET Locals(k) : Text(c, L, L \cup BlockLabels(S))

LEMMA PieceCalm ==
  ASSUME NEW c \in Calm, NEW k, NEW S PROVE Piece(c, k, S)
<1>1. Text(c, {}, {} \cup BlockLabels(S)) /\ {} \in SUBSET Locals(k)
  BY TextStart
<1>. QED
  BY <1>1 DEF Piece

LEMMA PieceComparison ==
  ASSUME NEW op \in Comparisons, NEW d \in Names, NEW a \in Names, NEW b \in Names, NEW k \in Nat,
         NEW start \in Calm, NEW S
  PROVE  Piece(start \o Comparison(op, d, a, b, k), k, S)
<1>. DEFINE found == IF op = Unequal THEN 0 ELSE 1
            T == {<<"found", k>>, <<"done", k>>}
            c0 == (IF Swapped(op) THEN RR("CMP", b, a) ELSE RR("CMP", a, b)) \o ADDI(d, "r0", 1 - found)
            c1 == c0 \o To(BranchOf[op], "found", k)
            c2 == c1 \o To("BR", "done", k)
            c3 == c2 \o Label("found", k)
            c4 == c3 \o ADDI(d, "r0", found)
            c5 == c4 \o Label("done", k)
<1>1. Comparison(op, d, a, b, k) = c5
  BY Zenon DEF Comparison
<1>2. found \in Int /\ 1 - found \in Int
  OBVIOUS
<1>3. "found" \in OwnNames /\ "done" \in OwnNames /\ k \in Int /\ "r0" \in Names
      /\ <<"found", k>> \in T /\ <<"done", k>> \in T
  <2>1. "found" \in OwnNames /\ "done" \in OwnNames /\ "r0" \in Names
    BY NamesAre DEF OwnNames
  <2>2. k \in Int
    OBVIOUS
  <2>3. <<"found", k>> \in T /\ <<"done", k>> \in T
    OBVIOUS
  <2>. QED
    BY <2>1, <2>2, <2>3, Zenon
<1>4. BranchOf[op] \in Branches /\ "BR" \in Branches
  BY DEF Comparisons, BranchOf, Branches
<1>5. <<"found", k>> \notin {} /\ <<"done", k>> \notin {} \cup {<<"found", k>>}
  OBVIOUS
<1>. HIDE DEF found, T
<1>6. c0 \in Calm
  <2>1. ADDI(d, "r0", 1 - found) \in Calm
    BY <1>2, <1>3, CalmMacros
  <2>2. RR("CMP", b, a) \in Calm /\ RR("CMP", a, b) \in Calm
    BY CalmRR
  <2>. QED
    BY <2>1, <2>2, CalmJoin
<1>. HIDE DEF c0
<1>7. Text(c0, {}, T)
  BY <1>6, TextStart
<1>8. Text(c1, {}, T)
  BY <1>3, <1>4, <1>7, TextThen
<1>. HIDE DEF c1
<1>9. Text(c2, {}, T)
  BY <1>3, <1>4, <1>8, TextThen, Zenon
<1>. HIDE DEF c2
<1>10. Text(c3, {} \cup {<<"found", k>>}, T)
  BY <1>3, <1>5, <1>9, TextThen, Zenon
<1>. HIDE DEF c3
<1>11. ADDI(d, "r0", found) \in Calm
  BY <1>2, <1>3, CalmMacros
<1>12. Text(c4, {} \cup {<<"found", k>>}, T)
  BY <1>10, <1>11, TextThen
<1>. HIDE DEF c4
<1>13. Text(c5, {} \cup {<<"found", k>>} \cup {<<"done", k>>}, T)
  BY <1>3, <1>5, <1>12, TextThen, Zenon
<1>14. {} \cup {<<"found", k>>} \cup {<<"done", k>>} = T
  BY DEF T
<1>. HIDE DEF c5
<1>15. Text(start, {}, T) /\ Text(c5, T, T)
  BY <1>13, <1>14, TextStart
<1>16. Text(start \o c5, {} \cup T, T \cup T)
  <2>1. {} \cap T = {}
    OBVIOUS
  <2>. QED
    BY <1>15, <2>1, TextJoin
<1>17. Text(start \o c5, T, T \cup BlockLabels(S))
  <2>1. {} \cup T = T /\ T \cup T = T /\ T \subseteq T \cup BlockLabels(S)
    OBVIOUS
  <2>. QED
    BY <1>16, <2>1, TextWider
<1>18. T \in SUBSET Locals(k)
  BY DEF T, Locals
<1>. QED
  BY <1>1, <1>17, <1>18 DEF Piece

LEMMA PieceShiftLeft ==
  ASSUME NEW i \in IrInstr, NEW k \in Nat, NEW S PROVE Piece(ShiftLeft(i, k), k, S)
<1>. DEFINE a == Materialize(i.a, Scratch({i.d}))
            b == Materialize(i.b, Scratch({i.d, a.at}))
            c == Scratch({i.d, a.at, b.at})
            compare == RR("CMP", c, "r0")
            test == compare \o To("BEQ", "done", k)
            start == a.code \o MoveTo(i.d, a.at)
            times == Times(IF i.b.n < 16 THEN i.b.n ELSE 16, SLL(i.d))
            c0 == b.code \o MOV(c, b.at)
            c1 == c0 \o test
            c2 == c1 \o Label("loop", k)
            c3 == c2 \o SLL(i.d)
            c4 == c3 \o ADDI(c, c, -1)
            c5 == c4 \o test
            c6 == c5 \o To("BR", "loop", k)
            c7 == c6 \o Label("done", k)
            T == {<<"loop", k>>, <<"done", k>>}
<1>1. ShiftLeft(i, k) = start \o IF IsImm(i.b) THEN times ELSE c7
  BY Zenon DEF ShiftLeft
<1>2. i.d \in Names /\ i.a \in IrOperand /\ i.b \in IrOperand /\ i.b.n \in Int /\ "r0" \in Names
  BY IrParts, NamesAre
<1>3. a.at \in Names /\ a.code \in Calm
  BY <1>2, OneOperand DEF Put
<1>. HIDE DEF a
<1>4. b.at \in Names /\ b.code \in Calm
  <2>1. Scratch({i.d, a.at}) \in Names
    BY ScratchIs
  <2>. QED
    BY <1>2, <2>1, MaterializeIs
<1>. HIDE DEF b
<1>5. c \in Names
  BY ScratchIs
<1>. HIDE DEF c
<1>6. compare \in Calm
  BY <1>2, <1>5, CalmRR
<1>7. start \in Calm
  <2>1. MoveTo(i.d, a.at) \in Calm
    BY <1>2, <1>3, CalmImmediates, 0 \in Int
  <2>. QED
    BY <1>3, <2>1, CalmJoin
<1>8. SLL(i.d) \in Calm /\ ADDI(c, c, -1) \in Calm /\ MOV(c, b.at) \in Calm
  <2>1. SLL(i.d) \in Calm /\ MOV(c, b.at) \in Calm
    BY <1>2, <1>4, <1>5, CalmMacros, 0 \in Int
  <2>2. \A w \in Int : ADDI(c, c, w) \in Calm
    BY <1>5, CalmMacros
  <2>3. -1 \in Int
    OBVIOUS
  <2>4. ADDI(c, c, -1) \in Calm
    BY <2>2, <2>3, Zenon
  <2>. QED
    BY <2>1, <2>4, Zenon
<1>9. times \in Calm
  <2>1. (IF i.b.n < 16 THEN i.b.n ELSE 16) \in Int
    BY <1>2
  <2>. QED
    BY <1>8, <2>1, CalmTimes
<1>10. c0 \in Calm
  BY <1>4, <1>8, CalmJoin, Zenon
<1>11. "loop" \in OwnNames /\ "done" \in OwnNames /\ "BR" \in Branches /\ "BEQ" \in Branches
  BY DEF OwnNames, Branches
<1>12. <<"loop", k>> \in T /\ <<"done", k>> \in T
  OBVIOUS
<1>13. <<"loop", k>> \notin {} /\ <<"done", k>> \notin {} \cup {<<"loop", k>>}
  OBVIOUS
<1>14. k \in Int /\ {} \cup {<<"loop", k>>} \cup {<<"done", k>>} = T
  OBVIOUS
<1>. HIDE DEF compare, start, times, c0, T
<1>15. Text(test, {}, T)
  <2>1. Text(compare, {}, T)
    BY <1>6, TextStart
  <2>. QED
    BY <1>11, <1>12, <1>14, <2>1, TextThen, Zenon
<1>16. Text(c1, {}, T)
  <2>1. Text(c0, {}, T)
    BY <1>10, TextStart
  <2>. QED
    BY <1>15, <2>1, TextThen, Zenon
<1>. HIDE DEF test, c1
<1>17. Text(c2, {} \cup {<<"loop", k>>}, T)
  BY <1>11, <1>13, <1>14, <1>16, TextThen, Zenon
<1>. HIDE DEF c2
<1>18. Text(c3, {} \cup {<<"loop", k>>}, T)
  BY <1>8, <1>17, TextThen, Zenon
<1>. HIDE DEF c3
<1>19. Text(c4, {} \cup {<<"loop", k>>}, T)
  BY <1>8, <1>18, TextThen, Zenon
<1>. HIDE DEF c4
<1>20. Text(c5, {} \cup {<<"loop", k>>}, T)
  BY <1>15, <1>19, TextThen, Zenon
<1>. HIDE DEF c5
<1>21. Text(c6, {} \cup {<<"loop", k>>}, T)
  BY <1>11, <1>12, <1>14, <1>20, TextThen, Zenon
<1>. HIDE DEF c6
<1>22. Text(c7, {} \cup {<<"loop", k>>} \cup {<<"done", k>>}, T)
  BY <1>11, <1>13, <1>14, <1>21, TextThen, Zenon
<1>. HIDE DEF c7
<1>23. Text(start \o c7, T, T \cup BlockLabels(S))
  <2>1. Text(start, {}, T) /\ Text(c7, T, T)
    BY <1>7, <1>14, <1>22, TextStart
  <2>2. {} \cap T = {} /\ {} \cup T = T /\ T \cup T = T /\ T \subseteq T \cup BlockLabels(S)
    OBVIOUS
  <2>3. Text(start \o c7, {} \cup T, T \cup T)
    BY <2>1, <2>2, TextJoin
  <2>. QED
    BY <2>2, <2>3, TextWider
<1>24. T \in SUBSET Locals(k)
  BY DEF T, Locals
<1>25. Piece(start \o c7, k, S)
  BY <1>23, <1>24 DEF Piece
<1>26. Piece(start \o times, k, S)
  <2>1. start \o times \in Calm
    BY <1>7, <1>9, CalmJoin
  <2>. QED
    BY <2>1, PieceCalm
<1>. QED
  BY <1>1, <1>25, <1>26

\* Code that only goes to blocks.
LEMMA PieceLeaves ==
  ASSUME NEW c, NEW k, NEW S, Text(c, {}, BlockLabels(S)) PROVE Piece(c, k, S)
<1>1. {} \in SUBSET Locals(k) /\ {} \cup BlockLabels(S) = BlockLabels(S)
  OBVIOUS
<1>. QED
  BY <1>1 DEF Piece

LEMMA PieceGoto ==
  ASSUME NEW i \in IrInstr, NEW k, NEW S, i.w \in S PROVE Piece(Goto(i), k, S)
<1>1. i.w \in Int /\ "bb" \in OwnNames /\ "BR" \in Branches
  BY IrParts DEF OwnNames, Branches
<1>2. Text(Goto(i), {}, {<<"bb", i.w>>})
  BY <1>1, TextTo, Zenon DEF Goto
<1>3. {<<"bb", i.w>>} \subseteq BlockLabels(S)
  BY DEF BlockLabels
<1>. QED
  BY <1>2, <1>3, TextWider, PieceLeaves

LEMMA PieceCondBranch ==
  ASSUME NEW i \in IrInstr, NEW k, NEW S, i.w \in S, i.b.n \in S PROVE Piece(CondBranch(i), k, S)
<1>. DEFINE p == Materialize(i.a, Scratch({}))
            T == BlockLabels(S)
            c0 == p.code \o RR("CMP", p.at, "r0")
            c1 == c0 \o To("BEQ", "bb", i.b.n)
            c2 == c1 \o To("BR", "bb", i.w)
<1>1. i.w \in Int /\ i.b.n \in Int /\ i.a \in IrOperand /\ "r0" \in Names
  <2>1. i.w \in Int /\ i.b.n \in Int /\ i.a \in IrOperand
    BY IrParts
  <2>. QED
    BY <2>1, NamesAre
<1>2. "bb" \in OwnNames /\ "BR" \in Branches /\ "BEQ" \in Branches
  BY DEF OwnNames, Branches
<1>3. p.at \in Names /\ p.code \in Calm
  BY <1>1, CalmNoOperand DEF Put
<1>4. CondBranch(i) = c2
  BY Zenon DEF CondBranch
<1>5. <<"bb", i.w>> \in T /\ <<"bb", i.b.n>> \in T
  BY DEF BlockLabels
<1>. HIDE DEF p, T
<1>6. c0 \in Calm
  <2>1. RR("CMP", p.at, "r0") \in Calm
    BY <1>1, <1>3, CalmRR
  <2>. QED
    BY <1>3, <2>1, CalmJoin
<1>. HIDE DEF c0
<1>7. Text(c0, {}, T)
  BY <1>6, TextStart
<1>8. Text(c1, {}, T)
  BY <1>1, <1>2, <1>5, <1>7, TextThen, Zenon
<1>. HIDE DEF c1
<1>9. Text(c2, {}, T)
  BY <1>1, <1>2, <1>5, <1>8, TextThen, Zenon
<1>. HIDE DEF c2
<1>. QED
  BY <1>4, <1>9, PieceLeaves DEF T

LEMMA TextCase ==
  ASSUME NEW v \in Names, NEW s \in Names, NEW n \in Int, NEW k \in Int
  PROVE  Text(Case(v, s, n, k), {}, {<<"bb", k>>})
<1>. DEFINE T == {<<"bb", k>>}
            small == <<Ins("RCMPI", v, "", n)>>
            large == LoadImm(s, n) \o RR("CMP", v, s)
            c0 == IF n \in 0 .. 15 THEN small ELSE large
<1>1. Case(v, s, n, k) = c0 \o To("BEQ", "bb", k)
  BY Zenon DEF Case
<1>2. small \in Calm
  <2>1. "RCMPI" \in CalmOps /\ "" \in Names
    BY NamesAre DEF CalmOps
  <2>. QED
    BY <2>1, CalmIns, Zenon
<1>3. large \in Calm
  <2>1. LoadImm(s, n) \in Calm /\ RR("CMP", v, s) \in Calm
    BY CalmImmediates, CalmRR
  <2>. QED
    BY <2>1, CalmJoin
<1>. HIDE DEF small, large
<1>4. c0 \in Calm
  BY <1>2, <1>3
<1>. HIDE DEF c0
<1>5. Text(c0, {}, T)
  BY <1>4, TextStart
<1>6. "bb" \in OwnNames /\ "BEQ" \in Branches
  BY DEF OwnNames, Branches
<1>7. <<"bb", k>> \in T
  OBVIOUS
<1>. HIDE DEF T
<1>8. Text(c0 \o To("BEQ", "bb", k), {}, T)
  BY <1>5, <1>6, <1>7, TextThen, Zenon
<1>. QED
  BY <1>1, <1>8 DEF T

LEMMA PieceSwitch ==
  ASSUME NEW i \in IrInstr, NEW k, NEW S, 2 .. i.w + 2 \subseteq S PROVE Piece(Switch(i), k, S)
<1>. DEFINE v == Materialize(i.a, Scratch({}))
            cases == [j \in 1 .. i.w |-> Case(v.at, Scratch({v.at}), i.b.n + j - 1, j + 1)]
            T == BlockLabels(S)
            c0 == v.code \o FlattenSeq(cases)
            c1 == c0 \o To("BR", "bb", i.w + 2)
<1>1. i.w \in Nat /\ i.b.n \in Int /\ i.a \in IrOperand
  BY IrParts
<1>2. v.at \in Names /\ v.code \in Calm
  BY <1>1, CalmNoOperand DEF Put
<1>3. Switch(i) = c1
  BY Zenon DEF Switch
<1>4. Scratch({v.at}) \in Names
  BY ScratchIs
<1>. HIDE DEF v
<1>5. ASSUME NEW j \in 1 .. i.w
      PROVE  Text(cases[j], {}, T)
  <2>1. i.b.n + j - 1 \in Int /\ j + 1 \in Int /\ j + 1 \in S
    BY <1>1
  <2>2. Text(cases[j], {}, {<<"bb", j + 1>>})
    BY <1>2, <1>4, <2>1, TextCase
  <2>3. {<<"bb", j + 1>>} \subseteq T
    BY <2>1 DEF BlockLabels
  <2>. HIDE DEF cases, T
  <2>. QED
    BY <2>2, <2>3, TextWider
<1>. HIDE DEF cases, T
<1>6. Text(FlattenSeq(cases), {}, T)
  <2>1. \A j \in 1 .. i.w : /\ cases[j] \in Seq(Item) /\ LabelsOf(cases[j]) = {} /\ TargetsOf(cases[j]) \subseteq T
                            /\ Text(cases[j], LabelsOf(cases[j]), TargetsOf(cases[j]))
    BY <1>5 DEF Text
  <2>2. cases \in [1 .. i.w -> Seq(Item)]
    BY <2>1 DEF cases
  <2>. DEFINE Ls == UNION {LabelsOf(cases[j]) : j \in 1 .. i.w}
              Ts == UNION {TargetsOf(cases[j]) : j \in 1 .. i.w}
  <2>3. Text(FlattenSeq(cases), Ls, Ts)
    BY <1>1, <2>1, <2>2, TextFlat
  <2>4. Ls = {} /\ Ts \subseteq T
    BY <2>1
  <2>. HIDE DEF Ls, Ts
  <2>. QED
    BY <2>3, <2>4, TextWider
<1>7. Text(c0, {}, T)
  <2>1. Text(v.code, {}, T)
    BY <1>2, TextStart
  <2>. QED
    BY <1>6, <2>1, TextThen
<1>. HIDE DEF c0
<1>8. "bb" \in OwnNames /\ "BR" \in Branches
  BY DEF OwnNames, Branches
<1>9. i.w + 2 \in Int /\ i.w + 2 \in S
  BY <1>1
<1>10. <<"bb", i.w + 2>> \in T
  BY <1>9 DEF T, BlockLabels
<1>11. Text(c1, {}, T)
  BY <1>7, <1>8, <1>9, <1>10, TextThen, Zenon
<1>. HIDE DEF c1
<1>. QED
  BY <1>3, <1>11, PieceLeaves DEF T

LEMMA PieceInstr ==
  ASSUME NEW i \in IrInstr, NEW f, f.slots \in Nat, NEW k \in Nat, NEW S, NextBlocks(i) \subseteq S
  PROVE  Piece(EmitInstr(i, f, k), k, S)
<1>1. CASE i.op \in {"CONST", "COPY", "TRUNC", "BITCAST", "ADD", "SUB", "NEG", "NOT", "ADDR_OF", "LOAD",
                     "STORE", "GEP", "ZEXT", "SEXT", "RET", "CALL"}
  <2>1. i.op \notin Comparisons
    BY <1>1 DEF Comparisons, BranchOf
  <2>2. EmitInstr(i, f, k) \in Calm
    BY <1>1, <2>1, CalmMoved, CalmAdd, CalmAddrOf, CalmAccess, CalmGep, CalmExtend, CalmRest DEF EmitInstr
  <2>. QED
    BY <2>2, PieceCalm
<1>2. CASE i.op \in {"AND", "XOR", "OR", "SHRU", "SHRS"}
  <2>1. i.op \notin Comparisons
    BY <1>2 DEF Comparisons, BranchOf
  <2>2. i.op \in {"AND", "XOR"} => i.op \in Arithmetic
    BY DEF Arithmetic
  <2>3. "SRL" \in Arithmetic /\ "SRA" \in Arithmetic
    BY DEF Arithmetic
  <2>4. CASE i.op \in {"AND", "XOR"}
    <3>0. i.op \notin {"CONST", "COPY", "TRUNC", "BITCAST", "ADD", "SUB", "OR", "NEG", "NOT", "SHL", "SHRU", "SHRS"}
      BY <2>4
    <3>1. EmitInstr(i, f, k) = Binary(i, {}, LAMBDA a, b : Commutative(i.op, i.d, a, b))
      BY <2>1, <2>4, <3>0, Zenon DEF EmitInstr
    <3>. QED
      BY <2>2, <2>4, <3>1, CalmBinary, PieceCalm
  <2>5. CASE i.op = "OR"
    <3>0. i.op \notin {"CONST", "COPY", "TRUNC", "BITCAST", "ADD", "SUB", "AND", "XOR", "NEG", "NOT", "SHL", "SHRU", "SHRS"}
      BY <2>5
    <3>1. EmitInstr(i, f, k) = Binary(i, {"t0"}, LAMBDA a, b : Disjunction(i.d, a, b))
      BY <2>1, <2>5, <3>0, Zenon DEF EmitInstr
    <3>. QED
      BY <2>3, <3>1, CalmBinary, PieceCalm
  <2>6. CASE i.op = "SHRU"
    <3>0. i.op \notin {"CONST", "COPY", "TRUNC", "BITCAST", "ADD", "SUB", "AND", "XOR", "OR", "NEG", "NOT", "SHL", "SHRS"}
      BY <2>6
    <3>1. EmitInstr(i, f, k) = Binary(i, {}, LAMBDA a, b : Ordered("SRL", i.d, a, b))
      BY <2>1, <2>6, <3>0, Zenon DEF EmitInstr
    <3>. QED
      BY <2>3, <3>1, CalmBinary, PieceCalm
  <2>7. CASE i.op = "SHRS"
    <3>0. i.op \notin {"CONST", "COPY", "TRUNC", "BITCAST", "ADD", "SUB", "AND", "XOR", "OR", "NEG", "NOT", "SHL", "SHRU"}
      BY <2>7
    <3>1. EmitInstr(i, f, k) = Binary(i, {}, LAMBDA a, b : Ordered("SRA", i.d, a, b))
      BY <2>1, <2>7, <3>0, Zenon DEF EmitInstr
    <3>. QED
      BY <2>3, <3>1, CalmBinary, PieceCalm
  <2>. QED
    BY <1>2, <2>4, <2>5, <2>6, <2>7
<1>3. CASE i.op \in Comparisons
  <2>. DEFINE a == FirstOf(i, {})
              b == SecondOf(i, {})
              start == a.code \o b.code
  <2>1. i.op \notin {"CONST", "COPY", "TRUNC", "BITCAST", "ADD", "SUB", "NEG", "NOT", "ADDR_OF", "LOAD",
                     "STORE", "GEP", "ZEXT", "SEXT", "RET", "CALL", "AND", "XOR", "OR", "SHRU", "SHRS",
                     "SHL", "GOTO", "BRANCH", "SWITCH"}
    BY <1>3 DEF Comparisons, BranchOf
  <2>2. EmitInstr(i, f, k) = Binary(i, {}, LAMBDA x, y : Comparison(i.op, i.d, x, y, k))
    BY <1>3, <2>1 DEF EmitInstr
  <2>3. Binary(i, {}, LAMBDA x, y : Comparison(i.op, i.d, x, y, k)) =
          start \o Comparison(i.op, i.d, a.at, b.at, k)
    BY Zenon DEF Binary, FirstOf, SecondOf
  <2>4. a.at \in Names /\ a.code \in Calm /\ b.at \in Names /\ b.code \in Calm
    BY TwoOperands DEF Put
  <2>5. i.d \in Names
    BY IrParts
  <2>. HIDE DEF a, b
  <2>6. start \in Calm
    BY <2>4, CalmJoin
  <2>. HIDE DEF start
  <2>. QED
    BY <1>3, <2>2, <2>3, <2>4, <2>5, <2>6, PieceComparison
<1>4. CASE i.op = "SHL"
  <2>1. EmitInstr(i, f, k) = ShiftLeft(i, k)
    BY <1>4 DEF EmitInstr, Comparisons, BranchOf
  <2>. QED
    BY <2>1, PieceShiftLeft
<1>5. CASE i.op \in {"GOTO", "BRANCH", "SWITCH"}
  <2>1. i.op \notin Comparisons
    BY <1>5 DEF Comparisons, BranchOf
  <2>2. CASE i.op = "GOTO"
    <3>1. EmitInstr(i, f, k) = Goto(i) /\ NextBlocks(i) = {i.w}
      BY <2>1, <2>2 DEF EmitInstr, NextBlocks
    <3>. QED
      BY <3>1, PieceGoto
  <2>3. CASE i.op = "BRANCH"
    <3>1. EmitInstr(i, f, k) = CondBranch(i) /\ NextBlocks(i) = {i.w, i.b.n}
      BY <2>1, <2>3 DEF EmitInstr, NextBlocks
    <3>. QED
      BY <3>1, PieceCondBranch
  <2>4. CASE i.op = "SWITCH"
    <3>1. EmitInstr(i, f, k) = Switch(i) /\ NextBlocks(i) = 2 .. i.w + 2
      BY <2>1, <2>4 DEF EmitInstr, NextBlocks
    <3>. QED
      BY <3>1, PieceSwitch
  <2>. QED
    BY <1>5, <2>2, <2>3, <2>4
<1>6. i.op \in IrOps
  BY DEF IrInstr
<1>. QED
  BY <1>1, <1>2, <1>3, <1>4, <1>5, <1>6 DEF IrOps

-----------------------------------------------------------------------------
(***************************************************************************)
(* Blocks and functions. No two instructions have the same number.         *)
(***************************************************************************)
LEMMA PieceIs ==
  ASSUME NEW c, NEW k, NEW S, Piece(c, k, S)
  PROVE  /\ Text(c, LabelsOf(c), TargetsOf(c)) /\ c \in Seq(Item)
         /\ LabelsOf(c) \subseteq Locals(k) /\ TargetsOf(c) \subseteq LabelsOf(c) \cup BlockLabels(S)
<1>1. PICK L \in SUBSET Locals(k) : Text(c, L, L \cup BlockLabels(S))
  BY DEF Piece
<1>2. LabelsOf(c) = L /\ TargetsOf(c) \subseteq L \cup BlockLabels(S) /\ c \in Seq(Item)
  BY <1>1 DEF Text
<1>3. Text(c, LabelsOf(c), TargetsOf(c))
  BY <1>1 DEF Text
<1>. QED
  BY <1>2, <1>3

LEMMA PieceAfter ==
  ASSUME NEW a \in Calm, NEW c, NEW k, NEW S, Piece(c, k, S) PROVE Piece(a \o c, k, S)
<1>1. PICK L \in SUBSET Locals(k) : Text(c, L, L \cup BlockLabels(S))
  BY DEF Piece
<1>2. Text(a, {}, {})
  BY TextCalm
<1>3. {} \cap L = {} /\ {} \cup L = L /\ {} \cup (L \cup BlockLabels(S)) = L \cup BlockLabels(S)
  OBVIOUS
<1>4. Text(a \o c, {} \cup L, {} \cup (L \cup BlockLabels(S)))
  BY <1>1, <1>2, <1>3, TextJoin
<1>. QED
  BY <1>3, <1>4 DEF Piece

Numbers(b) == {Span * b + k : k \in 1 .. Span - 1}
BlockLocals(b) == {"found", "done", "loop"} \X Numbers(b)

LEMMA NumbersApart ==
  ASSUME NEW b \in Nat, NEW c \in Nat, b # c PROVE Numbers(b) \cap Numbers(c) = {}
<1>1. ASSUME NEW u \in Nat, NEW v \in Nat, u < v, NEW j \in 1 .. Span - 1, NEW k \in 1 .. Span - 1
      PROVE  Span * u + j # Span * v + k
  <2>1. Span \in Nat /\ j < Span /\ k > 0 /\ j \in Nat /\ k \in Nat
    BY SpanAssumption
  <2>2. PICK d \in Nat : v = u + 1 + d
    <3>1. v - u - 1 \in Nat /\ v = u + 1 + (v - u - 1)
      BY <1>1
    <3>. QED
      BY <3>1
  <2>3. Span * v = Span * u + Span + Span * d
    BY <2>1, <2>2
  <2>4. Span * d \in Nat /\ Span * u \in Nat
    BY <2>1
  <2>. DEFINE p == Span * u
              q == Span * d
              r == Span * v
  <2>5. p \in Nat /\ q \in Nat /\ r = p + Span + q
    BY <2>3, <2>4
  <2>. HIDE DEF p, q, r
  <2>6. p + j # r + k
    BY <2>1, <2>5
  <2>. QED
    BY <2>6 DEF p, r
<1>2. b < c \/ c < b
  OBVIOUS
<1>3. ASSUME NEW n \in Numbers(b), n \in Numbers(c) PROVE FALSE
  <2>1. PICK j \in 1 .. Span - 1 : n = Span * b + j
    BY <1>3 DEF Numbers
  <2>2. PICK k \in 1 .. Span - 1 : n = Span * c + k
    BY <1>3 DEF Numbers
  <2>3. Span * b + j = Span * c + k
    BY <2>1, <2>2
  <2>. QED
    BY <1>1, <1>2, <2>3
<1>. QED
  BY <1>3

BlockPiece(c, b, S) ==
  /\ Text(c, LabelsOf(c), TargetsOf(c)) /\ c \in Seq(Item)
  /\ TargetsOf(c) \subseteq LabelsOf(c) \cup BlockLabels(S)
  /\ <<"bb", b>> \in LabelsOf(c) /\ LabelsOf(c) \subseteq {<<"bb", b>>} \cup BlockLocals(b)

LEMMA BlockIs ==
  ASSUME NEW f, WellMade(f), NEW b \in DOMAIN f.blocks
  PROVE  BlockPiece(EmitBlock(b, f), b, DOMAIN f.blocks)
<1>. DEFINE block == f.blocks[b]
            S == DOMAIN f.blocks
            segs == [k \in DOMAIN block |-> Mark(b, k) \o EmitInstr(block[k], f, Span * b + k)]
            size == Len(block)
            rest == FlattenSeq(segs)
            Ls == UNION {LabelsOf(segs[k]) : k \in 1 .. size}
            Ts == UNION {TargetsOf(segs[k]) : k \in 1 .. size}
<1>1. EmitBlock(b, f) = Label("bb", b) \o rest
  BY DEF EmitBlock
<1>2. f.blocks \in Segments(IrInstr) /\ f.slots \in Nat
  BY DEF WellMade, Segments
<1>3. b \in Nat /\ block \in Seq(IrInstr)
  BY <1>2 DEF Segments
<1>4. size \in Nat /\ size < Span /\ DOMAIN block = 1 .. size
      /\ \A k \in 1 .. size : block[k] \in IrInstr /\ NextBlocks(block[k]) \subseteq S
  BY <1>3 DEF WellMade
<1>. HIDE DEF block, size, S
<1>5. Span \in Nat /\ \A k \in 1 .. size : Span * b + k \in Nat /\ k \in 1 .. Span - 1
  BY <1>3, <1>4, SpanAssumption
<1>6. ASSUME NEW k \in 1 .. size
      PROVE  Piece(segs[k], Span * b + k, S)
  <2>. DEFINE n == Span * b + k
  <2>1. n \in Nat /\ n \in Int
    BY <1>5
  <2>. HIDE DEF n
  <2>2. <<Ins("ir", "", "", n)>> \in Calm
    <3>1. "ir" \in CalmOps /\ "" \in Names
      BY NamesAre DEF CalmOps
    <3>. QED
      BY <2>1, <3>1, CalmIns, Zenon
  <2>3. Mark(b, k) \in Calm
    BY <2>2, Zenon DEF Mark, n
  <2>4. Piece(EmitInstr(block[k], f, n), n, S)
    BY <1>2, <1>4, <2>1, PieceInstr
  <2>5. Piece(Mark(b, k) \o EmitInstr(block[k], f, n), n, S)
    BY <2>3, <2>4, PieceAfter
  <2>6. segs[k] = Mark(b, k) \o EmitInstr(block[k], f, n)
    BY <1>4 DEF n
  <2>. HIDE DEF segs
  <2>. QED
    BY <2>5, <2>6 DEF n
<1>7. DOMAIN segs = 1 .. size /\ segs = [k \in 1 .. size |-> segs[k]]
  BY <1>4
<1>. HIDE DEF segs
<1>8. ASSUME NEW k \in 1 .. size
      PROVE  /\ Text(segs[k], LabelsOf(segs[k]), TargetsOf(segs[k])) /\ segs[k] \in Seq(Item)
             /\ LabelsOf(segs[k]) \subseteq Locals(Span * b + k)
             /\ TargetsOf(segs[k]) \subseteq LabelsOf(segs[k]) \cup BlockLabels(S)
  BY <1>6, PieceIs
<1>9. \A j, k \in 1 .. size : j # k => LabelsOf(segs[j]) \cap LabelsOf(segs[k]) = {}
  <2>. TAKE j, k \in 1 .. size
  <2>. HAVE j # k
  <2>. DEFINE u == Span * b
  <2>0. u \in Int
    BY <1>3, <1>5
  <2>. HIDE DEF u
  <2>1. u + j # u + k
    BY <2>0
  <2>2. Locals(Span * b + j) \cap Locals(Span * b + k) = {}
    BY <2>1 DEF Locals, u
  <2>. QED
    BY <1>8, <2>2
<1>10. Text(rest, Ls, Ts)
  <2>1. segs \in [1 .. size -> Seq(Item)]
    BY <1>7, <1>8
  <2>. QED
    BY <1>4, <1>8, <1>9, <2>1, TextFlat
<1>11. Ls \subseteq BlockLocals(b)
  <2>1. \A k \in 1 .. size : Locals(Span * b + k) \subseteq BlockLocals(b)
    BY <1>5 DEF Locals, BlockLocals, Numbers
  <2>. QED
    BY <1>8, <2>1
<1>12. Ts \subseteq Ls \cup BlockLabels(S)
  BY <1>8
<1>. HIDE DEF rest, Ls, Ts
<1>. DEFINE c == Label("bb", b) \o rest
            Lb == {<<"bb", b>>}
<1>13. Text(Label("bb", b), Lb, {})
  <2>1. "bb" \in OwnNames /\ b \in Int
    BY <1>3 DEF OwnNames
  <2>. QED
    BY <2>1, TextLabel
<1>14. Lb \cap Ls = {}
  BY <1>11 DEF BlockLocals
<1>15. Text(c, Lb \cup Ls, {} \cup Ts)
  BY <1>10, <1>13, <1>14, TextJoin
<1>. HIDE DEF c
<1>16. LabelsOf(c) = Lb \cup Ls /\ TargetsOf(c) \subseteq Ts /\ c \in Seq(Item)
       /\ Text(c, LabelsOf(c), TargetsOf(c))
  BY <1>15 DEF Text
<1>17. BlockPiece(c, b, S)
  BY <1>11, <1>12, <1>16 DEF BlockPiece
<1>. QED
  BY <1>1, <1>17 DEF c, S

\* EmitFunction: whatever well-made function is emitted, every label of the text is
\* defined once, every branch names one of them, and no jump is long.
THEOREM EmissionSound ==
  ASSUME NEW f, WellMade(f) PROVE Emitted(EmitFunction(f))
<1>. DEFINE S == DOMAIN f.blocks
            size == Len(f.blocks)
            segs == [b \in S |-> EmitBlock(b, f)]
            start == Prologue(f)
            rest == FlattenSeq(segs)
            Ls == UNION {LabelsOf(segs[b]) : b \in 1 .. size}
            Ts == UNION {TargetsOf(segs[b]) : b \in 1 .. size}
<1>1. EmitFunction(f) = start \o rest
  BY DEF EmitFunction
<1>2. f.blocks \in Segments(IrInstr) /\ f.slots \in Nat /\ f.params \in Nat
  BY DEF WellMade, Segments
<1>3. size \in Nat /\ S = 1 .. size
  BY <1>2 DEF Segments
<1>4. start \in Calm
  BY <1>2, CalmPrologue
<1>5. DOMAIN segs = 1 .. size /\ segs = [b \in 1 .. size |-> segs[b]]
  BY <1>3
<1>6. ASSUME NEW b \in 1 .. size PROVE BlockPiece(segs[b], b, S)
  BY <1>3, BlockIs
<1>. HIDE DEF S, size, segs, start
<1>7. Text(rest, Ls, Ts)
  <2>1. \A b \in 1 .. size : Text(segs[b], LabelsOf(segs[b]), TargetsOf(segs[b])) /\ segs[b] \in Seq(Item)
    BY <1>6 DEF BlockPiece
  <2>2. segs \in [1 .. size -> Seq(Item)]
    BY <1>5, <2>1
  <2>3. \A a, b \in 1 .. size : a # b => LabelsOf(segs[a]) \cap LabelsOf(segs[b]) = {}
    <3>. TAKE a, b \in 1 .. size
    <3>. HAVE a # b
    <3>1. Numbers(a) \cap Numbers(b) = {}
      BY NumbersApart
    <3>2. BlockLocals(a) \cap BlockLocals(b) = {}
      BY <3>1 DEF BlockLocals
    <3>3. <<"bb", a>> \notin BlockLocals(b) /\ <<"bb", b>> \notin BlockLocals(a) /\ <<"bb", a>> # <<"bb", b>>
      BY DEF BlockLocals
    <3>4. LabelsOf(segs[a]) \subseteq {<<"bb", a>>} \cup BlockLocals(a)
          /\ LabelsOf(segs[b]) \subseteq {<<"bb", b>>} \cup BlockLocals(b)
      BY <1>6 DEF BlockPiece
    <3>. QED
      BY <3>2, <3>3, <3>4
  <2>. QED
    BY <1>3, <2>1, <2>2, <2>3, TextFlat
<1>8. BlockLabels(S) \subseteq Ls
  BY <1>3, <1>6 DEF BlockPiece, BlockLabels
<1>9. Ts \subseteq Ls
  <2>1. \A b \in 1 .. size : TargetsOf(segs[b]) \subseteq LabelsOf(segs[b]) \cup BlockLabels(S)
    BY <1>6 DEF BlockPiece
  <2>2. Ts \subseteq Ls \cup BlockLabels(S)
    BY <2>1
  <2>. QED
    BY <1>8, <2>2
<1>. HIDE DEF Ls, Ts, rest
<1>10. Text(start \o rest, {} \cup Ls, {} \cup Ts)
  <2>1. Text(start, {}, {}) /\ {} \cap Ls = {}
    BY <1>4, TextCalm
  <2>. QED
    BY <1>7, <2>1, TextJoin
<1>11. Emitted(start \o rest)
  <2>1. {} \cup Ts \subseteq {} \cup Ls
    BY <1>9
  <2>. QED
    BY <1>10, <2>1 DEF Text, Emitted
<1>. QED
  BY <1>1, <1>11

-----------------------------------------------------------------------------
(***************************************************************************)
(* From the emission on.                                                   *)
(***************************************************************************)
LEMMA EmittedSound ==
  ASSUME NEW c, Emitted(c)
  PROVE  Sound(c, 0) /\ Own(c, {"JAL"}) = {}
<1>1. \A k \in DOMAIN c : c[k].op \in Branches \cup {"label"} => c[k].x \in OwnNames
  BY DEF Emitted
<1>2. Trampolines(c)
  BY <1>1 DEF Trampolines, OwnNames
<1>3. Own(c, {"JAL"}) = {}
  BY DEF Emitted, Own
<1>. QED
  BY <1>1, <1>2, <1>3 DEF Emitted, Sound

LEMMA InitKept == Init => Kept
<1>. SUFFICES ASSUME Init PROVE Kept
  OBVIOUS
<1>1. fn \in Functions /\ code = EmitFunction(fn) /\ round = 0 /\ ids = 0 /\ status = "relaxing"
  BY DEF Init
<1>2. Sound(code, ids) /\ Own(code, {"JAL"}) = {}
  <2>1. Emitted(EmitFunction(fn))
    BY <1>1, WellMadeAssumption, EmissionSound
  <2>. QED
    BY <1>1, <2>1, EmittedSound
<1>3. Cardinality(Own(code, {"JAL"})) = 0
  BY <1>2, FS_EmptySet
<1>4. Cardinality(Own(code, Branches)) \in Nat
  BY <1>2, OwnFinite DEF Sound
<1>5. Cardinality(Own(code, Branches)) = Cardinality(Own(EmitFunction(fn), Branches))
  BY <1>1
<1>6. round <= Cardinality(Own(code, {"JAL"})) /\ round \in 0 .. Rounds
  BY <1>1, <1>3, RoundsAssumption
<1>. DEFINE u == Cardinality(Own(code, Branches))
            v == Cardinality(Own(code, {"JAL"}))
            w == Cardinality(Own(EmitFunction(fn), Branches))
<1>7. u \in Nat /\ v = 0 /\ u = w
  BY <1>3, <1>4, <1>5
<1>. HIDE DEF u, v, w
<1>8. u + v = w
  BY <1>7
<1>. QED
  BY <1>1, <1>2, <1>6, <1>8 DEF Kept, RefusedAtTheCap, u, v, w

LEMMA NextKept == Kept /\ [Next]_vars => Kept'
<1>. SUFFICES ASSUME Kept, [Next]_vars PROVE Kept'
  OBVIOUS
<1>1. CASE Relax
  <2>. DEFINE far == Far(code)
              d == Rewritten(code, far, ids)
  <2>1. /\ status = "relaxing" /\ round < Rounds /\ far # {}
        /\ code' = d /\ ids' = ids + Cardinality(Conditional(code, far))
        /\ round' = round + 1 /\ fn' = fn /\ status' = status
    BY <1>1 DEF Relax, Relaxable
  <2>2. Sound(code, ids) /\ fn \in Functions /\ round \in 0 .. Rounds
    BY DEF Kept
  <2>3. Sound(d, ids + Cardinality(Conditional(code, far)))
    BY <2>2, SoundKept
  <2>4. (Sound(code, ids))'
    BY <2>1, <2>3
  <2>. DEFINE b == Cardinality(Own(code, Branches))
              l == Cardinality(Own(code, {"JAL"}))
              b1 == Cardinality(Own(d, Branches))
              l1 == Cardinality(Own(d, {"JAL"}))
              e == Cardinality(Own(EmitFunction(fn), Branches))
  <2>5. b1 + l1 = b + l /\ l1 >= l + 1
    BY <2>1, <2>2, Counted
  <2>6. b + l = e /\ round <= l
    BY DEF Kept
  <2>7. l \in Nat /\ l1 \in Nat
    BY <2>2, <2>3, OwnFinite DEF Sound
  <2>8. /\ (Cardinality(Own(code, Branches)))' = b1 /\ (Cardinality(Own(code, {"JAL"})))' = l1
        /\ (Cardinality(Own(EmitFunction(fn), Branches)))' = e
    BY <2>1 DEF Own
  <2>. HIDE DEF b, l, b1, l1, e, far, d
  <2>9. b1 + l1 = e /\ round' <= l1 /\ round' \in 0 .. Rounds
    BY <2>1, <2>2, <2>5, <2>6, <2>7, RoundsAssumption
  <2>. QED
    BY <2>1, <2>2, <2>4, <2>8, <2>9 DEF Kept, RefusedAtTheCap
<1>2. CASE Assemble
  <2>1. /\ status = "relaxing" /\ ~Relaxable
        /\ status' = IF OutOfRange(code) = {} THEN "running" ELSE "refused"
        /\ UNCHANGED <<fn, code, round, ids>>
    BY <1>2 DEF Assemble
  <2>2. Sound(code, ids) /\ round \in 0 .. Rounds
    BY DEF Kept
  <2>3. status' = "refused" => round = Rounds
    <3>. SUFFICES ASSUME status' = "refused" PROVE round = Rounds
      OBVIOUS
    <3>1. Far(code) # {}
      BY <2>1, <2>2, NearFits
    <3>. QED
      BY <2>1, <2>2, <3>1, RoundsAssumption DEF Relaxable
  <2>4. /\ fn' = fn /\ code' = code /\ round' = round /\ ids' = ids
        /\ status' \in {"running", "refused"}
    BY <2>1
  <2>. QED
    BY <2>3, <2>4 DEF Kept, RefusedAtTheCap, Own
<1>3. CASE UNCHANGED <<fn, code, round, ids>> /\ status' \in {status, "returned"}
  <2>1. fn' = fn /\ code' = code /\ round' = round /\ ids' = ids
    BY <1>3
  <2>. QED
    BY <1>3, <2>1 DEF Kept, RefusedAtTheCap, Own
<1>4. ASSUME Next, ~Relax, ~Assemble
      PROVE  UNCHANGED <<fn, code, round, ids>> /\ status' \in {status, "returned"}
  <2>1. \A k, machine : Goes(k, machine) => UNCHANGED <<fn, code, round, ids>> /\ status' = status
    BY DEF Goes
  <2>2. Compute => UNCHANGED <<fn, code, round, ids>> /\ status' = status
    BY <2>1 DEF Compute
  <2>3. Read \/ Write \/ Compare \/ Prefix => UNCHANGED <<fn, code, round, ids>> /\ status' = status
    BY <2>1 DEF Read, Write, Compare, Prefix
  <2>4. Branch \/ Jump \/ Calling \/ Pass => UNCHANGED <<fn, code, round, ids>> /\ status' = status
    BY <2>1 DEF Branch, Jump, Calling, Pass
  <2>5. Follow => UNCHANGED <<fn, code, round, ids>> /\ status' = status
    BY DEF Follow
  <2>6. Returning => UNCHANGED <<fn, code, round, ids>> /\ status' = "returned"
    BY DEF Returning
  <2>. QED
    BY <1>4, <2>2, <2>3, <2>4, <2>5, <2>6 DEF Next
<1>5. CASE UNCHANGED vars
  BY <1>3, <1>5 DEF vars
<1>. QED
  BY <1>1, <1>2, <1>3, <1>4, <1>5

\* Branch relaxation ends by itself, and what it leaves is in reach unless it
\* was cut off.
THEOREM RelaxationCorrect == Spec => []RelaxationEnds
<1>1. Kept => RelaxationEnds
  BY DEF Kept, RelaxationEnds, Settles
<1>. QED
  BY <1>1, InitKept, NextKept, PTL DEF Spec
=============================================================================
