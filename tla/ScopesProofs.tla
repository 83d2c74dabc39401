---------------------------- MODULE ScopesProofs ----------------------------
(***************************************************************************)
(* Names and their storage, for every unit: the scope stack of both passes *)
(* is that of the tree, a use is bound as in C, what it addresses is what  *)
(* its declaration got, and variables of different names are kept apart.   *)
(***************************************************************************)
EXTENDS Scopes, WellFoundedInduction, TLAPS

-----------------------------------------------------------------------------
(***************************************************************************)
(* Numbers: the form of induction the proofs use, and Max.                 *)
(***************************************************************************)
Smaller == {p \in Nat \X Nat : p[1] < p[2]}

LEMMA LeastNumber ==
  ASSUME NEW S \in SUBSET Nat, S # {}
  PROVE  \E least \in S : \A n \in S : least <= n
<1>1. IsWellFoundedOn(Smaller, Nat)
  BY NatLessThanWellFounded DEF OpToRel, Smaller
<1>2. \E least \in S : \A n \in S : ~(<<n, least>> \in Smaller)
  BY <1>1, WFMin
<1>3. \A m, n \in Nat : <<m, n>> \in Smaller <=> m < n
  BY DEF Smaller
<1>4. \A m, n \in Nat : ~(m < n) => n <= m
  OBVIOUS
<1>. QED
  BY <1>2, <1>3, <1>4

LEMMA MaxIs ==
  ASSUME NEW S \in SUBSET Nat, S # {}, NEW b \in Nat, \A x \in S : x <= b
  PROVE  Max(S) \in S /\ \A x \in S : x <= Max(S)
<1>. DEFINE T == {b - x : x \in S}
<1>1. T \in SUBSET Nat /\ T # {}
  <2>1. \A x \in S : b - x \in Nat
    OBVIOUS
  <2>2. PICK x \in S : TRUE
    OBVIOUS
  <2>3. b - x \in T
    OBVIOUS
  <2>. QED
    BY <2>1, <2>3
<1>2. PICK least \in T : \A n \in T : least <= n
  <2>. HIDE DEF T
  <2>. QED
    BY <1>1, LeastNumber
<1>3. PICK m \in S : least = b - m
  BY <1>2
<1>4. \A x \in S : m >= x
  BY <1>2, <1>3
<1>5. \E x \in S : \A y \in S : x >= y
  BY <1>4
<1>6. Max(S) \in S /\ \A y \in S : Max(S) >= y
  BY <1>5 DEF Max
<1>. QED
  BY <1>6

-----------------------------------------------------------------------------
(***************************************************************************)
(* The tree of the unit.                                                   *)
(***************************************************************************)
Tree == prog \in Programs /\ ends = Ends(prog) /\ up = Parents(prog, ends)

Nodes == [t : Kinds, n : STRING, w : Nat]
Inside(i, k) == k \in DOMAIN ends /\ k < i /\ i < ends[k]

LEMMA TreeFacts ==
  ASSUME Tree
  PROVE  /\ prog \in Seq(Nodes) /\ Len(prog) \in Nat /\ Places \subseteq Nat /\ 0 \notin Places
         /\ \A i \in Places : prog[i] \in Nodes
         /\ \A i : i \in DOMAIN ends <=> Is(i, Opens)
         /\ DOMAIN ends \subseteq Places
         /\ \A k \in DOMAIN ends :
              ends[k] \in Places /\ k < ends[k] /\ Is(ends[k], {"end"}) /\ ends[k] \notin DOMAIN ends
         /\ \A j, k \in DOMAIN ends : j < k => ends[j] < k \/ ends[k] < ends[j]
         /\ \A i \in Places : Is(i, {"end"}) => \E k \in DOMAIN ends : ends[k] = i
<1>1. prog \in Seq(Nodes) /\ Shaped(prog) /\ ends = Ends(prog) /\ up = Parents(prog, ends)
  BY UnitsAssumption DEF Tree, Nodes
<1>2. /\ Len(prog) \in Nat /\ Places \subseteq Nat /\ 0 \notin Places
      /\ \A i \in Places : prog[i] \in Nodes
  BY <1>1 DEF Places
<1>3. \A i : i \in DOMAIN ends <=> Is(i, Opens)
  BY <1>1 DEF Ends, Is, Kind
<1>4. DOMAIN ends \subseteq Places
  BY <1>1 DEF Ends, Places
<1>5. \A k \in DOMAIN ends : ends[k] \in k + 1 .. Len(prog) /\ prog[ends[k]].t = "end"
  BY <1>1 DEF Shaped
<1>6. ASSUME NEW k \in DOMAIN ends
      PROVE  ends[k] \in Places /\ k < ends[k] /\ Is(ends[k], {"end"}) /\ ends[k] \notin DOMAIN ends
  <2>1. ends[k] \in Places /\ k < ends[k] /\ Is(ends[k], {"end"})
    BY <1>2, <1>4, <1>5 DEF Places, Is, Kind
  <2>. QED
    BY <1>3, <2>1 DEF Is, Kind, Opens
<1>7. \A j, k \in DOMAIN ends : j < k => ends[j] < k \/ ends[k] < ends[j]
  BY <1>1 DEF Shaped
<1>8. \A i \in Places : Is(i, {"end"}) => \E k \in DOMAIN ends : ends[k] = i
  BY <1>1 DEF Shaped, Is, Kind, Places
<1>. QED
  BY <1>1, <1>2, <1>3, <1>4, <1>6, <1>7, <1>8

\* A node is directly in the last of the nodes around it.
LEMMA EnclIs ==
  ASSUME Tree, NEW i \in Places
  PROVE  /\ Encl(i) \in Nat
         /\ Encl(i) = 0 \/ Inside(i, Encl(i))
         /\ \A k : Inside(i, k) => k <= Encl(i)
<1>. DEFINE S == {0} \cup {k \in 1 .. i - 1 : k \in DOMAIN ends /\ ends[k] > i}
<1>1. Encl(i) = Max(S)
  BY DEF Tree, Encl, Parents, Places
<1>2. i \in Nat /\ S \in SUBSET Nat /\ S # {} /\ \A x \in S : x <= i
  BY TreeFacts
<1>3. Max(S) \in S /\ \A x \in S : x <= Max(S)
  <2>. HIDE DEF S
  <2>. QED
    BY <1>2, MaxIs
<1>4. \A k : Inside(i, k) => k \in S
  BY <1>2, TreeFacts DEF Inside, Places
<1>5. \A k \in S : k = 0 \/ Inside(i, k)
  BY <1>2, TreeFacts DEF Inside
<1>. QED
  BY <1>1, <1>2, <1>3, <1>4, <1>5

\* What may be in what.
LEMMA ShapeFacts ==
  ASSUME Tree, NEW i \in Places
  PROVE  /\ Is(i, {"fun", "proto"}) => Encl(i) = 0
         /\ Is(i, {"obj", "enum"}) => Encl(i) = 0 \/ Is(Encl(i), {"block", "for", "switch"})
         /\ Is(i, {"param"}) => Is(Encl(i), {"fun", "proto"})
         /\ Is(i, {"block"}) => Is(Encl(i), {"fun", "block", "for", "switch"})
         /\ Is(i, {"for", "switch", "use", "null"}) => Is(Encl(i), {"block", "for", "switch"})
<1>1. Shaped(prog) /\ ends = Ends(prog) /\ up = Parents(prog, ends)
  BY UnitsAssumption DEF Tree
<1>2. i \in 1 .. Len(prog)
  BY DEF Places
<1>. DEFINE Those(ts) == {k \in DOMAIN ends : prog[k].t \in ts}
<1>3. ASSUME NEW k, NEW ts, k \in Those(ts) PROVE Is(k, ts)
  BY <1>3, TreeFacts DEF Is, Kind, Places
<1>4. /\ prog[i].t \in {"fun", "proto"} => up[i] = 0
      /\ prog[i].t \in {"obj", "enum"} => up[i] \in {0} \cup Those({"block", "for", "switch"})
      /\ prog[i].t = "param" => up[i] \in Those({"fun", "proto"})
      /\ prog[i].t = "block" => up[i] \in Those({"fun", "block", "for", "switch"})
      /\ prog[i].t \in {"for", "switch", "use", "null"} =>
           up[i] \in Those({"block", "for", "switch"})
  BY <1>1, <1>2 DEF Shaped
<1>. HIDE DEF Those
<1>. QED
  BY <1>3, <1>4 DEF Is, Kind, Encl

\* Of two nodes around a third the later is in the earlier.
LEMMA Nested ==
  ASSUME Tree, NEW i \in Nat, NEW j, NEW k, Inside(i, j), Inside(i, k), j < k
  PROVE  Inside(k, j) /\ ends[k] < ends[j]
<1>1. j \in Nat /\ k \in Nat /\ ends[j] \in Nat /\ ends[k] \in Nat /\ k < ends[k]
  BY TreeFacts DEF Inside
<1>. QED
  BY <1>1, TreeFacts DEF Inside

\* Being inside is transitive.
LEMMA InsideOf ==
  ASSUME Tree, NEW i \in Nat, NEW j, NEW k, Inside(i, k), Inside(k, j)
  PROVE  Inside(i, j)
<1>1. j \in Nat /\ k \in Nat /\ ends[j] \in Nat /\ ends[k] \in Nat /\ k < ends[k]
  BY TreeFacts DEF Inside
<1>. QED
  BY <1>1, TreeFacts DEF Inside

-----------------------------------------------------------------------------
(***************************************************************************)
(* The scopes that are open when a walk comes to i, a switch being none.    *)
(***************************************************************************)
OpenScopes(i) == {0} \cup {k \in DOMAIN ends : ~Is(k, {"switch"}) /\ k < i /\ i <= ends[k]}
\* Where a declaration at i is entered.
ScopeOf(i) == Max(OpenScopes(i))

LEMMA ScopeIs ==
  ASSUME Tree, NEW i \in Nat
  PROVE  /\ OpenScopes(i) \in SUBSET Nat /\ 0 \in OpenScopes(i)
         /\ ScopeOf(i) \in OpenScopes(i) /\ ScopeOf(i) \in Nat
         /\ \A k \in OpenScopes(i) : k <= ScopeOf(i) /\ (k = 0 \/ k < i)
<1>1. /\ OpenScopes(i) \in SUBSET Nat /\ 0 \in OpenScopes(i)
      /\ \A k \in OpenScopes(i) : k <= i /\ (k = 0 \/ k < i)
  BY TreeFacts DEF OpenScopes
<1>2. ScopeOf(i) \in OpenScopes(i) /\ \A k \in OpenScopes(i) : k <= ScopeOf(i)
  <2>. HIDE DEF OpenScopes
  <2>. QED
    BY <1>1, MaxIs DEF ScopeOf
<1>. QED
  BY <1>1, <1>2

\* Nothing is open at either end of the unit.
LEMMA OpenAtEnds ==
  ASSUME Tree PROVE OpenScopes(1) = {0} /\ OpenScopes(Len(prog) + 1) = {0}
BY TreeFacts DEF OpenScopes, Places

\* The walk comes to a node that is no scope, ...
LEMMA OpenPast ==
  ASSUME Tree, NEW i \in Places, ~Is(i, {"end"}), ~Is(i, Opens \ {"switch"})
  PROVE  OpenScopes(i + 1) = OpenScopes(i)
<1>. SUFFICES ASSUME NEW k \in DOMAIN ends, ~Is(k, {"switch"})
              PROVE  k < i + 1 /\ i + 1 <= ends[k] <=> k < i /\ i <= ends[k]
  BY DEF OpenScopes
<1>1. k \in Nat /\ i \in Nat /\ ends[k] \in Nat /\ Is(k, Opens) /\ ends[k] # i
  BY TreeFacts
<1>2. k # i
  BY <1>1 DEF Is, Kind
<1>. QED
  BY <1>1, <1>2

\* ... to one that is, ...
LEMMA OpenInto ==
  ASSUME Tree, NEW i \in Places, Is(i, Opens \ {"switch"})
  PROVE  OpenScopes(i + 1) = OpenScopes(i) \cup {i} /\ i \notin OpenScopes(i)
<1>1. i \in DOMAIN ends /\ ~Is(i, {"switch"}) /\ ~Is(i, {"end"}) /\ i \in Nat
  BY TreeFacts DEF Is, Kind, Opens
<1>2. ASSUME NEW k \in DOMAIN ends
      PROVE  k < i + 1 /\ i + 1 <= ends[k] <=> (k < i /\ i <= ends[k]) \/ k = i
  <2>1. k \in Nat /\ ends[k] \in Nat /\ k < ends[k] /\ ends[k] # i
    BY <1>1, TreeFacts
  <2>. QED
    BY <1>1, <2>1
<1>3. \A k : k \in OpenScopes(i + 1) <=> k \in OpenScopes(i) \/ k = i
  BY <1>1, <1>2 DEF OpenScopes
<1>4. i \notin OpenScopes(i)
  <2>1. i # 0
    BY TreeFacts
  <2>. QED
    BY <1>1, <2>1, ScopeIs
<1>. QED
  BY <1>3, <1>4

\* ... or to the end of one, which is then the innermost.
LEMMA OpenOut ==
  ASSUME Tree, NEW i \in Places, Is(i, {"end"})
  PROVE  /\ Opener(i) \in DOMAIN ends /\ ends[Opener(i)] = i /\ Opener(i) \in Nat
         /\ Is(Opener(i), {"switch"}) => OpenScopes(i + 1) = OpenScopes(i)
         /\ ~Is(Opener(i), {"switch"}) =>
              /\ OpenScopes(i + 1) = OpenScopes(i) \ {Opener(i)}
              /\ Opener(i) \in OpenScopes(i) /\ Opener(i) = ScopeOf(i) /\ Opener(i) > 0
<1>. DEFINE k == Opener(i)
<1>1. k \in DOMAIN ends /\ ends[k] = i
  BY TreeFacts DEF Opener, Close
<1>2. i \in Nat /\ k \in Nat /\ k > 0 /\ k < i /\ i \notin DOMAIN ends
  BY <1>1, TreeFacts DEF Places
<1>3. ASSUME NEW m \in DOMAIN ends
      PROVE  m < i + 1 /\ i + 1 <= ends[m] <=> m < i /\ i <= ends[m] /\ m # k
  <2>1. m \in Nat /\ ends[m] \in Nat /\ m # i
    BY <1>2, TreeFacts
  <2>2. m # k => ends[m] # i
    BY <1>1, <1>2, <2>1, TreeFacts
  <2>. QED
    BY <1>1, <1>2, <2>1, <2>2
<1>4. ASSUME NEW m \in DOMAIN ends, m < i, i <= ends[m] PROVE m <= k
  <2>1. m \in Nat /\ ends[m] \in Nat
    BY TreeFacts
  <2>2. CASE k < m
    BY <1>1, <1>2, <1>4, <2>1, <2>2, TreeFacts
  <2>. QED
    BY <1>2, <2>1, <2>2
<1>. HIDE DEF k
<1>5. \A m : m \in OpenScopes(i + 1) <=>
               m = 0 \/ (m \in DOMAIN ends /\ ~Is(m, {"switch"}) /\ m < i /\ i <= ends[m] /\ m # k)
  BY <1>3 DEF OpenScopes
<1>6. CASE Is(k, {"switch"})
  <2>1. \A m : m \in OpenScopes(i) <=>
                 m = 0 \/ (m \in DOMAIN ends /\ ~Is(m, {"switch"}) /\ m < i /\ i <= ends[m] /\ m # k)
    BY <1>6 DEF OpenScopes
  <2>. QED
    BY <1>1, <1>2, <1>5, <1>6, <2>1 DEF k
<1>7. CASE ~Is(k, {"switch"})
  <2>1. k \in OpenScopes(i) /\ \A m \in OpenScopes(i) : m <= k
    BY <1>1, <1>2, <1>4, <1>7 DEF OpenScopes
  <2>2. ScopeOf(i) = k
    <3>1. ScopeOf(i) \in Nat /\ ScopeOf(i) <= k /\ k <= ScopeOf(i)
      BY <1>2, <2>1, ScopeIs
    <3>. QED
      BY <1>2, <3>1
  <2>3. \A m : m \in OpenScopes(i + 1) <=> m \in OpenScopes(i) /\ m # k
    BY <1>2, <1>5 DEF OpenScopes
  <2>4. OpenScopes(i + 1) = OpenScopes(i) \ {k}
    BY <2>3
  <2>. QED
    BY <1>1, <1>2, <1>7, <2>1, <2>2, <2>4 DEF k
<1>. QED
  BY <1>6, <1>7

-----------------------------------------------------------------------------
(***************************************************************************)
(* The scope stack sc when the walk comes to i: own names the node each of *)
(* its scopes belongs to.                                                  *)
(***************************************************************************)
Classes == {"parameter", "global", "stack", "none"}
Symbols == [at : Nat, class : Classes, defined : BOOLEAN]
Names == {prog[i].n : i \in Places}
Tables == UNION {[D -> Symbols] : D \in SUBSET Names}

OwnedBy(own, sc, i) ==
  /\ own \in Seq(Nat) /\ sc \in Seq(Tables) /\ Len(own) = Len(sc)
  /\ \A j, k \in 1 .. Len(own) : j < k => own[j] < own[k]
  /\ \A s : s \in OpenScopes(i) <=> \E j \in 1 .. Len(own) : own[j] = s

LEMMA OwnTop ==
  ASSUME Tree, NEW i \in Nat, NEW own, NEW sc, OwnedBy(own, sc, i)
  PROVE  /\ Len(sc) \in Nat /\ Len(sc) >= 1 /\ own[Len(sc)] = ScopeOf(i) /\ own[1] = 0
         /\ \A j \in 1 .. Len(sc) : own[j] \in Nat /\ (j = 1 <=> own[j] = 0)
<1>1. Len(own) = Len(sc) /\ Len(sc) \in Nat /\ \A j \in 1 .. Len(own) : own[j] \in Nat
  BY DEF OwnedBy
<1>2. PICK z \in 1 .. Len(own) : own[z] = 0
  BY ScopeIs DEF OwnedBy
<1>3. PICK top \in 1 .. Len(own) : own[top] = ScopeOf(i)
  BY ScopeIs DEF OwnedBy
<1>4. z = 1
  <2>1. ASSUME z # 1 PROVE FALSE
    <3>1. 1 \in 1 .. Len(own) /\ 1 < z
      BY <1>1, <1>2, <2>1
    <3>. QED
      BY <1>1, <1>2, <3>1 DEF OwnedBy
  <2>. QED
    BY <2>1
<1>5. top = Len(own)
  <2>1. ASSUME top # Len(own) PROVE FALSE
    <3>1. Len(own) \in 1 .. Len(own) /\ top < Len(own)
      BY <1>1, <1>3, <2>1
    <3>2. own[top] < own[Len(own)] /\ own[Len(own)] \in OpenScopes(i)
      BY <3>1 DEF OwnedBy
    <3>3. own[Len(own)] <= ScopeOf(i) /\ own[Len(own)] \in Nat /\ ScopeOf(i) \in Nat
      BY <1>1, <3>1, <3>2, ScopeIs
    <3>. QED
      BY <1>3, <3>2, <3>3
  <2>. QED
    BY <2>1
<1>6. \A j \in 1 .. Len(own) : j # 1 => own[j] # 0
  <2>. SUFFICES ASSUME NEW j \in 1 .. Len(own), j # 1 PROVE own[j] # 0
    OBVIOUS
  <2>1. 1 < j /\ 1 \in 1 .. Len(own)
    BY <1>1
  <2>. QED
    BY <1>1, <1>2, <1>4, <2>1 DEF OwnedBy
<1>. QED
  BY <1>1, <1>2, <1>3, <1>4, <1>5, <1>6

LEMMA OwnPast ==
  ASSUME NEW own, NEW sc, NEW i, OwnedBy(own, sc, i), OpenScopes(i + 1) = OpenScopes(i),
         NEW new \in Seq(Tables), Len(new) = Len(sc)
  PROVE  OwnedBy(own, new, i + 1)
BY DEF OwnedBy

LEMMA OwnInto ==
  ASSUME Tree, NEW i \in Places, Is(i, Opens \ {"switch"}), NEW own, NEW sc, OwnedBy(own, sc, i),
         NEW new \in Seq(Tables), Len(new) = Len(sc)
  PROVE  OwnedBy(Append(own, i), Append(new, <<>>), i + 1)
<1>. DEFINE o == Append(own, i)
            n == Len(own)
<1>1. own \in Seq(Nat) /\ sc \in Seq(Tables) /\ n = Len(sc) /\ n \in Nat /\ i \in Nat
  BY TreeFacts DEF OwnedBy
<1>2. /\ o \in Seq(Nat) /\ Len(o) = n + 1 /\ o[n + 1] = i
      /\ \A j \in 1 .. n : o[j] = own[j] /\ own[j] \in Nat
  BY <1>1
<1>3. <<>> \in Tables
  <2>1. <<>> \in [{} -> Symbols]
    OBVIOUS
  <2>. QED
    BY <2>1 DEF Tables
<1>4. Append(new, <<>>) \in Seq(Tables) /\ Len(Append(new, <<>>)) = n + 1
  BY <1>1, <1>3
<1>5. \A j \in 1 .. n : own[j] < i
  <2>. SUFFICES ASSUME NEW j \in 1 .. n PROVE own[j] < i
    OBVIOUS
  <2>1. own[j] \in OpenScopes(i)
    BY DEF OwnedBy
  <2>2. own[j] = 0 \/ own[j] < i
    BY <1>1, <2>1, ScopeIs
  <2>. QED
    BY <1>1, <2>2, TreeFacts DEF Places
<1>. HIDE DEF o
<1>6. \A j, k \in 1 .. n + 1 : j < k => o[j] < o[k]
  <2>. SUFFICES ASSUME NEW j \in 1 .. n + 1, NEW k \in 1 .. n + 1, j < k PROVE o[j] < o[k]
    OBVIOUS
  <2>1. j \in 1 .. n /\ (k \in 1 .. n \/ k = n + 1)
    BY <1>1
  <2>2. CASE k \in 1 .. n
    BY <1>2, <2>1, <2>2 DEF OwnedBy
  <2>3. CASE k = n + 1
    BY <1>2, <1>5, <2>1, <2>3
  <2>. QED
    BY <2>1, <2>2, <2>3
<1>7. \A s : s \in OpenScopes(i + 1) <=> \E j \in 1 .. n + 1 : o[j] = s
  <2>1. \A s : s \in OpenScopes(i) <=> \E j \in 1 .. n : own[j] = s
    BY DEF OwnedBy
  <2>2. \A s : (\E j \in 1 .. n + 1 : o[j] = s) <=> (\E j \in 1 .. n : own[j] = s) \/ s = i
    <3>1. n + 1 \in 1 .. n + 1 /\ \A j \in 1 .. n : j \in 1 .. n + 1
      BY <1>1
    <3>2. \A j \in 1 .. n + 1 : j \in 1 .. n \/ j = n + 1
      BY <1>1
    <3>. QED
      BY <1>2, <3>1, <3>2
  <2>. QED
    BY <2>1, <2>2, OpenInto, ZenonT(30)
<1>. QED
  BY <1>1, <1>2, <1>4, <1>6, <1>7 DEF OwnedBy, o

LEMMA OwnOut ==
  ASSUME Tree, NEW i \in Places, Is(i, {"end"}), ~Is(Opener(i), {"switch"}),
         NEW own, NEW sc, OwnedBy(own, sc, i)
  PROVE  OwnedBy(SubSeq(own, 1, Len(own) - 1), Popped(sc), i + 1)
<1>. DEFINE o == SubSeq(own, 1, Len(own) - 1)
            n == Len(own)
<1>1. /\ own \in Seq(Nat) /\ sc \in Seq(Tables) /\ n = Len(sc) /\ n \in Nat /\ n >= 1 /\ i \in Nat
      /\ own[n] = ScopeOf(i)
  BY OwnTop, TreeFacts DEF OwnedBy
<1>2. /\ o \in Seq(Nat) /\ Len(o) = n - 1 /\ \A j \in 1 .. n - 1 : o[j] = own[j]
      /\ Popped(sc) \in Seq(Tables) /\ Len(Popped(sc)) = n - 1
  BY <1>1 DEF Popped
<1>0. /\ \A j, k \in 1 .. n : j < k => own[j] < own[k]
      /\ \A j \in 1 .. n : own[j] \in Nat
      /\ \A s : s \in OpenScopes(i) <=> \E j \in 1 .. n : own[j] = s
  BY <1>1 DEF OwnedBy
<1>. HIDE DEF n
<1>3. \A j, k \in 1 .. n - 1 : j < k => o[j] < o[k]
  <2>1. \A j \in 1 .. n - 1 : j \in 1 .. n
    BY <1>1
  <2>. QED
    BY <1>0, <1>2, <2>1
<1>4. \A s : (\E j \in 1 .. n - 1 : own[j] = s) <=> s # own[n] /\ (\E j \in 1 .. n : own[j] = s)
  <2>1. \A j \in 1 .. n : j \in 1 .. n - 1 \/ j = n
    BY <1>1
  <2>2. \A j \in 1 .. n - 1 : j \in 1 .. n /\ j < n /\ n \in 1 .. n
    BY <1>1
  <2>3. \A j \in 1 .. n - 1 : own[j] < own[n] /\ own[j] \in Nat /\ own[n] \in Nat
    BY <1>0, <2>2
  <2>4. \A j \in 1 .. n - 1 : own[j] # own[n]
    BY <2>3
  <2>. QED
    BY <2>1, <2>2, <2>4
<1>5. \A s : s \in OpenScopes(i + 1) <=> s # own[n] /\ (\E j \in 1 .. n : own[j] = s)
  <2>1. OpenScopes(i + 1) = OpenScopes(i) \ {own[n]}
    BY <1>1, OpenOut
  <2>. QED
    BY <1>0, <2>1
<1>. HIDE DEF o
<1>6. \A s : s \in OpenScopes(i + 1) <=> \E j \in 1 .. n - 1 : o[j] = s
  BY <1>2, <1>4, <1>5
<1>. QED
  BY <1>1, <1>2, <1>3, <1>6 DEF OwnedBy, o, n

-----------------------------------------------------------------------------
(***************************************************************************)
(* What the scopes hold: of each, the names that the declarations in K      *)
(* declare there, each with the symbol of one of them.                     *)
(***************************************************************************)
Level(s) == IF s = 0 THEN 1 ELSE 2

SymbolOf(sym, n, s, K) ==
  /\ sym.at \in K /\ sym.at \in Declarations(n) /\ ScopeOf(sym.at) = s
  /\ sym.class = Class(prog[sym.at].t, Level(s))

Contents(own, sc, K) ==
  \A j \in 1 .. Len(own) : \A n :
    /\ n \in DOMAIN sc[j] <=> \E d \in K : d \in Declarations(n) /\ ScopeOf(d) = own[j]
    /\ n \in DOMAIN sc[j] => SymbolOf(sc[j][n], n, own[j], K)

\* sc with the name of i in its innermost scope, which keeps what it had.
Enters(new, sc, i) ==
  LET top == Len(sc)
  IN  /\ new \in Seq(Tables) /\ Len(new) = Len(sc)
      /\ \A j \in 1 .. Len(sc) : j # top => new[j] = sc[j]
      /\ DOMAIN new[top] = DOMAIN sc[top] \cup {prog[i].n}
      /\ \A n \in DOMAIN sc[top] :
           new[top][n].at = sc[top][n].at /\ new[top][n].class = sc[top][n].class
      /\ prog[i].n \notin DOMAIN sc[top] => new[top][prog[i].n] = Symbol(i, top)

LEMMA SymbolIs ==
  ASSUME Tree, NEW i \in Places, Is(i, Declares), NEW depth \in Nat
  PROVE  /\ Symbol(i, depth) \in Symbols /\ Symbol(i, depth).at = i
         /\ depth >= 1 => Symbol(i, depth).class = Class(prog[i].t, Level(depth - 1))
<1>1. prog[i].t \in Declares /\ i \in Nat
  BY TreeFacts DEF Is, Kind
<1>2. Class(prog[i].t, depth) \in Classes
  BY <1>1 DEF Class, Declares, Classes
<1>3. depth >= 1 => Class(prog[i].t, depth) = Class(prog[i].t, Level(depth - 1))
  BY <1>1 DEF Class, Declares, Level
<1>. QED
  BY <1>1, <1>2, <1>3 DEF Symbol, Symbols

LEMMA PutIs ==
  ASSUME NEW f \in Tables, NEW n \in Names, NEW sym \in Symbols
  PROVE  /\ Put(f, n, sym) \in Tables /\ DOMAIN Put(f, n, sym) = DOMAIN f \cup {n}
         /\ Put(f, n, sym)[n] = sym
         /\ \A m \in DOMAIN f : m # n => Put(f, n, sym)[m] = f[m]
<1>1. PICK D \in SUBSET Names : f \in [D -> Symbols]
  BY DEF Tables
<1>2. Put(f, n, sym) \in [D \cup {n} -> Symbols]
  BY <1>1 DEF Put
<1>. QED
  BY <1>1, <1>2 DEF Put, Tables

\* Symbol insertion, and the mark of a prototype that is defined.
LEMMA InsertEnters ==
  ASSUME Tree, NEW i \in Places, Is(i, Declares), NEW sc \in Seq(Tables), Len(sc) >= 1,
         prog[i].n \notin DOMAIN sc[Len(sc)]
  PROVE  Enters(Insert(sc, prog[i].n, Symbol(i, Len(sc))), sc, i)
<1>. DEFINE top == Len(sc)
            sym == Symbol(i, top)
<1>1. top \in Nat /\ top \in 1 .. Len(sc) /\ sc[top] \in Tables /\ prog[i].n \in Names
  BY DEF Names
<1>2. sym \in Symbols
  BY <1>1, SymbolIs
<1>. DEFINE t == Put(sc[top], prog[i].n, sym)
<1>3. /\ t \in Tables /\ DOMAIN t = DOMAIN sc[top] \cup {prog[i].n} /\ t[prog[i].n] = sym
      /\ \A m \in DOMAIN sc[top] : m # prog[i].n => t[m] = sc[top][m]
  <2>1. ASSUME NEW f \in Tables, NEW n \in Names, NEW x \in Symbols
        PROVE  LET u == Put(f, n, x)
               IN  /\ u \in Tables /\ DOMAIN u = DOMAIN f \cup {n} /\ u[n] = x
                   /\ \A m \in DOMAIN f : m # n => u[m] = f[m]
    BY PutIs
  <2>. QED
    BY <1>1, <1>2, <2>1
<1>4. Insert(sc, prog[i].n, sym) = [sc EXCEPT ![top] = t]
  BY DEF Insert
<1>. HIDE DEF t, sym
<1>5. [sc EXCEPT ![top] = t] \in Seq(Tables)
  BY <1>1, <1>3
<1>. QED
  BY <1>1, <1>3, <1>4, <1>5 DEF Enters, sym

LEMMA MarkEnters ==
  ASSUME NEW i, NEW sc \in Seq(Tables), Len(sc) >= 1, prog[i].n \in DOMAIN sc[Len(sc)]
  PROVE  /\ Enters([sc EXCEPT ![Len(sc)][prog[i].n].defined = TRUE], sc, i)
         /\ Enters(sc, sc, i)
<1>. DEFINE top == Len(sc)
            n == prog[i].n
            t == [sc[top] EXCEPT ![n].defined = TRUE]
<1>1. top \in Nat /\ top \in 1 .. Len(sc) /\ sc[top] \in Tables
  OBVIOUS
<1>2. PICK D \in SUBSET Names : sc[top] \in [D -> Symbols]
  BY <1>1 DEF Tables
<1>3. t \in [D -> Symbols] /\ \A m \in D : t[m].at = sc[top][m].at /\ t[m].class = sc[top][m].class
  BY <1>2 DEF Symbols
<1>4. t \in Tables
  BY <1>3 DEF Tables
<1>5. [sc EXCEPT ![top][n].defined = TRUE] = [sc EXCEPT ![top] = t]
  OBVIOUS
<1>. HIDE DEF t
<1>6. [sc EXCEPT ![top] = t] \in Seq(Tables)
  BY <1>1, <1>4
<1>7. Enters([sc EXCEPT ![top] = t], sc, i)
  <2>1. [sc EXCEPT ![top] = t][top] = t
    BY <1>1
  <2>2. DOMAIN t = DOMAIN sc[top] /\ n \in DOMAIN sc[top]
    BY <1>2, <1>3
  <2>3. \A m \in DOMAIN sc[top] : t[m].at = sc[top][m].at /\ t[m].class = sc[top][m].class
    BY <1>2, <1>3
  <2>. QED
    BY <1>1, <1>6, <2>1, <2>2, <2>3 DEF Enters
<1>8. Enters(sc, sc, i)
  BY <1>1 DEF Enters
<1>. QED
  BY <1>5, <1>7, <1>8

LEMMA ContentsEnter ==
  ASSUME Tree, NEW i \in Places, Is(i, Declares), NEW own, NEW sc, OwnedBy(own, sc, i),
         NEW K, Contents(own, sc, K), NEW new, Enters(new, sc, i)
  PROVE  Contents(own, new, K \cup {i})
<1>. DEFINE top == Len(sc)
            L == K \cup {i}
<1>1. /\ Len(own) = top /\ top \in Nat /\ top >= 1 /\ own[top] = ScopeOf(i)
      /\ \A j \in 1 .. top : own[j] \in Nat /\ (j # top => own[j] # own[top])
      /\ \A j \in 1 .. top : j = 1 <=> own[j] = 0
  <2>1. /\ Len(own) = top /\ top \in Nat /\ top >= 1 /\ own[top] = ScopeOf(i)
        /\ \A j \in 1 .. top : own[j] \in Nat
        /\ \A j \in 1 .. top : j = 1 <=> own[j] = 0
    <3>1. i \in Nat
      BY TreeFacts
    <3>2. Len(own) = Len(sc)
      BY DEF OwnedBy
    <3>. QED
      BY <3>1, <3>2, OwnTop
  <2>2. ASSUME NEW j \in 1 .. top, j # top PROVE own[j] # own[top]
    <3>1. j < top /\ top \in 1 .. top
      BY <2>1, <2>2
    <3>2. own[j] < own[top]
      BY <2>1, <3>1 DEF OwnedBy
    <3>. QED
      BY <2>1, <3>1, <3>2
  <2>. QED
    BY <2>1, <2>2
<1>2. i \in Declarations(prog[i].n) /\ \A n : i \in Declarations(n) => n = prog[i].n
  BY DEF Declarations
<1>. SUFFICES ASSUME NEW j \in 1 .. top, NEW n
              PROVE  /\ n \in DOMAIN new[j] <=> \E d \in L : d \in Declarations(n) /\ ScopeOf(d) = own[j]
                     /\ n \in DOMAIN new[j] => SymbolOf(new[j][n], n, own[j], L)
  BY <1>1 DEF Contents
<1>3. /\ n \in DOMAIN sc[j] <=> \E d \in K : d \in Declarations(n) /\ ScopeOf(d) = own[j]
      /\ n \in DOMAIN sc[j] => SymbolOf(sc[j][n], n, own[j], K)
  BY <1>1 DEF Contents
<1>4. CASE j # top
  <2>1. new[j] = sc[j] /\ ScopeOf(i) # own[j]
    BY <1>1, <1>4 DEF Enters
  <2>. QED
    BY <1>3, <2>1 DEF SymbolOf
<1>5. CASE j = top
  <2>1. /\ DOMAIN new[top] = DOMAIN sc[top] \cup {prog[i].n}
        /\ n \in DOMAIN sc[top] =>
             new[top][n].at = sc[top][n].at /\ new[top][n].class = sc[top][n].class
        /\ prog[i].n \notin DOMAIN sc[top] => new[top][prog[i].n] = Symbol(i, top)
    BY DEF Enters
  <2>2. n \in DOMAIN new[j] <=> \E d \in L : d \in Declarations(n) /\ ScopeOf(d) = own[j]
    BY <1>1, <1>2, <1>3, <1>5, <2>1
  <2>3. CASE n \in DOMAIN sc[top]
    BY <1>3, <1>5, <2>1, <2>2, <2>3 DEF SymbolOf
  <2>4. CASE n \notin DOMAIN sc[top] /\ n = prog[i].n
    <3>1. Symbol(i, top).at = i /\ Symbol(i, top).class = Class(prog[i].t, Level(top - 1))
      BY <1>1, SymbolIs
    <3>2. Level(top - 1) = Level(own[top])
      BY <1>1 DEF Level
    <3>. QED
      BY <1>1, <1>2, <1>5, <2>1, <2>2, <2>4, <3>1, <3>2 DEF SymbolOf
  <2>. QED
    BY <1>5, <2>1, <2>2, <2>3, <2>4
<1>. QED
  BY <1>4, <1>5

LEMMA ContentsInto ==
  ASSUME Tree, NEW i, NEW own \in Seq(Nat), NEW sc \in Seq(Tables), Len(own) = Len(sc), NEW K,
         Contents(own, sc, K), \A d \in K : ScopeOf(d) # i
  PROVE  Contents(Append(own, i), Append(sc, <<>>), K)
<1>. DEFINE n == Len(own)
<1>1. /\ n \in Nat /\ Len(Append(own, i)) = n + 1
      /\ \A j \in 1 .. n : Append(own, i)[j] = own[j] /\ Append(sc, <<>>)[j] = sc[j]
      /\ Append(own, i)[n + 1] = i /\ Append(sc, <<>>)[n + 1] = <<>>
      /\ \A j \in 1 .. n + 1 : j \in 1 .. n \/ j = n + 1
  OBVIOUS
<1>2. DOMAIN <<>> = {}
  OBVIOUS
<1>. SUFFICES ASSUME NEW j \in 1 .. n + 1, NEW m
              PROVE  /\ m \in DOMAIN Append(sc, <<>>)[j] <=>
                          \E d \in K : d \in Declarations(m) /\ ScopeOf(d) = Append(own, i)[j]
                     /\ m \in DOMAIN Append(sc, <<>>)[j] =>
                          SymbolOf(Append(sc, <<>>)[j][m], m, Append(own, i)[j], K)
  BY <1>1 DEF Contents
<1>3. CASE j \in 1 .. n
  BY <1>1, <1>3 DEF Contents
<1>4. CASE j = n + 1
  BY <1>1, <1>2, <1>4
<1>. QED
  BY <1>1, <1>3, <1>4

LEMMA ContentsOut ==
  ASSUME NEW own \in Seq(Nat), NEW sc \in Seq(Tables), Len(own) = Len(sc), Len(sc) >= 1, NEW K,
         Contents(own, sc, K)
  PROVE  Contents(SubSeq(own, 1, Len(own) - 1), Popped(sc), K)
<1>. DEFINE n == Len(own)
            o == SubSeq(own, 1, n - 1)
<1>1. /\ n \in Nat /\ n >= 1 /\ Len(o) = n - 1
      /\ \A j \in 1 .. n - 1 : o[j] = own[j] /\ Popped(sc)[j] = sc[j] /\ j \in 1 .. n
  BY DEF Popped
<1>. HIDE DEF o
<1>2. Contents(o, Popped(sc), K)
  BY <1>1 DEF Contents
<1>. QED
  BY <1>2 DEF o

-----------------------------------------------------------------------------
(***************************************************************************)
(* What each walk has entered when it comes to i. Pass 2 starts with the    *)
(* scope of the file full.                                                 *)
(***************************************************************************)
Seen2(d, i) == ScopeOf(d) = 0 \/ (d < i /\ Is(d, {"obj", "param"}) /\ ~Skipped(d))
Known(ph, i) ==
  {d \in Places : Is(d, Declares) /\ IF ph = "pass1" THEN d < i ELSE Seen2(d, i)}

Built(sc, ph, i) ==
  \E own : OwnedBy(own, sc, i) /\ Contents(own, sc, Known(ph, i))

LEMMA BuiltSize ==
  ASSUME Tree, NEW i \in Nat, NEW sc, NEW ph, Built(sc, ph, i)
  PROVE  /\ sc \in Seq(Tables) /\ Len(sc) \in Nat /\ Len(sc) >= 1
         /\ Len(sc) = 1 <=> ScopeOf(i) = 0
         /\ \A k \in 1 .. Len(sc) : \A n \in DOMAIN sc[k] : sc[k][n].at \in Declarations(n)
<1>1. PICK own : OwnedBy(own, sc, i) /\ Contents(own, sc, Known(ph, i))
  BY DEF Built
<1>2. /\ sc \in Seq(Tables) /\ Len(sc) \in Nat /\ Len(sc) >= 1 /\ own[Len(sc)] = ScopeOf(i)
      /\ \A j \in 1 .. Len(sc) : j = 1 <=> own[j] = 0
      /\ Len(own) = Len(sc)
  BY <1>1, OwnTop DEF OwnedBy
<1>. QED
  BY <1>1, <1>2 DEF Contents, SymbolOf

LEMMA KnownNext ==
  ASSUME Tree, NEW i \in Places
  PROVE  /\ Is(i, Declares) => Known("pass1", i + 1) = Known("pass1", i) \cup {i}
         /\ ~Is(i, Declares) => Known("pass1", i + 1) = Known("pass1", i)
         /\ Is(i, {"obj", "param"}) /\ ~Skipped(i) =>
              Known("pass2", i + 1) = Known("pass2", i) \cup {i}
         /\ ~Is(i, {"obj", "param"}) \/ Skipped(i) \/ ScopeOf(i) = 0 =>
              Known("pass2", i + 1) = Known("pass2", i)
<1>1. i \in Nat /\ \A d \in Places : d \in Nat /\ (d < i + 1 <=> d < i \/ d = i)
  BY TreeFacts
<1>2. Is(i, {"obj", "param"}) => Is(i, Declares)
  BY DEF Is, Kind, Declares
<1>3. /\ Is(i, Declares) => \A d : d \in Known("pass1", i + 1) <=> d \in Known("pass1", i) \/ d = i
      /\ ~Is(i, Declares) => \A d : d \in Known("pass1", i + 1) <=> d \in Known("pass1", i)
  BY <1>1 DEF Known
<1>4. /\ Is(i, {"obj", "param"}) /\ ~Skipped(i) =>
           \A d : d \in Known("pass2", i + 1) <=> d \in Known("pass2", i) \/ d = i
      /\ ~Is(i, {"obj", "param"}) \/ Skipped(i) \/ ScopeOf(i) = 0 =>
           \A d : d \in Known("pass2", i + 1) <=> d \in Known("pass2", i)
  BY <1>1, <1>2 DEF Known, Seen2
<1>. QED
  BY <1>3, <1>4

\* A scope that opens is not that of any declaration a walk has entered.
LEMMA KnownBefore ==
  ASSUME Tree, NEW i \in Places, NEW ph, NEW d \in Known(ph, i)
  PROVE  ScopeOf(d) # i
<1>1. d \in Nat /\ i \in Nat /\ i # 0
  BY TreeFacts DEF Known
<1>2. ScopeOf(d) = 0 \/ ScopeOf(d) < d
  BY <1>1, ScopeIs
<1>3. ScopeOf(d) = 0 \/ d < i
  BY DEF Known, Seen2
<1>. QED
  BY <1>1, <1>2, <1>3, ScopeIs

\* The walk passes a node that opens nothing and declares nothing.
LEMMA BuiltPast ==
  ASSUME Tree, NEW i \in Places, NEW sc, NEW ph, Built(sc, ph, i), Known(ph, i + 1) = Known(ph, i),
         OpenScopes(i + 1) = OpenScopes(i)
  PROVE  Built(sc, ph, i + 1)
<1>1. PICK own : OwnedBy(own, sc, i) /\ Contents(own, sc, Known(ph, i))
  BY DEF Built
<1>2. OwnedBy(own, sc, i + 1)
  BY <1>1 DEF OwnedBy
<1>. QED
  BY <1>1, <1>2 DEF Built

\* It opens a scope, after it may have entered a name.
LEMMA BuiltInto ==
  ASSUME Tree, NEW i \in Places, NEW sc, NEW ph, Built(sc, ph, i), Is(i, Opens \ {"switch"}),
         NEW new,
         \/ new = sc /\ Known(ph, i + 1) = Known(ph, i)
         \/ Enters(new, sc, i) /\ Is(i, Declares) /\ Known(ph, i + 1) = Known(ph, i) \cup {i}
  PROVE  Built(Pushed(new), ph, i + 1)
<1>1. PICK own : OwnedBy(own, sc, i) /\ Contents(own, sc, Known(ph, i))
  BY DEF Built
<1>2. new \in Seq(Tables) /\ Len(new) = Len(sc) /\ own \in Seq(Nat) /\ Len(own) = Len(sc)
  BY <1>1 DEF Enters, OwnedBy
<1>3. OwnedBy(Append(own, i), Append(new, <<>>), i + 1)
  BY <1>1, <1>2, OwnInto
<1>4. Contents(own, new, Known(ph, i + 1))
  BY <1>1, ContentsEnter
<1>5. \A d \in Known(ph, i + 1) : ScopeOf(d) # i
  <2>1. i \in Nat /\ i # 0 /\ (ScopeOf(i) = 0 \/ ScopeOf(i) < i) /\ ScopeOf(i) \in Nat
    BY TreeFacts, ScopeIs
  <2>2. ScopeOf(i) # i
    BY <2>1
  <2>. QED
    BY <2>2, KnownBefore
<1>6. Contents(Append(own, i), Append(new, <<>>), Known(ph, i + 1))
  BY <1>2, <1>4, <1>5, ContentsInto
<1>. QED
  BY <1>3, <1>6 DEF Built, Pushed

\* It enters a name.
LEMMA BuiltEnter ==
  ASSUME Tree, NEW i \in Places, NEW sc, NEW ph, Built(sc, ph, i), Is(i, Declares),
         ~Is(i, Opens \ {"switch"}), NEW new, Enters(new, sc, i),
         Known(ph, i + 1) = Known(ph, i) \cup {i}
  PROVE  Built(new, ph, i + 1)
<1>1. PICK own : OwnedBy(own, sc, i) /\ Contents(own, sc, Known(ph, i))
  BY DEF Built
<1>2. OpenScopes(i + 1) = OpenScopes(i)
  <2>1. ~Is(i, {"end"})
    BY DEF Is, Kind, Declares
  <2>. QED
    BY <2>1, OpenPast
<1>3. OwnedBy(own, new, i + 1)
  BY <1>1, <1>2, OwnPast DEF Enters
<1>4. Contents(own, new, Known(ph, i + 1))
  BY <1>1, ContentsEnter
<1>. QED
  BY <1>3, <1>4 DEF Built

\* It comes to the end of a node.
LEMMA BuiltOut ==
  ASSUME Tree, NEW i \in Places, NEW sc, NEW ph \in {"pass1", "pass2"}, Built(sc, ph, i),
         Is(i, {"end"})
  PROVE  Built(IF Is(Opener(i), {"switch"}) THEN sc ELSE Popped(sc), ph, i + 1)
<1>1. PICK own : OwnedBy(own, sc, i) /\ Contents(own, sc, Known(ph, i))
  BY DEF Built
<1>2. Known(ph, i + 1) = Known(ph, i)
  <2>1. ~Is(i, Declares) /\ ~Is(i, {"obj", "param"})
    BY DEF Is, Kind, Declares
  <2>. QED
    BY <2>1, KnownNext
<1>3. CASE Is(Opener(i), {"switch"})
  <2>1. Built(sc, ph, i + 1)
    BY <1>2, <1>3, OpenOut, BuiltPast
  <2>. QED
    BY <1>3, <2>1
<1>4. CASE ~Is(Opener(i), {"switch"})
  <2>1. OwnedBy(SubSeq(own, 1, Len(own) - 1), Popped(sc), i + 1)
    BY <1>1, <1>4, OwnOut
  <2>2. Len(sc) >= 1 /\ own \in Seq(Nat) /\ sc \in Seq(Tables) /\ Len(own) = Len(sc)
    <3>1. i \in Nat
      BY TreeFacts
    <3>. QED
      BY <1>1, <3>1, OwnTop DEF OwnedBy
  <2>3. Contents(SubSeq(own, 1, Len(own) - 1), Popped(sc), Known(ph, i))
    BY <1>1, <2>2, ContentsOut
  <2>4. Built(Popped(sc), ph, i + 1)
    BY <1>2, <2>1, <2>3 DEF Built
  <2>. QED
    BY <1>4, <2>4
<1>. QED
  BY <1>3, <1>4

\* register_symbol enters the name, unless it is there.
LEMMA RegisteredEnters ==
  ASSUME Tree, pos \in Places, Is(pos, Declares), scopes \in Seq(Tables), Len(scopes) >= 1
  PROVE  Enters(Registered, scopes, pos)
<1>1. CASE The.n \notin DOMAIN scopes[Here]
  <2>1. Enters(Insert(scopes, The.n, Symbol(pos, Here)), scopes, pos)
    BY <1>1, InsertEnters DEF The, Here
  <2>. QED
    BY <1>1, <2>1 DEF Registered, Clash, Current
<1>2. CASE The.n \in DOMAIN scopes[Here]
  <2>1. /\ Enters([scopes EXCEPT ![Here][The.n].defined = TRUE], scopes, pos)
        /\ Enters(scopes, scopes, pos)
    BY <1>2, MarkEnters DEF The, Here
  <2>. QED
    BY <1>2, <2>1 DEF Registered, Clash, Current
<1>. QED
  BY <1>1, <1>2

\* The stack of pass 1 at the end of the unit is that of pass 2 at its start.
LEMMA BuiltAgain ==
  ASSUME Tree, NEW sc, Built(sc, "pass1", Len(prog) + 1)
  PROVE  Built(sc, "pass2", 1)
<1>1. PICK own : OwnedBy(own, sc, Len(prog) + 1) /\ Contents(own, sc, Known("pass1", Len(prog) + 1))
  BY DEF Built
<1>2. OwnedBy(own, sc, 1)
  BY <1>1, OpenAtEnds DEF OwnedBy
<1>3. \A j \in 1 .. Len(own) : own[j] = 0
  BY <1>1, OpenAtEnds DEF OwnedBy
<1>4. \A d : ScopeOf(d) = 0 => (d \in Known("pass1", Len(prog) + 1) <=> d \in Known("pass2", 1))
  BY TreeFacts DEF Known, Seen2, Places
<1>5. Contents(own, sc, Known("pass2", 1))
  BY <1>1, <1>3, <1>4 DEF Contents, SymbolOf
<1>. QED
  BY <1>2, <1>5 DEF Built

-----------------------------------------------------------------------------
(***************************************************************************)
(* The walks. Between the passes, and after them, only the scope of the     *)
(* file is left.                                                           *)
(***************************************************************************)
WalkInv ==
  /\ Tree /\ phase \in {"pass1", "pass2", "lower", "done"} /\ pos \in 1 .. Len(prog) + 1
  /\ scopes \in Seq(Tables) /\ Len(scopes) >= 1
  /\ phase \in {"pass1", "pass2"} => Built(scopes, phase, pos)
  /\ phase = "lower" \/ pos = Len(prog) + 1 => Len(scopes) = 1
  /\ \A k \in 1 .. Len(scopes) : \A n \in DOMAIN scopes[k] : scopes[k][n].at \in Declarations(n)

LEMMA SameTree ==
  ASSUME Tree, UNCHANGED <<prog, ends, up>>
  PROVE  /\ Tree' /\ Places' = Places /\ Uses' = Uses
         /\ \A i, ts : Is(i, ts)' <=> Is(i, ts)
         /\ \A i : Encl(i)' = Encl(i) /\ Close(i)' = Close(i)
         /\ \A i : OpenScopes(i)' = OpenScopes(i) /\ ScopeOf(i)' = ScopeOf(i)
         /\ \A n : Declarations(n)' = Declarations(n)
<1>1. Tree' /\ Places' = Places
  BY DEF Tree, Places
<1>2. \A i, ts : Is(i, ts)' <=> Is(i, ts)
  BY DEF Is
<1>3. \A i : OpenScopes(i)' = OpenScopes(i)
  BY <1>2 DEF OpenScopes
<1>4. \A n : Declarations(n)' = Declarations(n)
  BY <1>1, <1>2 DEF Declarations
<1>5. Uses' = Uses
  BY <1>1, <1>2 DEF Uses
<1>. QED
  BY <1>1, <1>2, <1>3, <1>4, <1>5 DEF ScopeOf, Encl, Close

LEMMA SameSkipped ==
  ASSUME Tree, UNCHANGED <<prog, ends, up>>
  PROVE  \A i : Skipped(i)' = Skipped(i)
<1>1. \A i : Child(i)' = Child(i)
  BY SameTree DEF Child
<1>. QED
  BY <1>1, SameTree DEF Skipped

LEMMA SameBuilt ==
  ASSUME Tree, UNCHANGED <<prog, ends, up>>
  PROVE  /\ Tables' = Tables
         /\ \A sc, ph, i : Built(sc, ph, i)' <=> Built(sc, ph, i)
<1>1. Tables' = Tables
  BY DEF Tables, Names, Places
<1>2. \A i : Skipped(i)' = Skipped(i)
  BY SameSkipped
<1>3. \A ph, i : Known(ph, i)' = Known(ph, i)
  BY <1>2, SameTree DEF Known, Seen2
<1>4. \A own, sc, i : OwnedBy(own, sc, i)' <=> OwnedBy(own, sc, i)
  BY <1>1, SameTree DEF OwnedBy
<1>5. \A sym, n, s, K : SymbolOf(sym, n, s, K)' <=> SymbolOf(sym, n, s, K)
  BY SameTree DEF SymbolOf
<1>6. \A own, sc, K : Contents(own, sc, K)' <=> Contents(own, sc, K)
  BY <1>5, SameTree DEF Contents
<1>. QED
  BY <1>1, <1>3, <1>4, <1>6 DEF Built

LEMMA InitWalk == Init => WalkInv
<1>. SUFFICES ASSUME Init PROVE WalkInv
  OBVIOUS
<1>1. Tree
  BY DEF Init, Tree
<1>2. /\ phase = "pass1" /\ pos = 1 /\ scopes = <<<<>>>> /\ Len(scopes) = 1 /\ scopes[1] = <<>>
      /\ 1 \in 1 .. Len(prog) + 1
  BY <1>1, TreeFacts DEF Init
<1>3. <<>> \in Tables /\ DOMAIN <<>> = {}
  <2>1. <<>> \in [{} -> Symbols]
    OBVIOUS
  <2>. QED
    BY <2>1 DEF Tables
<1>4. scopes \in Seq(Tables)
  BY <1>2, <1>3
<1>5. OwnedBy(<<0>>, scopes, 1)
  <2>1. <<0>> \in Seq(Nat) /\ Len(<<0>>) = 1 /\ <<0>>[1] = 0
    OBVIOUS
  <2>. QED
    BY <1>1, <1>2, <1>4, <2>1, OpenAtEnds DEF OwnedBy
<1>6. Contents(<<0>>, scopes, Known("pass1", 1))
  <2>1. Known("pass1", 1) = {}
    BY <1>1, TreeFacts DEF Known, Places
  <2>. QED
    BY <1>2, <1>3, <2>1 DEF Contents
<1>7. Built(scopes, "pass1", 1)
  BY <1>5, <1>6 DEF Built
<1>. QED
  BY <1>1, <1>2, <1>3, <1>4, <1>7 DEF WalkInv

\* While a pass is under way.
LEMMA WalkStep ==
  ASSUME WalkInv, UNCHANGED <<prog, ends, up, phase>>, phase \in {"pass1", "pass2"},
         pos' \in 1 .. Len(prog) + 1, Built(scopes', phase, pos')
  PROVE  WalkInv'
<1>1. Tree /\ pos' \in Nat
  BY TreeFacts DEF WalkInv
<1>2. /\ scopes' \in Seq(Tables) /\ Len(scopes') \in Nat /\ Len(scopes') >= 1
      /\ Len(scopes') = 1 <=> ScopeOf(pos') = 0
      /\ \A k \in 1 .. Len(scopes') : \A n \in DOMAIN scopes'[k] : scopes'[k][n].at \in Declarations(n)
  BY <1>1, BuiltSize
<1>3. pos' = Len(prog) + 1 => ScopeOf(pos') = 0
  BY <1>1, OpenAtEnds, ScopeIs
<1>4. Built(scopes, phase, pos)'
  BY <1>1, SameBuilt
<1>. QED
  BY <1>1, <1>2, <1>3, <1>4, SameTree, SameBuilt DEF WalkInv

Pass1 == Declare1 \/ Function1 \/ Open("pass1") \/ Leave("pass1") \/ Use1
Pass2 == Declare2 \/ Enum2 \/ Function2 \/ Open("pass2") \/ Leave("pass2") \/ Use2
Lowering == LowerLocal \/ LowerGlobal \/ LowerFunction \/ LowerUse \/ LowerNothing

\* What every step of a walk has in common.
LEMMA Walking ==
  ASSUME WalkInv, Pass1 \/ Pass2 \/ Lowering
  PROVE  /\ Tree /\ pos \in Places /\ pos \in Nat /\ pos' = pos + 1 /\ pos' \in 1 .. Len(prog) + 1
         /\ UNCHANGED <<prog, ends, up, phase>>
         /\ Pass1 => phase = "pass1" /\ UNCHANGED <<slots, nextSlot, place, module>>
         /\ Pass2 => phase = "pass2" /\ UNCHANGED <<slots, nextSlot, place, module>>
         /\ Lowering => phase = "lower" /\ UNCHANGED <<scopes, errors, info>>
<1>1. Tree /\ pos \in 1 .. Len(prog) + 1 /\ Len(prog) \in Nat
  BY TreeFacts DEF WalkInv
<1>2. CASE Pass1
  <2>1. /\ phase = "pass1" /\ Step /\ Keep /\ KeepLowering
    BY <1>2 DEF Pass1, Declare1, Function1, Open, Leave, Use1, In
  <2>2. ~Pass2 /\ ~Lowering
    BY <2>1 DEF Pass2, Declare2, Enum2, Function2, Open, Leave, Use2, In,
                Lowering, LowerLocal, LowerGlobal, LowerFunction, LowerUse, LowerNothing
  <2>. QED
    BY <1>1, <2>1, <2>2 DEF Step, Places, Keep, KeepLowering
<1>3. CASE Pass2
  <2>1. phase = "pass2" /\ Step /\ Keep /\ KeepLowering
    BY <1>3 DEF Pass2, Declare2, Enum2, Function2, Open, Leave, Use2, In
  <2>2. ~Pass1 /\ ~Lowering
    BY <2>1 DEF Pass1, Declare1, Function1, Open, Leave, Use1, In,
                Lowering, LowerLocal, LowerGlobal, LowerFunction, LowerUse, LowerNothing
  <2>. QED
    BY <1>1, <2>1, <2>2 DEF Step, Places, Keep, KeepLowering
<1>4. CASE Lowering
  <2>1. phase = "lower" /\ Step /\ Keep /\ KeepNames
    BY <1>4 DEF Lowering, LowerLocal, LowerGlobal, LowerFunction, LowerUse, LowerNothing, In
  <2>2. ~Pass1 /\ ~Pass2
    BY <2>1 DEF Pass1, Declare1, Function1, Open, Leave, Use1, In,
                Pass2, Declare2, Enum2, Function2, Use2
  <2>. QED
    BY <1>1, <2>1, <2>2 DEF Step, Places, Keep, KeepNames
<1>. QED
  BY <1>2, <1>3, <1>4

LEMMA OpenBuilt ==
  ASSUME WalkInv, NEW ph \in {"pass1", "pass2"}, Open(ph) PROVE Built(scopes', ph, pos + 1)
<1>1. /\ Tree /\ pos \in Places /\ Built(scopes, ph, pos)
      /\ Is(pos, {"block", "for", "switch", "null"})
      /\ scopes' = IF The.t \in {"switch", "null"} THEN scopes ELSE Pushed(scopes)
  <2>1. Pass1 \/ Pass2
    BY DEF Pass1, Pass2
  <2>. QED
    BY <2>1, Walking DEF Open, In, WalkInv
<1>2. ~Is(pos, Declares) /\ ~Is(pos, {"obj", "param"}) /\ ~Is(pos, {"end"})
  BY <1>1 DEF Is, Kind, Declares
<1>3. Known(ph, pos + 1) = Known(ph, pos)
  BY <1>1, <1>2, KnownNext
<1>4. CASE The.t \in {"switch", "null"}
  <2>1. ~Is(pos, Opens \ {"switch"})
    BY <1>4 DEF Is, Kind, The, Opens
  <2>. QED
    BY <1>1, <1>2, <1>3, <1>4, <2>1, OpenPast, BuiltPast
<1>5. CASE The.t \notin {"switch", "null"}
  <2>1. Is(pos, Opens \ {"switch"})
    BY <1>1, <1>5 DEF Is, Kind, The, Opens
  <2>. QED
    BY <1>1, <1>3, <1>5, <2>1, BuiltInto
<1>. QED
  BY <1>4, <1>5

LEMMA LeaveBuilt ==
  ASSUME WalkInv, NEW ph \in {"pass1", "pass2"}, Leave(ph) PROVE Built(scopes', ph, pos + 1)
<1>1. Pass1 \/ Pass2
  BY DEF Pass1, Pass2
<1>2. /\ Tree /\ pos \in Places /\ Built(scopes, ph, pos) /\ Is(pos, {"end"})
      /\ scopes' = IF Is(Opener(pos), {"switch"}) THEN scopes ELSE Popped(scopes)
  BY <1>1, Walking DEF Leave, In, WalkInv
<1>. QED
  BY <1>2, BuiltOut

LEMMA Pass1Built ==
  ASSUME WalkInv, Pass1 PROVE Built(scopes', "pass1", pos + 1)
<1>1. /\ Tree /\ pos \in Places /\ Built(scopes, "pass1", pos)
      /\ scopes \in Seq(Tables) /\ Len(scopes) >= 1
  BY Walking DEF WalkInv
<1>2. CASE Declare1
  <2>1. scopes' = Registered /\ Is(pos, {"obj", "param", "enum"})
    BY <1>2 DEF Declare1, In
  <2>2. Is(pos, Declares) /\ ~Is(pos, Opens \ {"switch"})
    BY <2>1 DEF Is, Kind, Declares, Opens
  <2>. QED
    BY <1>1, <2>1, <2>2, RegisteredEnters, KnownNext, BuiltEnter
<1>3. CASE Function1
  <2>1. scopes' = Pushed(Registered) /\ Is(pos, {"fun", "proto"})
    BY <1>3 DEF Function1, In
  <2>2. Is(pos, Declares) /\ Is(pos, Opens \ {"switch"})
    BY <2>1 DEF Is, Kind, Declares, Opens
  <2>. QED
    BY <1>1, <2>1, <2>2, RegisteredEnters, KnownNext, BuiltInto
<1>4. CASE Use1
  <2>1. scopes' = scopes /\ Is(pos, {"use"})
    BY <1>4 DEF Use1, In
  <2>2. ~Is(pos, Declares) /\ ~Is(pos, Opens \ {"switch"}) /\ ~Is(pos, {"end"})
    BY <2>1 DEF Is, Kind, Declares, Opens
  <2>. QED
    BY <1>1, <2>1, <2>2, KnownNext, OpenPast, BuiltPast
<1>. QED
  BY <1>2, <1>3, <1>4, OpenBuilt, LeaveBuilt DEF Pass1

LEMMA Pass2Built ==
  ASSUME WalkInv, Pass2 PROVE Built(scopes', "pass2", pos + 1)
<1>1. /\ Tree /\ pos \in Places /\ pos \in Nat /\ Built(scopes, "pass2", pos)
      /\ scopes \in Seq(Tables) /\ Len(scopes) >= 1
  BY Walking DEF WalkInv
<1>2. CASE Declare2
  <2>1. /\ Is(pos, {"obj", "param"}) /\ Is(pos, Declares) /\ ~Is(pos, Opens \ {"switch"})
        /\ ~Is(pos, {"end"})
    BY <1>2 DEF Declare2, In, Is, Kind, Declares, Opens
  <2>2. Here = 1 <=> ScopeOf(pos) = 0
    BY <1>1, BuiltSize DEF Here
  <2>3. CASE Here = 1 \/ Skipped(pos)
    <3>1. scopes' = scopes
      BY <1>2, <2>3 DEF Declare2
    <3>2. Known("pass2", pos + 1) = Known("pass2", pos)
      BY <1>1, <2>2, <2>3, KnownNext
    <3>. QED
      BY <1>1, <2>1, <3>1, <3>2, OpenPast, BuiltPast
  <2>4. CASE ~(Here = 1 \/ Skipped(pos))
    <3>1. scopes' = IF Current(The.n) THEN scopes ELSE Insert(scopes, The.n, Symbol(pos, Here))
      BY <1>2, <2>4 DEF Declare2
    <3>2. Enters(scopes', scopes, pos)
      <4>1. CASE Current(The.n)
        <5>1. Enters(scopes, scopes, pos)
          BY <1>1, <4>1, MarkEnters DEF Current, The, Here
        <5>. QED
          BY <3>1, <4>1, <5>1
      <4>2. CASE ~Current(The.n)
        <5>1. Enters(Insert(scopes, The.n, Symbol(pos, Here)), scopes, pos)
          BY <1>1, <2>1, <4>2, InsertEnters DEF Current, The, Here
        <5>. QED
          BY <3>1, <4>2, <5>1
      <4>. QED
        BY <4>1, <4>2
    <3>3. Known("pass2", pos + 1) = Known("pass2", pos) \cup {pos}
      BY <1>1, <2>1, <2>4, KnownNext
    <3>. QED
      BY <1>1, <2>1, <3>2, <3>3, BuiltEnter
  <2>. QED
    BY <2>3, <2>4
<1>3. CASE Enum2 \/ Use2
  <2>1. scopes' = scopes /\ Is(pos, {"enum", "use"})
    BY <1>3 DEF Enum2, Use2, In, Is, Kind
  <2>2. ~Is(pos, {"obj", "param"}) /\ ~Is(pos, Opens \ {"switch"}) /\ ~Is(pos, {"end"})
    BY <2>1 DEF Is, Kind, Opens
  <2>. QED
    BY <1>1, <2>1, <2>2, KnownNext, OpenPast, BuiltPast
<1>4. CASE Function2
  <2>1. scopes' = Pushed(scopes) /\ Is(pos, {"fun", "proto"})
    BY <1>4 DEF Function2, In
  <2>2. ~Is(pos, {"obj", "param"}) /\ Is(pos, Opens \ {"switch"})
    BY <2>1 DEF Is, Kind, Opens
  <2>. QED
    BY <1>1, <2>1, <2>2, KnownNext, BuiltInto
<1>. QED
  BY <1>2, <1>3, <1>4, OpenBuilt, LeaveBuilt DEF Pass2

LEMMA StepWalk == WalkInv /\ [Next]_vars => WalkInv'
<1>. SUFFICES ASSUME WalkInv, [Next]_vars PROVE WalkInv'
  OBVIOUS
<1>1. CASE Pass1
  BY <1>1, Walking, Pass1Built, WalkStep
<1>2. CASE Pass2
  BY <1>2, Walking, Pass2Built, WalkStep
<1>3. CASE Lowering
  <2>1. /\ Tree /\ UNCHANGED <<prog, ends, up, phase, scopes>> /\ phase = "lower"
        /\ pos' \in 1 .. Len(prog) + 1
    BY <1>3, Walking
  <2>. QED
    BY <2>1, SameTree, SameBuilt DEF WalkInv
<1>4. CASE EarlyUse
  <2>1. /\ Tree /\ UNCHANGED <<prog, ends, up, scopes, pos>> /\ phase' = "done"
        /\ pos \in Places /\ Len(prog) \in Nat
    BY <1>4, TreeFacts DEF EarlyUse, WalkInv, Is, Kind, Places
  <2>. QED
    BY <2>1, SameTree, SameBuilt DEF WalkInv, Places
<1>5. CASE NextPass
  <2>1. /\ Tree /\ UNCHANGED <<prog, ends, up, scopes>> /\ Len(prog) \in Nat
        /\ pos = Len(prog) + 1 /\ pos' = 1 /\ phase \in {"pass1", "pass2", "lower"}
        /\ phase' \in {"pass2", "lower", "done"} /\ (phase' = "pass2" => phase = "pass1")
    BY <1>5, TreeFacts DEF NextPass, WalkInv
  <2>2. Len(scopes) = 1
    BY <2>1 DEF WalkInv
  <2>3. ASSUME phase' = "pass2" PROVE Built(scopes, phase, pos)'
    <3>1. Built(scopes, "pass1", Len(prog) + 1)
      BY <2>1, <2>3 DEF WalkInv
    <3>. QED
      BY <2>1, <2>3, <3>1, BuiltAgain, SameBuilt
  <2>. QED
    BY <2>1, <2>2, <2>3, SameTree, SameBuilt DEF WalkInv
<1>6. CASE UNCHANGED vars
  <2>1. /\ Tree /\ UNCHANGED <<prog, ends, up, phase, pos, scopes>>
    BY <1>6 DEF vars, WalkInv
  <2>. QED
    BY <2>1, SameTree, SameBuilt DEF WalkInv
<1>. QED
  BY <1>1, <1>2, <1>3, <1>4, <1>5, <1>6 DEF Next, Pass1, Pass2, Lowering, Over

-----------------------------------------------------------------------------
(***************************************************************************)
(* TypeOK: the walk invariant, and the two variables it says nothing of.    *)
(***************************************************************************)
Codes == {"SEM001", "SEM002", "SEM004", "SEM005", "SEM006"}
CountInv == errors \subseteq Codes /\ nextSlot \in Nat

LEMMA StepCount == WalkInv /\ CountInv /\ [Next]_vars => CountInv'
<1>. SUFFICES ASSUME WalkInv, CountInv, [Next]_vars PROVE CountInv'
  OBVIOUS
<1>1. CASE Pass1
  <2>1. Diagnosed \subseteq Codes
    BY DEF Diagnosed, Codes
  <2>2. errors' \subseteq Codes
    BY <1>1, <2>1 DEF CountInv, Pass1, Declare1, Function1, Open, Leave, Use1
  <2>. QED
    BY <1>1, <2>2, Walking DEF CountInv
<1>2. CASE Pass2
  <2>1. errors' \subseteq Codes
    BY <1>2 DEF CountInv, Pass2, Declare2, Enum2, Function2, Open, Leave, Use2, Codes
  <2>. QED
    BY <1>2, <2>1, Walking DEF CountInv
<1>3. CASE Lowering
  <2>1. The.w \in Nat
    BY <1>3, Walking, TreeFacts DEF The, Nodes
  <2>2. nextSlot' \in Nat
    BY <1>3, <2>1 DEF CountInv, Lowering, LowerLocal, LowerGlobal, LowerFunction, LowerUse,
                      LowerNothing, NewSlot
  <2>. QED
    BY <1>3, <2>2, Walking DEF CountInv
<1>4. CASE EarlyUse \/ NextPass \/ UNCHANGED vars
  BY <1>4 DEF CountInv, EarlyUse, NextPass, KeepLowering, vars, Codes
<1>. QED
  BY <1>1, <1>2, <1>3, <1>4 DEF Next, Pass1, Pass2, Lowering, Over

\* The walks keep the scopes of the nodes they are in, for every unit: what pass 2
\* opens it closes, and between the passes only the scope of the file is left.
THEOREM TypeCorrect == Spec => []TypeOK
<1>1. Init => WalkInv /\ CountInv
  BY InitWalk DEF Init, CountInv
<1>2. WalkInv /\ CountInv /\ [Next]_vars => (WalkInv /\ CountInv)'
  BY StepWalk, StepCount
<1>3. WalkInv /\ CountInv => TypeOK
  BY DEF WalkInv, CountInv, TypeOK, Here, Codes
<1>. QED
  BY <1>1, <1>2, <1>3, PTL DEF Spec

-----------------------------------------------------------------------------
(***************************************************************************)
(* What pass 2 binds a use to: of the declarations it has met, one in the  *)
(* innermost scope.                                                        *)
(***************************************************************************)
Candidate(u, d) ==
  d \in Declarations(prog[u].n) /\ Seen2(d, u) /\ ScopeOf(d) \in OpenScopes(u)

Bound(u) ==
  /\ u \in DOMAIN info /\ Candidate(u, info[u].at)
  /\ info[u].class = Class(prog[info[u].at].t, Level(ScopeOf(info[u].at)))
  /\ \A d : Candidate(u, d) => ScopeOf(d) <= ScopeOf(info[u].at)

BindInv ==
  errors = {} =>
    \A u \in Uses :
      (phase = "pass2" /\ u < pos) \/ phase \in {"lower", "done"} => Bound(u)

LEMMA VisibleBound ==
  ASSUME WalkInv, phase = "pass2", pos \in Uses, Levels(The.n) # {}
  PROVE  LET s == Visible(The.n)
         IN  /\ Candidate(pos, s.at)
             /\ s.class = Class(prog[s.at].t, Level(ScopeOf(s.at)))
             /\ \A d : Candidate(pos, d) => ScopeOf(d) <= ScopeOf(s.at)
<1>. DEFINE n == The.n
            K == Known("pass2", pos)
            top == Max(Levels(n))
            s == scopes[top][n]
<1>1. Tree /\ pos \in Places /\ pos \in Nat
  BY TreeFacts DEF WalkInv, Uses
<1>2. PICK own : OwnedBy(own, scopes, pos) /\ Contents(own, scopes, K)
  BY DEF WalkInv, Built
<1>3. /\ Len(own) = Len(scopes) /\ Len(scopes) \in Nat
      /\ \A j \in 1 .. Len(own) : own[j] \in Nat
      /\ \A j, k \in 1 .. Len(own) : j < k => own[j] < own[k]
      /\ \A t : t \in OpenScopes(pos) <=> \E j \in 1 .. Len(own) : own[j] = t
  BY <1>2 DEF OwnedBy
<1>4. \A j \in 1 .. Len(own) : \A m :
        /\ m \in DOMAIN scopes[j] <=> \E d \in K : d \in Declarations(m) /\ ScopeOf(d) = own[j]
        /\ m \in DOMAIN scopes[j] => SymbolOf(scopes[j][m], m, own[j], K)
  BY <1>2 DEF Contents
<1>5. top \in Levels(n) /\ \A j \in Levels(n) : j <= top
  <2>1. Levels(n) \in SUBSET Nat /\ \A j \in Levels(n) : j <= Len(scopes)
    BY <1>3 DEF Levels, Here
  <2>. QED
    BY <1>3, <2>1, MaxIs
<1>6. top \in 1 .. Len(own) /\ n \in DOMAIN scopes[top]
  BY <1>3, <1>5 DEF Levels, Here
<1>. HIDE DEF top
<1>7. SymbolOf(s, n, own[top], K)
  BY <1>4, <1>6
<1>8. Candidate(pos, s.at)
  BY <1>3, <1>6, <1>7 DEF SymbolOf, Known, Candidate, The
<1>9. ASSUME NEW d, Candidate(pos, d) PROVE ScopeOf(d) <= ScopeOf(s.at)
  <2>1. d \in K /\ d \in Declarations(n)
    BY <1>9 DEF Candidate, Known, Declarations, The
  <2>2. PICK j \in 1 .. Len(own) : own[j] = ScopeOf(d)
    BY <1>3, <1>9 DEF Candidate
  <2>3. j \in Levels(n)
    BY <1>3, <1>4, <2>1, <2>2 DEF Levels, Here
  <2>4. j <= top
    BY <1>5, <2>3
  <2>5. own[j] <= own[top]
    BY <1>3, <1>6, <2>2, <2>4
  <2>. QED
    BY <1>7, <2>2, <2>5 DEF SymbolOf
<1>. QED
  BY <1>7, <1>8, <1>9 DEF SymbolOf, Visible, top

LEMMA SameBound ==
  ASSUME Tree, UNCHANGED <<prog, ends, up>>, NEW u \in Uses, Bound(u),
         u \in DOMAIN info', info'[u] = info[u]
  PROVE  Bound(u)'
<1>1. \A i : Skipped(i)' = Skipped(i)
  BY SameSkipped
<1>2. \A d : Candidate(u, d)' <=> Candidate(u, d)
  BY <1>1, SameTree DEF Candidate, Seen2
<1>3. \A d : ScopeOf(d)' = ScopeOf(d)
  BY SameTree
<1>. QED
  BY <1>2, <1>3 DEF Bound

LEMMA StepBind == WalkInv /\ BindInv /\ [Next]_vars => BindInv'
<1>. SUFFICES ASSUME WalkInv, BindInv, [Next]_vars, errors' = {},
                     NEW u \in Uses',
                     (phase' = "pass2" /\ u < pos') \/ phase' \in {"lower", "done"}
              PROVE  Bound(u)'
  BY DEF BindInv
<1>0. Tree
  BY DEF WalkInv
<1>1. CASE Pass1
  BY <1>1, Walking
<1>2. CASE Pass2
  <2>1. /\ pos \in Places /\ pos' = pos + 1 /\ UNCHANGED <<prog, ends, up, phase>>
        /\ phase = "pass2" /\ u \in Uses /\ pos \in Nat
    BY <1>0, <1>2, Walking, SameTree
  <2>2. u \in Nat /\ u < pos + 1
    BY <1>0, <2>1, TreeFacts DEF Uses
  <2>3. errors = {}
    BY <1>2 DEF Pass2, Declare2, Enum2, Function2, Open, Leave, Use2
  <2>4. CASE u < pos
    <3>1. Bound(u) /\ u \in DOMAIN info
      BY <2>1, <2>3, <2>4 DEF BindInv, Bound
    <3>2. info' = info \/ \E s : info' = Put(info, pos, s)
      BY <1>2 DEF Pass2, Declare2, Enum2, Function2, Open, Leave, Use2
    <3>3. u \in DOMAIN info' /\ info'[u] = info[u]
      BY <2>1, <2>2, <2>4, <3>1, <3>2 DEF Put
    <3>. QED
      BY <1>0, <2>1, <3>1, <3>3, SameBound
  <2>5. CASE u = pos
    <3>1. Use2
      <4>1. Is(pos, {"use"})
        BY <2>1, <2>5 DEF Uses
      <4>. QED
        BY <1>2, <4>1 DEF Pass2, Declare2, Enum2, Function2, Open, Leave, In, Is, Kind
    <3>2. Levels(The.n) # {} /\ info' = Put(info, pos, Visible(The.n))
      BY <3>1 DEF Use2
    <3>3. pos \in DOMAIN info' /\ info'[pos] = Visible(The.n)
      BY <3>2 DEF Put
    <3>. DEFINE s == Visible(The.n)
    <3>4. /\ Candidate(u, s.at)
          /\ s.class = Class(prog[s.at].t, Level(ScopeOf(s.at)))
          /\ \A d : Candidate(u, d) => ScopeOf(d) <= ScopeOf(s.at)
      BY <2>1, <2>5, <3>2, VisibleBound
    <3>5. \A i : Skipped(i)' = Skipped(i)
      BY <1>0, <2>1, SameSkipped
    <3>6. \A d : Candidate(u, d)' <=> Candidate(u, d)
      BY <1>0, <2>1, <3>5, SameTree DEF Candidate, Seen2
    <3>7. \A d : ScopeOf(d)' = ScopeOf(d)
      BY <1>0, <2>1, SameTree
    <3>. HIDE DEF s
    <3>8. info'[u] = s
      BY <2>5, <3>3 DEF s
    <3>. QED
      BY <2>1, <2>5, <3>3, <3>4, <3>6, <3>7, <3>8 DEF Bound
  <2>. QED
    BY <2>1, <2>2, <2>4, <2>5
<1>3. CASE Lowering
  <2>1. /\ UNCHANGED <<prog, ends, up, phase, errors, info>> /\ phase = "lower" /\ u \in Uses
    BY <1>0, <1>3, Walking, SameTree
  <2>. QED
    BY <1>0, <2>1, SameBound DEF BindInv, Bound
<1>4. CASE EarlyUse
  BY <1>4 DEF EarlyUse
<1>5. CASE NextPass
  <2>1. /\ UNCHANGED <<prog, ends, up, errors, info>> /\ pos = Len(prog) + 1 /\ pos' = 1
        /\ phase \in {"pass1", "pass2", "lower"} /\ u \in Uses /\ u \in Places /\ u \in Nat
        /\ phase' = "pass2" => phase = "pass1"
        /\ phase' \in {"lower", "done"} => phase \in {"pass2", "lower"}
    BY <1>0, <1>5, TreeFacts, SameTree DEF NextPass, WalkInv, Uses
  <2>2. u < pos /\ ~(u < 1)
    BY <1>0, <2>1, TreeFacts DEF Places
  <2>3. Bound(u)
    BY <2>1, <2>2 DEF BindInv
  <2>. QED
    BY <1>0, <2>1, <2>3, SameBound DEF Bound
<1>6. CASE UNCHANGED vars
  <2>1. UNCHANGED <<prog, ends, up, phase, pos, errors, info>> /\ u \in Uses
    BY <1>0, <1>6, SameTree DEF vars
  <2>. QED
    BY <1>0, <2>1, SameBound DEF BindInv, Bound
<1>. QED
  BY <1>1, <1>2, <1>3, <1>4, <1>5, <1>6 DEF Next, Pass1, Pass2, Lowering, Over

-----------------------------------------------------------------------------
(***************************************************************************)
(* The scopes of the stack and those of C, in the tree.                    *)
(***************************************************************************)
\* Around what is not at file level there is a function or a prototype.
LEMMA Outermost ==
  ASSUME Tree, NEW i \in Places, Encl(i) # 0
  PROVE  \E f : Is(f, {"fun", "proto"}) /\ Inside(i, f)
<1>. DEFINE S == {k \in DOMAIN ends : Inside(i, k)}
<1>1. S \in SUBSET Nat /\ S # {} /\ i \in Nat
  BY TreeFacts, EnclIs DEF Inside
<1>2. PICK f \in S : \A n \in S : f <= n
  <2>. HIDE DEF S
  <2>. QED
    BY <1>1, LeastNumber
<1>3. f \in DOMAIN ends /\ Inside(i, f) /\ f \in Places /\ f \in Nat /\ Is(f, Opens)
  BY <1>2, TreeFacts
<1>4. Encl(f) = 0
  <2>1. ASSUME Encl(f) # 0 PROVE FALSE
    <3>1. Inside(f, Encl(f)) /\ Encl(f) \in Nat
      BY <1>3, <2>1, EnclIs
    <3>2. Inside(i, Encl(f))
      BY <1>1, <1>3, <3>1, InsideOf
    <3>3. f <= Encl(f)
      BY <1>2, <3>2 DEF Inside
    <3>. QED
      BY <1>3, <3>1, <3>3 DEF Inside
  <2>. QED
    BY <2>1
<1>5. \A ts : ~Is(0, ts)
  BY DEF Is, Kind
<1>6. Is(f, {"fun", "proto"})
  BY <1>3, <1>4, <1>5, ShapeFacts DEF Is, Kind, Opens
<1>. QED
  BY <1>3, <1>6

LEMMA ScopeEncl ==
  ASSUME Tree, NEW i \in Places, ~Is(i, {"end"})
  PROVE  /\ \A k : k \in OpenScopes(i) <=> k = 0 \/ (Inside(i, k) /\ ~Is(k, {"switch"}))
         /\ ScopeOf(i) <= Encl(i)
         /\ ScopeOf(i) = 0 <=> Encl(i) = 0
         /\ ScopeOf(i) # 0 => Inside(i, ScopeOf(i)) /\ ~Is(ScopeOf(i), {"switch"})
         /\ ~Is(Encl(i), {"switch"}) => ScopeOf(i) = Encl(i)
<1>1. i \in Nat /\ i # 0 /\ Encl(i) \in Nat
  BY TreeFacts, EnclIs
<1>2. \A k : k \in OpenScopes(i) <=> k = 0 \/ (Inside(i, k) /\ ~Is(k, {"switch"}))
  <2>1. ASSUME NEW k \in DOMAIN ends PROVE i <= ends[k] <=> i < ends[k]
    <3>1. Is(ends[k], {"end"}) /\ ends[k] \in Nat
      BY TreeFacts
    <3>2. ends[k] # i
      BY <3>1
    <3>. QED
      BY <1>1, <3>1, <3>2
  <2>. QED
    BY <2>1 DEF OpenScopes, Inside
<1>3. ScopeOf(i) \in Nat /\ ScopeOf(i) \in OpenScopes(i) /\ \A k \in OpenScopes(i) : k <= ScopeOf(i)
  BY <1>1, ScopeIs
<1>4. ScopeOf(i) # 0 => Inside(i, ScopeOf(i)) /\ ~Is(ScopeOf(i), {"switch"})
  BY <1>2, <1>3
<1>5. ScopeOf(i) <= Encl(i)
  BY <1>1, <1>3, <1>4, EnclIs
<1>6. ~Is(Encl(i), {"switch"}) => ScopeOf(i) = Encl(i)
  <2>1. SUFFICES ASSUME ~Is(Encl(i), {"switch"}) PROVE ScopeOf(i) = Encl(i)
    OBVIOUS
  <2>2. Encl(i) \in OpenScopes(i)
    BY <1>2, <2>1, EnclIs
  <2>. QED
    BY <1>1, <1>3, <1>5, <2>2
<1>7. Encl(i) # 0 => ScopeOf(i) # 0
  <2>1. SUFFICES ASSUME Encl(i) # 0 PROVE ScopeOf(i) # 0
    OBVIOUS
  <2>2. PICK f : Is(f, {"fun", "proto"}) /\ Inside(i, f)
    BY <2>1, Outermost
  <2>3. ~Is(f, {"switch"}) /\ f \in Nat /\ f # 0
    BY <2>2, TreeFacts DEF Is, Kind, Inside
  <2>4. f \in OpenScopes(i)
    BY <1>2, <2>2, <2>3
  <2>. QED
    BY <1>3, <2>3, <2>4
<1>. QED
  BY <1>1, <1>2, <1>3, <1>4, <1>5, <1>6, <1>7

LEMMA CEnclIs ==
  ASSUME Tree, NEW i \in Places
  PROVE  /\ CEncl(i) \in Nat /\ CEncl(i) <= Encl(i)
         /\ CEncl(i) = 0 <=> Encl(i) = 0
         /\ CEncl(i) # 0 => Inside(i, CEncl(i))
         /\ CEncl(i) # Encl(i) =>
              /\ Is(Encl(i), {"block"}) /\ Is(CEncl(i), {"fun"}) /\ Encl(Encl(i)) = CEncl(i)
              /\ Inside(Encl(i), CEncl(i)) /\ CEncl(i) < Encl(i)
         /\ CEncl(i) = Encl(i) /\ Encl(i) # 0 =>
              ~(Is(Encl(i), {"block"}) /\ Is(Encl(Encl(i)), {"fun"}))
<1>1. Encl(i) \in Nat /\ (Encl(i) = 0 \/ Inside(i, Encl(i))) /\ i \in Nat
  BY EnclIs, TreeFacts
<1>2. CASE Is(Encl(i), {"block"}) /\ Is(Encl(Encl(i)), {"fun"})
  <2>1. Encl(i) \in Places /\ Encl(i) # 0 /\ Encl(Encl(i)) # 0
    BY <1>2, TreeFacts DEF Is, Kind, Places
  <2>2. Inside(i, Encl(i)) /\ Inside(Encl(i), Encl(Encl(i))) /\ Encl(Encl(i)) \in Nat
    BY <1>1, <2>1, EnclIs
  <2>3. Inside(i, Encl(Encl(i))) /\ Encl(Encl(i)) < Encl(i)
    BY <1>1, <2>2, InsideOf DEF Inside
  <2>4. CEncl(i) = Encl(Encl(i))
    BY <1>2 DEF CEncl
  <2>. QED
    BY <1>1, <1>2, <2>1, <2>2, <2>3, <2>4
<1>3. CASE ~(Is(Encl(i), {"block"}) /\ Is(Encl(Encl(i)), {"fun"}))
  <2>1. CEncl(i) = Encl(i)
    BY <1>3 DEF CEncl
  <2>. QED
    BY <1>1, <1>3, <2>1
<1>. QED
  BY <1>2, <1>3

\* What is in a node is directly in it or in something that is.
LEMMA ChildAround ==
  ASSUME Tree, NEW i \in Places, NEW f, Inside(i, f), Encl(i) # f
  PROVE  \E c \in DOMAIN ends : Inside(i, c) /\ Encl(c) = f
<1>. DEFINE S == {k \in DOMAIN ends : Inside(i, k) /\ k > f}
<1>1. f \in Nat /\ i \in Nat /\ f # 0
  BY TreeFacts DEF Inside
<1>2. S \in SUBSET Nat /\ S # {}
  <2>1. f <= Encl(i) /\ Encl(i) \in Nat /\ (Encl(i) = 0 \/ Inside(i, Encl(i)))
    BY EnclIs
  <2>2. Encl(i) \in S
    BY <1>1, <2>1 DEF Inside
  <2>. QED
    BY <2>2, TreeFacts
<1>3. PICK c \in S : \A n \in S : c <= n
  <2>. HIDE DEF S
  <2>. QED
    BY <1>2, LeastNumber
<1>4. c \in DOMAIN ends /\ Inside(i, c) /\ c > f /\ c \in Places /\ c \in Nat
  BY <1>3, TreeFacts
<1>5. Inside(c, f)
  BY <1>1, <1>4, Nested
<1>6. Encl(c) \in Nat /\ f <= Encl(c) /\ Inside(c, Encl(c))
  BY <1>1, <1>4, <1>5, EnclIs
<1>7. Encl(c) = f
  <2>1. ASSUME Encl(c) > f PROVE FALSE
    <3>1. Inside(i, Encl(c))
      BY <1>1, <1>4, <1>6, InsideOf
    <3>2. c <= Encl(c)
      BY <1>3, <1>6, <2>1, <3>1 DEF Inside
    <3>. QED
      BY <1>4, <1>6, <3>2 DEF Inside
  <2>. QED
    BY <1>1, <1>6, <2>1
<1>. QED
  BY <1>4, <1>7

\* The body of a function is the last that is directly in it.
LEMMA BodyLast ==
  ASSUME Tree, NEW i \in Places, NEW b \in Places, Is(b, {"block"}), Is(Encl(b), {"fun"}),
         Encl(i) = Encl(b), ~Is(i, {"end"})
  PROVE  i <= b
<1>1. Shaped(prog) /\ ends = Ends(prog) /\ up = Parents(prog, ends)
  BY UnitsAssumption DEF Tree
<1>2. b \in 1 .. Len(prog) /\ i \in 1 .. Len(prog) /\ prog[b].t = "block" /\ prog[i].t # "end"
  BY DEF Is, Kind, Places
<1>3. up[b] = up[i] /\ up[b] \in DOMAIN ends /\ prog[up[b]].t = "fun"
  BY TreeFacts DEF Encl, Is, Kind, Opens
<1>4. \A j, k \in 1 .. Len(prog) :
        prog[k].t = "block" /\ up[k] \in {m \in DOMAIN ends : prog[m].t \in {"fun"}}
          /\ up[j] = up[k] /\ prog[j].t # "end" => j <= k
  BY <1>1 DEF Shaped
<1>5. up[b] \in {m \in DOMAIN ends : prog[m].t \in {"fun"}}
  BY <1>3
<1>. QED
  BY <1>2, <1>3, <1>4, <1>5

\* What is in a function and no parameter of it is in its one body.
LEMMA InBody ==
  ASSUME Tree, NEW i \in Places, NEW f, Is(f, {"fun"}), Inside(i, f), Encl(i) # f,
         NEW b \in Places, Is(b, {"block"}), Encl(b) = f
  PROVE  Inside(i, b)
<1>1. PICK c \in DOMAIN ends : Inside(i, c) /\ Encl(c) = f
  BY ChildAround
<1>2. c \in Places /\ Is(c, Opens) /\ f # 0 /\ c \in Nat /\ b \in Nat
  BY <1>1, TreeFacts DEF Is, Kind
<1>3. Is(c, {"block"}) /\ ~Is(c, {"end"}) /\ ~Is(b, {"end"})
  BY <1>1, <1>2, ShapeFacts, Is(f, {"fun"}) DEF Is, Kind, Opens
<1>4. b <= c /\ c <= b
  BY <1>1, <1>2, <1>3, BodyLast
<1>. QED
  BY <1>1, <1>2, <1>4

\* What C has in scope at a use is on the stack there, unless pass 2 has not
\* entered it or a switch is left behind.
LEMMA InScopeOpen ==
  ASSUME Tree, NEW u \in Uses, NEW d \in Places, Is(d, Declares), InScope(u, d)
  PROVE  ScopeOf(d) \in OpenScopes(u)
<1>1. /\ u \in Places /\ u \in Nat /\ d \in Nat /\ ~Is(u, {"end"}) /\ ~Is(d, {"end"})
      /\ Is(Encl(u), {"block", "for", "switch"})
  <2>1. u \in Places /\ Is(u, {"use"})
    BY DEF Uses
  <2>. QED
    BY <2>1, ShapeFacts, TreeFacts DEF Is, Kind, Declares
<1>2. CASE CEncl(d) = 0
  <2>1. ScopeOf(d) = 0
    BY <1>1, <1>2, CEnclIs, ScopeEncl
  <2>. QED
    BY <1>1, <2>1, ScopeIs
<1>3. CASE CEncl(d) # 0
  <2>. DEFINE c == CEncl(d)
              s == ScopeOf(d)
  <2>1. Inside(d, c) /\ c \in Nat /\ c # 0 /\ Encl(d) # 0
    BY <1>3, CEnclIs
  <2>2. Inside(u, c)
    BY <1>3, <2>1 DEF InScope, Inside, Close
  <2>3. s # 0 /\ Inside(d, s) /\ ~Is(s, {"switch"}) /\ s <= Encl(d) /\ s \in Nat
    BY <1>1, <2>1, ScopeEncl, ScopeIs
  <2>4. Inside(u, s)
    <3>1. CASE Is(Encl(d), {"switch"})
      <4>1. c = Encl(d)
        BY <3>1, CEnclIs DEF Is, Kind
      <4>2. s < c
        BY <2>1, <2>3, <3>1, <4>1
      <4>3. Inside(c, s)
        BY <1>1, <2>1, <2>3, <4>2, Nested
      <4>. QED
        BY <1>1, <2>2, <4>3, InsideOf
    <3>2. CASE ~Is(Encl(d), {"switch"}) /\ c # Encl(d)
      <4>1. /\ s = Encl(d) /\ Is(s, {"block"}) /\ Is(c, {"fun"}) /\ Encl(s) = c /\ s \in Places
        BY <1>1, <3>2, ScopeEncl, CEnclIs, TreeFacts DEF Inside, Is, Kind, Places
      <4>2. Encl(u) # c
        BY <1>1, <4>1 DEF Is, Kind
      <4>. QED
        BY <1>1, <2>2, <4>1, <4>2, InBody
    <3>3. CASE ~Is(Encl(d), {"switch"}) /\ c = Encl(d)
      BY <1>1, <2>2, <3>3, ScopeEncl
    <3>. QED
      BY <3>1, <3>2, <3>3
  <2>. QED
    BY <1>1, <2>3, <2>4, ScopeEncl
<1>. QED
  BY <1>2, <1>3

\* C's scope of a use is that of one of the declarations in scope, if there is one.
LEMMA CScopeIs ==
  ASSUME Tree, NEW u \in Uses, \E d \in Declarations(prog[u].n) : InScope(u, d)
  PROVE  /\ CScope(u) # NoScope
         /\ \E d \in CDeclarations(u) : InScope(u, d)
         /\ \A d \in Declarations(prog[u].n) : InScope(u, d) => CEncl(d) <= CScope(u)
         /\ CScope(u) \in Nat
<1>. DEFINE ds == {d \in Declarations(prog[u].n) : InScope(u, d)}
            cs == {CEncl(d) : d \in ds}
<1>1. u \in Nat /\ ds \subseteq Places /\ ds # {} /\ CScope(u) = Max(cs)
  BY TreeFacts DEF CScope, Uses, Declarations
<1>2. cs \in SUBSET Nat /\ cs # {}
  BY <1>1, CEnclIs
<1>3. \A x \in cs : x <= Len(prog)
  <2>. SUFFICES ASSUME NEW d \in ds PROVE CEncl(d) <= Len(prog)
    OBVIOUS
  <2>1. d \in Places /\ CEncl(d) \in Nat /\ Len(prog) \in Nat /\ d \in Nat /\ d <= Len(prog)
    BY <1>1, CEnclIs, TreeFacts DEF Places
  <2>2. CEncl(d) = 0 \/ CEncl(d) < d
    BY <2>1, CEnclIs DEF Inside
  <2>. QED
    BY <2>1, <2>2
<1>4. Max(cs) \in cs /\ \A x \in cs : x <= Max(cs)
  <2>1. Len(prog) \in Nat
    BY TreeFacts
  <2>. HIDE DEF cs
  <2>. QED
    BY <1>2, <1>3, <2>1, MaxIs
<1>5. \A d \in ds : d < u
  BY DEF InScope
<1>6. CScope(u) \in Nat /\ CScope(u) <= Len(prog) /\ Len(prog) \in Nat
  BY <1>1, <1>2, <1>3, <1>4, TreeFacts
<1>7. CScope(u) # NoScope
  BY <1>6 DEF NoScope
<1>8. \E d \in CDeclarations(u) : InScope(u, d)
  <2>1. PICK d \in ds : CScope(u) = CEncl(d)
    BY <1>1, <1>4
  <2>. QED
    BY <1>5, <2>1 DEF CDeclarations
<1>9. \A d \in ds : CEncl(d) <= CScope(u)
  BY <1>1, <1>4
<1>. QED
  BY <1>6, <1>7, <1>8, <1>9

\* Pass 2 meets the declarations of C's scope, away from the departures.
LEMMA FoundCandidate ==
  ASSUME Tree, NEW u \in Uses, ~Departs, CScope(u) # NoScope, NEW d \in CDeclarations(u),
         InScope(u, d)
  PROVE  Candidate(u, d) /\ (Encl(d) # 0 => Is(d, {"obj", "param"}))
<1>1. /\ d \in Places /\ Is(d, Declares) /\ ~Is(d, {"end"}) /\ d \in Declarations(prog[u].n) /\ d < u
  BY DEF CDeclarations, Declarations, Is, Kind, Declares
<1>2. Encl(d) # 0 => Is(d, {"obj", "param"}) /\ ~Skipped(d)
  <2>1. SUFFICES ASSUME Encl(d) # 0 PROVE Is(d, {"obj", "param"}) /\ ~Skipped(d)
    OBVIOUS
  <2>2. ~Is(d, {"enum"}) /\ ~Skipped(d)
    BY <2>1 DEF Departs
  <2>3. ~Is(d, {"fun", "proto"})
    BY <1>1, <2>1, ShapeFacts
  <2>. QED
    BY <1>1, <2>2, <2>3 DEF Is, Kind, Declares
<1>. QED
  BY <1>1, <1>2, ScopeEncl, InScopeOpen DEF Candidate, Seen2

LEMMA BoundAsC ==
  ASSUME Tree, NEW u \in Uses, Bound(u), ~Departs
  PROVE  CScope(u) # NoScope /\ CEncl(info[u].at) = CScope(u)
<1>. DEFINE a == info[u].at
            n == prog[u].n
            c == CScope(u)
<1>1. /\ u \in Places /\ u \in Nat /\ ~Is(u, {"end"}) /\ Is(u, {"use"}) /\ Encl(u) # 0
      /\ Is(Encl(u), {"block", "for", "switch"})
  <2>1. u \in Places /\ Is(u, {"use"})
    BY DEF Uses
  <2>. QED
    BY <2>1, ShapeFacts, TreeFacts DEF Is, Kind
<1>2. /\ a \in Places /\ a \in Declarations(n) /\ Is(a, Declares) /\ a \in Nat /\ ~Is(a, {"end"})
      /\ Seen2(a, u) /\ ScopeOf(a) \in OpenScopes(u) /\ prog[a].n = n
      /\ \A d : Candidate(u, d) => ScopeOf(d) <= ScopeOf(a)
  BY TreeFacts DEF Bound, Candidate, Declarations, Is, Kind, Declares
<1>. HIDE DEF a
\* A name of a switch is known in that switch alone.
<1>3. ASSUME NEW d \in Places, Is(d, {"obj", "enum"}), Is(Encl(d), {"switch"}), prog[d].n = n,
             NEW i \in {u, a}, Encl(i) # 0, i = u => d < u
      PROVE  Inside(i, Encl(d))
  <2>1. i \in Places /\ Is(i, Declares \cup {"use"}) /\ prog[i].n = prog[d].n /\ d \in Nat
    BY <1>1, <1>2, <1>3, TreeFacts DEF Is, Kind
  <2>2. Is(i, {"use"}) => i > d
    BY <1>1, <1>2, <1>3, <2>1 DEF Is, Kind, Declares
  <2>3. Encl(d) < i /\ i < Close(Encl(d))
    BY <1>3, <2>1, <2>2 DEF Departs
  <2>4. Encl(d) \in DOMAIN ends
    BY <1>3, TreeFacts DEF Is, Kind, Opens
  <2>. QED
    BY <2>3, <2>4 DEF Inside, Close
\* What pass 2 has bound is in scope in C, or of the file.
<1>4. ASSUME ScopeOf(a) # 0 PROVE InScope(u, a) /\ CEncl(a) # 0
  <2>1. a < u /\ Is(a, {"obj", "param"}) /\ Encl(a) # 0 /\ CEncl(a) # 0 /\ CEncl(a) \in Nat
    BY <1>2, <1>4, ScopeEncl, CEnclIs DEF Seen2
  <2>2. Inside(u, Encl(a))
    <3>1. CASE Is(Encl(a), {"switch"})
      <4>1. Is(a, {"obj", "enum"})
        BY <1>2, <2>1, <3>1, ShapeFacts DEF Is, Kind
      <4>. QED
        BY <1>1, <1>2, <1>3, <2>1, <3>1, <4>1
    <3>2. CASE ~Is(Encl(a), {"switch"})
      BY <1>1, <1>2, <1>4, <3>2, ScopeEncl
    <3>. QED
      BY <3>1, <3>2
  <2>3. Inside(u, CEncl(a))
    BY <1>1, <1>2, <2>2, CEnclIs, InsideOf
  <2>. QED
    BY <2>1, <2>3 DEF InScope, Inside, Close
<1>5. \E d \in Declarations(n) : InScope(u, d)
  <2>1. SUFFICES ASSUME ~\E d \in Declarations(n) : InScope(u, d) PROVE FALSE
    OBVIOUS
  <2>2. CScope(u) = NoScope
    BY <2>1 DEF CScope
  <2>3. ScopeOf(a) = 0 /\ Encl(a) = 0
    BY <1>2, <1>4, <2>1, ScopeEncl
  <2>. QED
    BY <1>2, <2>2, <2>3 DEF Departs
<1>6. /\ c # NoScope /\ c \in Nat
      /\ \A d \in Declarations(n) : InScope(u, d) => CEncl(d) <= c
      /\ \E d \in CDeclarations(u) : InScope(u, d)
  BY <1>5, CScopeIs
<1>7. PICK d \in CDeclarations(u) : InScope(u, d)
  BY <1>6
<1>8. /\ d \in Places /\ d \in Nat /\ Is(d, Declares) /\ ~Is(d, {"end"}) /\ prog[d].n = n
      /\ d \in Declarations(n) /\ CEncl(d) = c /\ d < u
  BY <1>7, TreeFacts DEF CDeclarations, Declarations, Is, Kind, Declares
<1>9. Encl(d) # 0 => Is(d, {"obj", "param"})
  BY <1>6, <1>7, FoundCandidate
<1>10. Candidate(u, d)
  BY <1>6, <1>7, FoundCandidate
<1>11. ScopeOf(d) <= ScopeOf(a) /\ ScopeOf(d) \in Nat /\ ScopeOf(a) \in Nat
  BY <1>2, <1>8, <1>10, ScopeIs
<1>12. CEncl(a) <= c /\ CEncl(a) \in Nat
  <2>1. CEncl(a) \in Nat /\ (CEncl(a) = 0 <=> Encl(a) = 0) /\ (ScopeOf(a) = 0 <=> Encl(a) = 0)
    BY <1>2, CEnclIs, ScopeEncl
  <2>. QED
    BY <1>2, <1>4, <1>6, <2>1
<1>13. ASSUME CEncl(a) < c PROVE FALSE
  <2>. DEFINE e == Encl(a)
              f == Encl(d)
              x == CEncl(a)
  <2>1. /\ c # 0 /\ Inside(d, c) /\ f # 0 /\ f \in Nat /\ ScopeOf(d) # 0 /\ ScopeOf(a) # 0
        /\ Is(d, {"obj", "param"})
    BY <1>6, <1>8, <1>9, <1>11, <1>12, <1>13, CEnclIs, ScopeEncl, EnclIs
  <2>2. Inside(u, c)
    BY <1>7, <1>8, <2>1 DEF InScope, Inside, Close
  <2>3. /\ x # 0 /\ Inside(u, x) /\ e \in Nat /\ e # 0 /\ ScopeOf(a) <= e /\ Inside(a, e)
        /\ Inside(a, x)
    BY <1>2, <1>4, <2>1, CEnclIs, ScopeEncl, EnclIs DEF InScope, Inside, Close
  <2>4. Inside(u, ScopeOf(a))
    BY <1>1, <1>2, <2>1, ScopeEncl
  <2>. HIDE DEF e, f, x
  <2>5. CASE Is(f, {"switch"})
    <3>1. c = f
      BY <1>8, <2>5, CEnclIs DEF Is, Kind, f
    <3>2. Is(d, {"obj", "enum"})
      BY <1>8, <2>1, <2>5, ShapeFacts DEF Is, Kind, f
    <3>3. Inside(a, c) /\ c <= e
      BY <1>2, <1>3, <1>8, <2>3, <2>5, <3>1, <3>2, EnclIs DEF e, f
    <3>4. x # e /\ x < e
      BY <1>12, <1>13, <1>6, <2>3, <3>3 DEF x
    <3>5. Is(e, {"block"}) /\ Encl(e) = x /\ e \in Places
      BY <1>2, <3>4, CEnclIs, TreeFacts DEF e, x, Inside, Is, Kind, Places
    <3>6. c # e
      BY <2>5, <3>1, <3>5 DEF Is, Kind
    <3>7. Inside(e, c)
      BY <1>2, <1>6, <2>3, <3>3, <3>6, Nested
    <3>8. c <= x
      BY <3>5, <3>7, EnclIs
    <3>. QED
      BY <1>6, <1>12, <1>13, <3>8 DEF x
  <2>6. CASE ~Is(f, {"switch"}) /\ c # f
    <3>1. Is(c, {"fun"}) /\ c \in Places
      BY <1>8, <2>6, CEnclIs, TreeFacts DEF f, Is, Kind, Places
    <3>2. Inside(c, x)
      BY <1>1, <1>13, <2>2, <2>3, Nested DEF x
    <3>3. x <= Encl(c) /\ Encl(c) = 0
      BY <3>1, <3>2, EnclIs, ShapeFacts DEF Is, Kind
    <3>. QED
      BY <1>12, <2>3, <3>3 DEF x
  <2>7. CASE ~Is(f, {"switch"}) /\ c = f
    <3>1. c <= ScopeOf(a) /\ c <= e
      BY <1>6, <1>8, <1>11, <2>3, <2>7, ScopeEncl DEF f
    <3>2. x # e
      BY <1>6, <1>12, <1>13, <2>3, <3>1 DEF x
    <3>3. Is(e, {"block"}) /\ Is(x, {"fun"}) /\ Encl(e) = x /\ e \in Places /\ ~Is(e, {"switch"})
      BY <1>2, <3>2, CEnclIs, TreeFacts DEF e, x, Inside, Is, Kind, Places
    <3>4. ScopeOf(a) = e
      BY <1>2, <3>3, ScopeEncl DEF e
    <3>5. c # e
      BY <1>8, <2>1, <2>7, <3>3, CEnclIs DEF f
    <3>6. Inside(e, c)
      BY <1>1, <1>6, <2>2, <2>3, <2>4, <3>1, <3>4, <3>5, Nested
    <3>7. c <= x
      BY <3>3, <3>6, EnclIs
    <3>. QED
      BY <1>6, <1>12, <1>13, <3>7 DEF x
  <2>. QED
    BY <2>5, <2>6, <2>7
<1>. QED
  BY <1>6, <1>12, <1>13 DEF a

-----------------------------------------------------------------------------
\* BindsAsC, for every unit: an accepted unit's uses refer to the declarations
\* C has them refer to, away from the listed departures.
THEOREM BindingCorrect == Spec => []BindsAsC
<1>1. Init => WalkInv /\ BindInv
  BY InitWalk DEF Init, BindInv
<1>2. WalkInv /\ BindInv /\ [Next]_vars => (WalkInv /\ BindInv)'
  BY StepWalk, StepBind
<1>3. WalkInv /\ BindInv => BindsAsC
  <2>. SUFFICES ASSUME WalkInv, BindInv, Accepted, ~Departs, NEW u \in Uses
                PROVE  CEncl(info[u].at) = CScope(u) /\ prog[info[u].at].n = prog[u].n
    BY DEF BindsAsC
  <2>1. Tree /\ Bound(u)
    BY DEF WalkInv, BindInv, Accepted, Done
  <2>2. prog[info[u].at].n = prog[u].n
    BY <2>1 DEF Bound, Candidate, Declarations
  <2>. QED
    BY <2>1, <2>2, BoundAsC
<1>. QED
  BY <1>1, <1>2, <1>3, PTL DEF Spec

-----------------------------------------------------------------------------
(***************************************************************************)
(* What is diagnosed. A stack has a name where a declaration has been      *)
(* entered; two declarations of one name and scope are a clash.            *)
(***************************************************************************)
LEMMA LevelsHave ==
  ASSUME WalkInv, phase \in {"pass1", "pass2"}, NEW d \in Known(phase, pos), NEW n,
         d \in Declarations(n), ScopeOf(d) \in OpenScopes(pos)
  PROVE  Levels(n) # {}
<1>1. PICK own : OwnedBy(own, scopes, pos) /\ Contents(own, scopes, Known(phase, pos))
  BY DEF WalkInv, Built
<1>2. PICK j \in 1 .. Len(own) : own[j] = ScopeOf(d)
  BY <1>1 DEF OwnedBy
<1>3. n \in DOMAIN scopes[j]
  BY <1>1, <1>2 DEF Contents
<1>4. j \in Levels(n)
  BY <1>1, <1>3 DEF OwnedBy, Levels, Here
<1>. QED
  BY <1>4

LEMMA CurrentIs ==
  ASSUME WalkInv, phase \in {"pass1", "pass2"}, pos \in Places, NEW n
  PROVE  /\ Current(n) <=> \E d \in Known(phase, pos) : d \in Declarations(n) /\ ScopeOf(d) = ScopeOf(pos)
         /\ Current(n) => /\ scopes[Here][n].at \in Known(phase, pos)
                          /\ scopes[Here][n].at \in Declarations(n)
                          /\ ScopeOf(scopes[Here][n].at) = ScopeOf(pos)
<1>1. PICK own : OwnedBy(own, scopes, pos) /\ Contents(own, scopes, Known(phase, pos))
  BY DEF WalkInv, Built
<1>2. Tree /\ pos \in Nat
  BY TreeFacts DEF WalkInv
<1>3. own[Len(scopes)] = ScopeOf(pos) /\ Len(scopes) \in 1 .. Len(own)
  <2>1. Len(own) = Len(scopes)
    BY <1>1 DEF OwnedBy
  <2>. QED
    BY <1>1, <1>2, <2>1, OwnTop
<1>. QED
  BY <1>1, <1>3 DEF Contents, Current, Here, SymbolOf

Group(d, e) == prog[d].n = prog[e].n /\ ScopeOf(d) = ScopeOf(e)
Fits(d, e) ==
  IsFunction(d) /\ IsFunction(e) /\ prog[d].w = prog[e].w /\ {prog[d].t, prog[e].t} # {"fun"}
ClashFree(K) == \A d, e \in K : d < e /\ Group(d, e) => Fits(d, e)
\* The symbol of a function is marked when the function is defined.
MarkedIn(sc, K) ==
  \A j \in 1 .. Len(sc) : \A n \in DOMAIN sc[j] :
    sc[j][n].defined <=>
      \E d \in K : d \in Declarations(n) /\ ScopeOf(d) = ScopeOf(sc[j][n].at) /\ Is(d, {"fun"})
Marked == MarkedIn(scopes, Known("pass1", pos))

NamesInv ==
  /\ errors = {} =>
       IF phase = "pass1" THEN ClashFree(Known("pass1", pos)) /\ Marked
                          ELSE ClashFree(Known("pass1", Len(prog) + 1))
  /\ errors # {} => ~CLegal \/ Departs

\* A name that is declared twice in a scope of the stack is so in one of C.
LEMMA GroupEncl ==
  ASSUME Tree, ~Departs, NEW d \in Places, NEW e \in Places, Is(d, Declares), Is(e, Declares),
         Group(d, e)
  PROVE  Encl(d) = Encl(e) /\ CEncl(d) = CEncl(e)
<1>1. ASSUME NEW i \in Places, NEW j \in Places, Is(i, Declares), Is(j, Declares), Group(i, j),
             Encl(i) < Encl(j)
      PROVE  FALSE
  <2>1. /\ Encl(i) \in Nat /\ Encl(j) \in Nat /\ ScopeOf(i) <= Encl(i) /\ ScopeOf(i) \in Nat
        /\ i \in Nat /\ j \in Nat /\ ~Is(i, {"end"}) /\ ~Is(j, {"end"})
        /\ ScopeOf(i) = 0 <=> Encl(i) = 0
    <3>1. ~Is(i, {"end"}) /\ ~Is(j, {"end"})
      BY <1>1 DEF Is, Kind, Declares
    <3>. QED
      BY <1>1, <3>1, EnclIs, ScopeEncl, ScopeIs, TreeFacts
  <2>2. Is(Encl(j), {"switch"})
    <3>1. ASSUME ~Is(Encl(j), {"switch"}) PROVE FALSE
      <4>1. ScopeOf(j) = Encl(j)
        BY <1>1, <2>1, <3>1, ScopeEncl
      <4>. QED
        BY <1>1, <2>1, <4>1 DEF Group
    <3>. QED
      BY <3>1
  <2>3. Is(j, {"obj", "enum"})
    BY <1>1, <2>2, ShapeFacts DEF Is, Kind, Declares
  <2>4. Encl(i) # 0
    BY <1>1, <2>1, ScopeEncl DEF Group
  <2>5. Is(i, Declares \cup {"use"}) /\ ~Is(i, {"use"}) /\ prog[i].n = prog[j].n
    BY <1>1 DEF Is, Kind, Declares, Group
  <2>6. Encl(j) < i /\ i < Close(Encl(j))
    BY <1>1, <2>2, <2>3, <2>4, <2>5 DEF Departs
  <2>7. Inside(i, Encl(j))
    BY <2>2, <2>6, TreeFacts DEF Inside, Close, Is, Kind, Opens
  <2>8. Encl(j) <= Encl(i)
    BY <1>1, <2>7, EnclIs
  <2>. QED
    BY <1>1, <2>1, <2>8
<1>2. Encl(d) \in Nat /\ Encl(e) \in Nat /\ Group(e, d)
  BY EnclIs DEF Group
<1>3. Encl(d) = Encl(e)
  BY <1>1, <1>2
<1>. QED
  BY <1>3 DEF CEncl

\* One of C is so in a scope of the stack, but for parameters and the body.
LEMMA CEnclGroup ==
  ASSUME Tree, ~Departs, NEW d \in Places, NEW e \in Places, Is(d, Declares), Is(e, Declares),
         d < e, prog[d].n = prog[e].n, CEncl(d) = CEncl(e)
  PROVE  Encl(d) = Encl(e) /\ Group(d, e)
<1>1. /\ d \in Nat /\ e \in Nat /\ ~Is(d, {"end"}) /\ ~Is(e, {"end"})
      /\ Encl(d) \in Nat /\ Encl(e) \in Nat
  BY TreeFacts, EnclIs DEF Is, Kind, Declares
<1>2. ASSUME NEW i \in {d, e}, NEW j \in {d, e}, CEncl(i) = Encl(i), CEncl(j) # Encl(j) PROVE FALSE
  <2>. DEFINE f == CEncl(j)
              b == Encl(j)
  <2>1. /\ i \in Places /\ j \in Places /\ Is(i, Declares) /\ Is(j, Declares) /\ prog[i].n = prog[j].n
        /\ Encl(i) = f /\ i \in Nat /\ j \in Nat /\ i # j /\ ~Is(i, {"end"})
    BY <1>1, <1>2
  <2>2. Is(b, {"block"}) /\ Is(f, {"fun"}) /\ Encl(b) = f /\ b \in Places /\ b \in Nat /\ Inside(j, b)
    BY <1>2, <2>1, CEnclIs, EnclIs, TreeFacts DEF Is, Kind, Places, Inside
  <2>3. Is(i, {"param"})
    BY <2>1, <2>2, ShapeFacts, TreeFacts DEF Is, Kind, Declares, Places
  <2>4. Is(j, {"obj", "enum"})
    BY <2>1, <2>2, ShapeFacts, TreeFacts DEF Is, Kind, Declares, Places
  <2>5. i <= b /\ b < j
    BY <2>1, <2>2, BodyLast DEF Inside
  <2>6. i < j
    BY <2>1, <2>2, <2>5
  <2>7. CEncl(i) = CEncl(j)
    BY <1>2
  <2>. QED
    BY <2>1, <2>3, <2>4, <2>6, <2>7 DEF Departs
<1>3. Encl(d) = Encl(e)
  <2>1. CASE CEncl(d) = Encl(d)
    BY <1>2, <2>1
  <2>2. CASE CEncl(d) # Encl(d) /\ CEncl(e) # Encl(e)
    <3>. DEFINE b == Encl(d)
                c == Encl(e)
    <3>1. /\ Is(b, {"block"}) /\ Is(c, {"block"}) /\ Encl(b) = Encl(c) /\ Is(Encl(b), {"fun"})
          /\ b \in Places /\ c \in Places /\ b \in Nat /\ c \in Nat
          /\ ~Is(b, {"end"}) /\ ~Is(c, {"end"})
      BY <2>2, CEnclIs, TreeFacts DEF Is, Kind, Places
    <3>2. b <= c /\ c <= b
      <4>. HIDE DEF b, c
      <4>. QED
        BY <3>1, BodyLast
    <3>. QED
      BY <3>1, <3>2
  <2>. QED
    BY <1>2, <2>1, <2>2
<1>4. OpenScopes(d) = OpenScopes(e)
  <2>1. ASSUME NEW i \in {d, e}, NEW j \in {d, e}, NEW k, Inside(i, k) PROVE Inside(j, k)
    <3>1. k <= Encl(i) /\ k \in Nat /\ Encl(i) = Encl(j) /\ Encl(i) \in Nat /\ k # 0
      BY <1>1, <1>3, <2>1, EnclIs, TreeFacts DEF Inside
    <3>2. Inside(j, Encl(i)) /\ Inside(i, Encl(i))
      BY <1>1, <3>1, EnclIs
    <3>3. CASE k < Encl(i)
      <4>1. Inside(Encl(i), k)
        BY <1>1, <2>1, <3>2, <3>3, Nested
      <4>. QED
        BY <1>1, <3>2, <4>1, InsideOf
    <3>. QED
      BY <3>1, <3>2, <3>3
  <2>. QED
    BY <1>1, <2>1, ScopeEncl
<1>. QED
  BY <1>3, <1>4 DEF Group, ScopeOf

\* A declaration is diagnosed when it does not fit one of its scope, ...
LEMMA CleanFits ==
  ASSUME WalkInv, phase = "pass1", pos \in Places, Is(pos, Declares), Diagnosed = {},
         ClashFree(Known("pass1", pos)), Marked
  PROVE  ClashFree(Known("pass1", pos) \cup {pos})
<1>. DEFINE K == Known("pass1", pos)
            n == The.n
            old == scopes[Here][n]
            o == old.at
<1>1. /\ Tree /\ pos \in Nat /\ K \subseteq Places
      /\ \A d \in K : d < pos /\ d \in Nat /\ Is(d, Declares)
  BY TreeFacts DEF WalkInv, Known
<1>2. ASSUME NEW d \in K, Group(d, pos) PROVE Fits(d, pos)
  <2>1. d \in Declarations(n) /\ ScopeOf(d) = ScopeOf(pos)
    BY <1>1, <1>2 DEF Group, Declarations, The
  <2>2. Current(n) /\ o \in K /\ o \in Declarations(n) /\ ScopeOf(o) = ScopeOf(pos)
    BY <2>1, CurrentIs
  <2>3. /\ IsFunction(pos) /\ IsFunction(o) /\ prog[o].w = The.w
        /\ ~(The.t = "fun" /\ old.defined)
    BY <2>2 DEF Diagnosed, Clash
  <2>4. Group(d, o) /\ Group(o, d)
    BY <2>1, <2>2 DEF Group, Declarations
  <2>5. d = o \/ Fits(d, o) \/ Fits(o, d)
    BY <1>1, <2>2, <2>4 DEF ClashFree
  <2>6. IsFunction(d) /\ prog[d].w = prog[pos].w
    BY <2>3, <2>5 DEF Fits, The
  <2>7. ~(prog[d].t = "fun" /\ prog[pos].t = "fun")
    <3>1. ASSUME prog[d].t = "fun", prog[pos].t = "fun" PROVE FALSE
      <4>1. Is(d, {"fun"})
        BY <1>1, <3>1 DEF Is, Kind, Places
      <4>2. Here \in 1 .. Len(scopes) /\ n \in DOMAIN scopes[Here]
        BY <2>2 DEF Here, WalkInv, Current
      <4>3. old.defined
        BY <2>1, <2>2, <4>1, <4>2 DEF Marked, MarkedIn
      <4>. QED
        BY <2>3, <3>1, <4>3 DEF The
    <3>. QED
      BY <3>1
  <2>. QED
    BY <2>3, <2>6, <2>7 DEF Fits
<1>. QED
  BY <1>1, <1>2 DEF ClashFree

\* ... and then it is one that C does not allow.
LEMMA DiagnosedIllegal ==
  ASSUME WalkInv, phase = "pass1", pos \in Places, Is(pos, Declares), Diagnosed # {}, Marked, ~Departs
  PROVE  ~CLegal
<1>. SUFFICES ASSUME CLegal PROVE FALSE
  OBVIOUS
<1>. DEFINE K == Known("pass1", pos)
            n == The.n
            old == scopes[Here][n]
            o == old.at
<1>1. /\ Tree /\ pos \in Nat /\ K \subseteq Places
      /\ \A d \in K : d < pos /\ d \in Nat /\ Is(d, Declares)
  BY TreeFacts DEF WalkInv, Known
<1>2. ASSUME NEW d \in K, d \in Declarations(n), ScopeOf(d) = ScopeOf(pos)
      PROVE  Compatible(d, pos) /\ Encl(d) = Encl(pos) /\ CEncl(d) = CEncl(pos)
  <2>1. Group(d, pos)
    BY <1>2 DEF Group, Declarations, The
  <2>2. Encl(d) = Encl(pos) /\ CEncl(d) = CEncl(pos)
    BY <1>1, <2>1, GroupEncl
  <2>. QED
    BY <1>1, <2>1, <2>2 DEF CLegal, Group
<1>3. /\ Current(n) /\ o \in K /\ o \in Declarations(n) /\ ScopeOf(o) = ScopeOf(pos)
  <2>1. Current(n)
    BY DEF Diagnosed, Clash
  <2>. QED
    BY <2>1, CurrentIs
<1>4. Compatible(o, pos) /\ Encl(o) = Encl(pos) /\ CEncl(o) = CEncl(pos) /\ prog[o].n = prog[pos].n
  BY <1>2, <1>3 DEF Declarations, The
<1>5. prog[o].w = prog[pos].w
  BY <1>4 DEF Compatible
<1>6. IsFunction(o) /\ IsFunction(pos)
  <2>1. ASSUME Is(o, {"obj"}), Is(pos, {"obj"}), CEncl(o) = 0 PROVE FALSE
    <3>1. Encl(o) = 0 /\ Encl(pos) = 0 /\ o < pos /\ o \in Places
      BY <1>1, <1>3, <1>4, <2>1, CEnclIs
    <3>. QED
      BY <1>4, <2>1, <3>1 DEF Departs
  <2>. QED
    BY <1>4, <2>1 DEF Compatible
<1>7. The.t = "fun" /\ old.defined
  BY <1>3, <1>5, <1>6 DEF Diagnosed, Clash, The
<1>8. PICK d \in K : d \in Declarations(n) /\ ScopeOf(d) = ScopeOf(o) /\ Is(d, {"fun"})
  <2>1. Here \in 1 .. Len(scopes) /\ n \in DOMAIN scopes[Here]
    BY <1>3 DEF Here, WalkInv, Current
  <2>. QED
    BY <1>7, <2>1 DEF Marked, MarkedIn
<1>9. Compatible(d, pos)
  BY <1>2, <1>3, <1>8
<1>10. prog[d].t = "fun" /\ prog[pos].t = "fun"
  BY <1>7, <1>8 DEF Is, Kind, The
<1>. QED
  BY <1>9, <1>10 DEF Compatible, Is, Kind

\* register_symbol keeps the marks.
LEMMA RegisteredMarked ==
  ASSUME WalkInv, phase = "pass1", pos \in Places, Is(pos, Declares), Diagnosed = {}, Marked
  PROVE  MarkedIn(Registered, Known("pass1", pos) \cup {pos})
<1>. DEFINE K == Known("pass1", pos)
            m == The.n
            new == Registered
            top == Len(scopes)
<1>1. /\ Tree /\ scopes \in Seq(Tables) /\ top \in Nat /\ top >= 1 /\ Built(scopes, "pass1", pos)
  BY DEF WalkInv
<1>2. Enters(new, scopes, pos)
  BY <1>1, RegisteredEnters
<1>3. /\ Len(new) = top /\ \A j \in 1 .. top : j # top => new[j] = scopes[j]
      /\ DOMAIN new[top] = DOMAIN scopes[top] \cup {m}
      /\ \A n \in DOMAIN scopes[top] : new[top][n].at = scopes[top][n].at
      /\ m \notin DOMAIN scopes[top] => new[top][m] = Symbol(pos, top)
  BY <1>2 DEF Enters, The
<1>4. pos \in Declarations(m) /\ \A n : pos \in Declarations(n) => n = m
  BY DEF Declarations, The
<1>5. Is(pos, {"fun"}) => top = 1 /\ ScopeOf(pos) = 0
  <2>1. ASSUME Is(pos, {"fun"}) PROVE top = 1 /\ ScopeOf(pos) = 0
    <3>1. Encl(pos) = 0 /\ ~Is(pos, {"end"}) /\ pos \in Nat
      BY <1>1, <2>1, ShapeFacts, TreeFacts DEF Is, Kind
    <3>2. ScopeOf(pos) = 0
      BY <1>1, <3>1, ScopeEncl
    <3>. QED
      BY <1>1, <3>1, <3>2, BuiltSize
  <2>. QED
    BY <2>1
<1>6. /\ m \in DOMAIN scopes[top] <=> \E d \in K : d \in Declarations(m) /\ ScopeOf(d) = ScopeOf(pos)
      /\ m \in DOMAIN scopes[top] => ScopeOf(scopes[top][m].at) = ScopeOf(pos)
  BY CurrentIs DEF Current, Here
<1>7. new = IF m \notin DOMAIN scopes[top] THEN Insert(scopes, m, Symbol(pos, top))
            ELSE IF The.t = "fun" THEN [scopes EXCEPT ![top][m].defined = TRUE] ELSE scopes
  BY DEF Registered, Clash, Current, Here
<1>8. Is(pos, {"fun"}) <=> The.t = "fun"
  BY DEF Is, Kind, The, Places
<1>9. \A n \in DOMAIN scopes[top] : n # m => new[top][n] = scopes[top][n]
  <2>1. top \in 1 .. Len(scopes) /\ scopes[top] \in Tables
    BY <1>1
  <2>2. PICK D \in SUBSET Names : scopes[top] \in [D -> Symbols]
    BY <2>1 DEF Tables
  <2>3. CASE m \notin DOMAIN scopes[top]
    <3>1. new[top] = Put(scopes[top], m, Symbol(pos, top))
      BY <1>7, <2>1, <2>3 DEF Insert
    <3>. QED
      BY <3>1 DEF Put
  <2>4. CASE m \in DOMAIN scopes[top]
    BY <1>7, <2>1, <2>2, <2>4
  <2>. QED
    BY <2>3, <2>4
<1>. HIDE DEF new, top
<1>10. ASSUME NEW j \in 1 .. top, NEW n \in DOMAIN scopes[j]
       PROVE  scopes[j][n].defined <=>
                \E d \in K : d \in Declarations(n) /\ ScopeOf(d) = ScopeOf(scopes[j][n].at) /\ Is(d, {"fun"})
  BY <1>10 DEF Marked, MarkedIn, top
<1>. SUFFICES ASSUME NEW j \in 1 .. top, NEW n \in DOMAIN new[j]
              PROVE  new[j][n].defined <=>
                       \E d \in K \cup {pos} :
                         d \in Declarations(n) /\ ScopeOf(d) = ScopeOf(new[j][n].at) /\ Is(d, {"fun"})
  BY <1>3 DEF MarkedIn, new
<1>11. CASE j # top
  <2>1. new[j] = scopes[j] /\ ~Is(pos, {"fun"})
    BY <1>1, <1>3, <1>5, <1>11 DEF top
  <2>. QED
    BY <1>10, <2>1
<1>12. CASE j = top /\ n # m
  <2>1. n \in DOMAIN scopes[j] /\ new[j][n] = scopes[j][n] /\ pos \notin Declarations(n)
    BY <1>3, <1>4, <1>9, <1>12
  <2>. QED
    BY <1>10, <2>1
<1>13. CASE j = top /\ n = m /\ m \notin DOMAIN scopes[top]
  <2>1. new[j][n] = Symbol(pos, top)
    BY <1>3, <1>13
  <2>2. Symbol(pos, top).at = pos /\ Symbol(pos, top).defined = (The.t = "fun")
    BY DEF Symbol, The
  <2>3. new[j][n].at = pos /\ (new[j][n].defined <=> Is(pos, {"fun"}))
    BY <1>8, <2>1, <2>2, Zenon
  <2>. QED
    BY <1>4, <1>6, <1>13, <2>3
<1>14. CASE j = top /\ n = m /\ m \in DOMAIN scopes[top]
  <2>1. new[j][n].at = scopes[j][n].at /\ ScopeOf(scopes[j][n].at) = ScopeOf(pos)
    BY <1>3, <1>6, <1>14
  <2>2. CASE Is(pos, {"fun"})
    <3>1. new[top][m].defined = TRUE
      <4>1. top \in 1 .. Len(scopes) /\ scopes[top] \in Tables
        BY <1>1 DEF top
      <4>2. PICK D \in SUBSET Names : scopes[top] \in [D -> Symbols]
        BY <4>1 DEF Tables
      <4>3. scopes[top][m] \in Symbols
        BY <1>14, <4>2
      <4>. QED
        BY <1>7, <1>8, <1>14, <2>2, <4>1, <4>2, <4>3 DEF Symbols
    <3>. QED
      BY <1>4, <1>14, <2>1, <2>2, <3>1
  <2>3. CASE ~Is(pos, {"fun"})
    <3>1. new = scopes
      BY <1>7, <1>8, <1>14, <2>3
    <3>. QED
      BY <1>10, <1>14, <2>3, <3>1
  <2>. QED
    BY <2>2, <2>3
<1>. QED
  BY <1>11, <1>12, <1>13, <1>14

LEMMA FrontOf ==
  ASSUME NEW S, NEW s \in Seq(S), NEW m \in Nat, m <= Len(s)
  PROVE  Len(SubSeq(s, 1, m)) = m /\ \A j \in 1 .. m : SubSeq(s, 1, m)[j] = s[j]
OBVIOUS

LEMMA MarkedScopes ==
  ASSUME NEW sc \in Seq(Tables), Len(sc) >= 1, NEW K, MarkedIn(sc, K)
  PROVE  MarkedIn(Pushed(sc), K) /\ MarkedIn(Popped(sc), K)
<1>. DEFINE n == Len(sc)
<1>1. /\ n \in Nat /\ Len(Append(sc, <<>>)) = n + 1 /\ DOMAIN Append(sc, <<>>)[n + 1] = {}
      /\ \A j \in 1 .. n : Append(sc, <<>>)[j] = sc[j]
      /\ \A j \in 1 .. n + 1 : j \in 1 .. n \/ j = n + 1
  OBVIOUS
<1>2. MarkedIn(Pushed(sc), K)
  BY <1>1 DEF MarkedIn, Pushed
<1>3. /\ Len(Popped(sc)) = n - 1
      /\ \A j \in 1 .. n - 1 : Popped(sc)[j] = sc[j] /\ j \in 1 .. n
  <2>1. Popped(sc) = SubSeq(sc, 1, n - 1) /\ n >= 1 /\ n <= Len(sc)
    BY DEF Popped
  <2>. HIDE DEF n
  <2>2. n - 1 \in Nat /\ n - 1 <= Len(sc) /\ \A j \in 1 .. n - 1 : j \in 1 .. n
    BY <1>1, <2>1
  <2>3. Len(SubSeq(sc, 1, n - 1)) = n - 1 /\ \A j \in 1 .. n - 1 : SubSeq(sc, 1, n - 1)[j] = sc[j]
    BY <2>1, <2>2, FrontOf
  <2>. QED
    BY <2>1, <2>2, <2>3
<1>4. \A j \in 1 .. Len(Popped(sc)) : Popped(sc)[j] = sc[j] /\ j \in 1 .. n
  BY <1>1, <1>3
<1>5. MarkedIn(Popped(sc), K)
  BY <1>4 DEF MarkedIn
<1>. QED
  BY <1>2, <1>5

LEMMA MarkedStep ==
  ASSUME WalkInv, Pass1, errors' = {}, Marked, ClashFree(Known("pass1", pos))
  PROVE  MarkedIn(scopes', Known("pass1", pos + 1)) /\ ClashFree(Known("pass1", pos + 1))
<1>. DEFINE K == Known("pass1", pos)
<1>1. /\ Tree /\ pos \in Places /\ pos \in Nat /\ phase = "pass1" /\ scopes \in Seq(Tables)
      /\ Len(scopes) >= 1
  BY Walking DEF WalkInv
<1>2. ASSUME ~Is(pos, Declares), scopes' \in {scopes, Pushed(scopes), Popped(scopes)}
      PROVE  MarkedIn(scopes', Known("pass1", pos + 1)) /\ ClashFree(Known("pass1", pos + 1))
  <2>1. Known("pass1", pos + 1) = K
    BY <1>1, <1>2, KnownNext
  <2>2. MarkedIn(scopes, K)
    BY DEF Marked
  <2>. QED
    BY <1>1, <1>2, <2>1, <2>2, MarkedScopes
<1>3. ASSUME Is(pos, Declares), Diagnosed = {}, scopes' \in {Registered, Pushed(Registered)}
      PROVE  MarkedIn(scopes', Known("pass1", pos + 1)) /\ ClashFree(Known("pass1", pos + 1))
  <2>1. Known("pass1", pos + 1) = K \cup {pos}
    BY <1>1, <1>3, KnownNext
  <2>2. MarkedIn(Registered, K \cup {pos}) /\ ClashFree(K \cup {pos})
    BY <1>1, <1>3, RegisteredMarked, CleanFits
  <2>3. Registered \in Seq(Tables) /\ Len(Registered) >= 1
    BY <1>1, <1>3, RegisteredEnters DEF Enters
  <2>. QED
    BY <1>3, <2>1, <2>2, <2>3, MarkedScopes
<1>4. CASE Declare1
  BY <1>3, <1>4 DEF Declare1, In, Is, Kind, Declares
<1>5. CASE Function1
  BY <1>3, <1>5 DEF Function1, In, Is, Kind, Declares
<1>6. CASE Open("pass1") \/ Leave("pass1") \/ Use1
  <2>1. Is(pos, {"block", "for", "switch", "null", "end", "use"})
    BY <1>6 DEF Open, Leave, Use1, In, Is, Kind
  <2>2. ~Is(pos, Declares)
    BY <2>1 DEF Is, Kind, Declares
  <2>3. scopes' \in {scopes, Pushed(scopes), Popped(scopes)}
    BY <1>6 DEF Open, Leave, Use1
  <2>. QED
    BY <1>2, <2>2, <2>3
<1>. QED
  BY <1>4, <1>5, <1>6 DEF Pass1

\* A use that is diagnosed has no declaration in C.
LEMMA EarlyIllegal ==
  ASSUME WalkInv, phase = "pass1", pos \in Uses, Levels(The.n) = {}
  PROVE  ~CLegal
<1>. SUFFICES ASSUME CLegal PROVE FALSE
  OBVIOUS
<1>1. Tree /\ pos \in Places /\ pos \in Nat /\ CScope(pos) # NoScope
  BY TreeFacts DEF WalkInv, Uses, CLegal
<1>2. PICK d \in Declarations(prog[pos].n) : InScope(pos, d)
  BY <1>1 DEF CScope
<1>3. d \in Places /\ Is(d, Declares) /\ d < pos
  BY <1>2 DEF Declarations, InScope
<1>4. d \in Known("pass1", pos)
  BY <1>3 DEF Known
<1>5. ScopeOf(d) \in OpenScopes(pos)
  BY <1>1, <1>2, <1>3, InScopeOpen
<1>. QED
  BY <1>2, <1>4, <1>5, LevelsHave DEF The

LEMMA UnboundIllegal ==
  ASSUME WalkInv, phase = "pass2", pos \in Uses, Levels(The.n) = {}, ~Departs
  PROVE  ~CLegal
<1>. SUFFICES ASSUME CLegal PROVE FALSE
  OBVIOUS
<1>1. Tree /\ pos \in Places /\ pos \in Nat /\ CScope(pos) # NoScope
  BY TreeFacts DEF WalkInv, Uses, CLegal
<1>2. \E d \in Declarations(prog[pos].n) : InScope(pos, d)
  BY <1>1 DEF CScope
<1>3. PICK d \in CDeclarations(pos) : InScope(pos, d)
  BY <1>1, <1>2, CScopeIs
<1>4. Candidate(pos, d)
  BY <1>1, <1>3, FoundCandidate
<1>5. d \in Known("pass2", pos) /\ d \in Declarations(The.n) /\ ScopeOf(d) \in OpenScopes(pos)
  BY <1>4 DEF Candidate, Known, Declarations, The
<1>. QED
  BY <1>5, LevelsHave

LEMMA SameLegal ==
  ASSUME Tree, UNCHANGED <<prog, ends, up>>
  PROVE  /\ \A ph, i : Known(ph, i)' = Known(ph, i)
         /\ \A i : CEncl(i)' = CEncl(i)
         /\ \A i, d : InScope(i, d)' <=> InScope(i, d)
         /\ \A u : CScope(u)' = CScope(u) /\ CDeclarations(u)' = CDeclarations(u)
         /\ CLegal' <=> CLegal
         /\ Departs' <=> Departs
         /\ \A K : ClashFree(K)' <=> ClashFree(K)
         /\ \A sc, K : MarkedIn(sc, K)' <=> MarkedIn(sc, K)
<1>0. /\ Places' = Places /\ Uses' = Uses /\ prog' = prog
      /\ \A i, ts : Is(i, ts)' <=> Is(i, ts)
      /\ \A i : Encl(i)' = Encl(i) /\ Close(i)' = Close(i) /\ ScopeOf(i)' = ScopeOf(i)
      /\ \A n : Declarations(n)' = Declarations(n)
      /\ \A i : Skipped(i)' = Skipped(i)
  BY SameTree, SameSkipped
<1>1. \A ph, i : Known(ph, i)' = Known(ph, i)
  BY <1>0 DEF Known, Seen2
<1>2. \A i : CEncl(i)' = CEncl(i)
  BY <1>0 DEF CEncl
<1>3. \A i, d : InScope(i, d)' <=> InScope(i, d)
  BY <1>0, <1>2 DEF InScope
<1>4. \A u : CScope(u)' = CScope(u)
  BY <1>0, <1>2, <1>3 DEF CScope, NoScope
<1>5. \A u : CDeclarations(u)' = CDeclarations(u)
  BY <1>0, <1>2, <1>4 DEF CDeclarations
<1>6. \A i : IsFunction(i)' <=> IsFunction(i)
  BY <1>0 DEF IsFunction
<1>7. CLegal' <=> CLegal
  <2>1. \A d, e : Compatible(d, e)' <=> Compatible(d, e)
    BY <1>0, <1>2, <1>6 DEF Compatible
  <2>. QED
    BY <1>0, <1>2, <1>4, <2>1 DEF CLegal, NoScope
<1>8. Departs' <=> Departs
  BY <1>0, <1>2, <1>4, <1>5 DEF Departs, NoScope
<1>9. \A K : ClashFree(K)' <=> ClashFree(K)
  BY <1>0, <1>6, ZenonT(30) DEF ClashFree, Group, Fits
<1>10. \A sc, K : MarkedIn(sc, K)' <=> MarkedIn(sc, K)
  BY <1>0 DEF MarkedIn
<1>. QED
  BY <1>1, <1>2, <1>3, <1>4, <1>5, <1>7, <1>8, <1>9, <1>10

LEMMA StepNames == WalkInv /\ NamesInv /\ [Next]_vars => NamesInv'
<1>. SUFFICES ASSUME WalkInv, NamesInv, [Next]_vars PROVE NamesInv'
  OBVIOUS
<1>0. Tree /\ Len(prog) \in Nat
  BY TreeFacts DEF WalkInv
<1>1. CASE Pass1
  <2>1. /\ pos \in Places /\ pos' = pos + 1 /\ UNCHANGED <<prog, ends, up, phase>>
        /\ phase = "pass1" /\ phase' = "pass1"
    BY <1>1, Walking
  <2>2. errors' \in {errors, errors \cup Diagnosed}
    BY <1>1 DEF Pass1, Declare1, Function1, Open, Leave, Use1
  <2>3. ASSUME errors' = {} PROVE (ClashFree(Known("pass1", pos)) /\ Marked)'
    <3>1. errors = {}
      BY <2>2, <2>3
    <3>2. ClashFree(Known("pass1", pos)) /\ Marked
      BY <2>1, <3>1 DEF NamesInv
    <3>3. MarkedIn(scopes', Known("pass1", pos')) /\ ClashFree(Known("pass1", pos'))
      BY <1>1, <2>1, <2>3, <3>2, MarkedStep
    <3>. QED
      BY <1>0, <2>1, <3>3, SameLegal DEF Marked
  <2>4. ASSUME errors' # {} PROVE ~CLegal \/ Departs
    <3>1. CASE errors # {}
      BY <3>1 DEF NamesInv
    <3>2. CASE errors = {}
      <4>1. Diagnosed # {}
        BY <2>2, <2>4, <3>2
      <4>2. Declare1 \/ Function1
        BY <1>1, <2>4, <3>2 DEF Pass1, Open, Leave, Use1
      <4>3. Is(pos, Declares)
        BY <4>2 DEF Declare1, Function1, In, Is, Kind, Declares
      <4>. QED
        BY <2>1, <3>2, <4>1, <4>3, DiagnosedIllegal DEF NamesInv
    <3>. QED
      BY <3>1, <3>2
  <2>. QED
    BY <1>0, <2>1, <2>3, <2>4, SameLegal DEF NamesInv
<1>2. CASE Pass2
  <2>1. /\ pos \in Places /\ pos' = pos + 1 /\ UNCHANGED <<prog, ends, up, phase>>
        /\ phase = "pass2" /\ phase' = "pass2"
    BY <1>2, Walking
  <2>2. errors' = errors \/ (pos \in Uses /\ Levels(The.n) = {})
    BY <1>2, <2>1 DEF Pass2, Declare2, Enum2, Function2, Open, Leave, Use2, In, Uses
  <2>3. errors \subseteq errors'
    BY <1>2 DEF Pass2, Declare2, Enum2, Function2, Open, Leave, Use2
  <2>4. errors' # {} => ~CLegal \/ Departs
    BY <2>1, <2>2, UnboundIllegal DEF NamesInv
  <2>5. errors' = {} => ClashFree(Known("pass1", Len(prog) + 1))
    BY <2>1, <2>3 DEF NamesInv
  <2>. QED
    BY <1>0, <2>1, <2>4, <2>5, SameLegal DEF NamesInv
<1>3. CASE Lowering
  <2>1. UNCHANGED <<prog, ends, up, phase, errors>> /\ phase = "lower"
    BY <1>3, Walking
  <2>. QED
    BY <1>0, <2>1, SameLegal DEF NamesInv
<1>4. CASE EarlyUse
  <2>1. /\ UNCHANGED <<prog, ends, up>> /\ phase = "pass1" /\ phase' = "done" /\ errors' # {}
        /\ pos \in Uses /\ Levels(The.n) = {}
    BY <1>4 DEF EarlyUse, Early, Uses, Is, Kind, Places
  <2>. QED
    BY <1>0, <2>1, SameLegal, EarlyIllegal DEF NamesInv
<1>5. CASE NextPass
  <2>1. /\ UNCHANGED <<prog, ends, up, errors>> /\ pos = Len(prog) + 1 /\ phase' # "pass1"
    BY <1>0, <1>5 DEF NextPass, WalkInv
  <2>. QED
    BY <1>0, <2>1, SameLegal DEF NamesInv
<1>6. CASE UNCHANGED vars
  <2>1. UNCHANGED <<prog, ends, up, errors, phase, pos, scopes>>
    BY <1>6 DEF vars
  <2>. QED
    BY <1>0, <2>1, SameLegal DEF NamesInv, Marked
<1>. QED
  BY <1>1, <1>2, <1>3, <1>4, <1>5, <1>6 DEF Next, Pass1, Pass2, Lowering, Over

LEMMA InitNames == Init => NamesInv
<1>. SUFFICES ASSUME Init PROVE NamesInv
  OBVIOUS
<1>1. Tree /\ phase = "pass1" /\ pos = 1 /\ scopes = <<<<>>>> /\ errors = {}
  BY DEF Init, Tree
<1>2. Known("pass1", pos) = {}
  BY <1>1, TreeFacts DEF Known, Places
<1>3. Len(scopes) = 1 /\ scopes[1] = <<>> /\ DOMAIN scopes[1] = {}
  BY <1>1
<1>. QED
  BY <1>1, <1>2, <1>3 DEF NamesInv, ClashFree, Marked, MarkedIn

\* A unit in which nothing clashes and every use is bound is one of C.
LEMMA CleanLegal ==
  ASSUME Tree, ~Departs, ClashFree(Known("pass1", Len(prog) + 1)), \A u \in Uses : Bound(u)
  PROVE  CLegal
<1>1. \A u \in Uses : CScope(u) # NoScope
  BY BoundAsC
<1>2. ASSUME NEW d \in Places, NEW e \in Places, Is(d, Declares), Is(e, Declares), d < e,
             prog[d].n = prog[e].n, CEncl(d) = CEncl(e)
      PROVE  Compatible(d, e)
  <2>1. Group(d, e)
    BY <1>2, CEnclGroup
  <2>2. d \in Known("pass1", Len(prog) + 1) /\ e \in Known("pass1", Len(prog) + 1)
    BY <1>2, TreeFacts DEF Known, Places
  <2>3. Fits(d, e)
    BY <1>2, <2>1, <2>2 DEF ClashFree
  <2>. QED
    BY <2>3 DEF Fits, Compatible
<1>. QED
  BY <1>1, <1>2 DEF CLegal

\* AcceptsExactlyC, for every unit: nothing is diagnosed in a unit of C, and
\* something in any other, away from the listed departures.
THEOREM AcceptanceCorrect == Spec => []AcceptsExactlyC
<1>1. Init => WalkInv /\ BindInv /\ NamesInv
  BY InitWalk, InitNames DEF Init, BindInv
<1>2. WalkInv /\ BindInv /\ NamesInv /\ [Next]_vars => (WalkInv /\ BindInv /\ NamesInv)'
  BY StepWalk, StepBind, StepNames
<1>3. WalkInv /\ BindInv /\ NamesInv => AcceptsExactlyC
  <2>. SUFFICES ASSUME WalkInv, BindInv, NamesInv, Done, ~Departs
                PROVE  errors = {} <=> CLegal
    BY DEF AcceptsExactlyC
  <2>1. ASSUME errors = {} PROVE CLegal
    <3>1. ClashFree(Known("pass1", Len(prog) + 1)) /\ \A u \in Uses : Bound(u)
      BY <2>1 DEF NamesInv, BindInv, Done
    <3>. QED
      BY <3>1, CleanLegal DEF WalkInv
  <2>2. errors # {} => ~CLegal
    BY DEF NamesInv
  <2>. QED
    BY <2>1, <2>2
<1>. QED
  BY <1>1, <1>2, <1>3, PTL DEF Spec

-----------------------------------------------------------------------------
(***************************************************************************)
(* Storage. When lowering comes to p, the variables before it have their    *)
(* places, those of the function it is in by the slots of their names.      *)
(***************************************************************************)
Local(v) == Is(v, {"obj", "param"}) /\ Encl(v) # 0 /\ ~Is(Encl(v), {"proto"})
\* No function begins between v and p.
SameFunction(v, p) == \A f \in Places : Is(f, {"fun"}) /\ v < f => f >= p
Distinct ==
  \A d, e \in Places : Local(d) /\ Local(e) /\ d # e => prog[d].n # prog[e].n
LocalUse(u) == info[u].class \in {"stack", "parameter"}

Held(p, pl, md) ==
  /\ \A v \in DOMAIN pl : v \in Places /\ v < p /\ (Is(v, {"obj", "param"}) => Local(v))
  /\ \A v \in Places : Local(v) /\ v < p => v \in DOMAIN pl
  /\ \A u \in Uses : u < p =>
       /\ u \in DOMAIN pl
       /\ pl[u] = IF LocalUse(u) THEN pl[info[u].at] ELSE Global(prog[u].n)
  /\ \A d \in Places : Is(d, {"obj", "fun", "proto"}) /\ Encl(d) = 0 /\ d < p => prog[d].n \in md

InSlots(p, pl, sl) ==
  /\ \A v \in Places : Local(v) /\ v < p /\ SameFunction(v, p) =>
       prog[v].n \in DOMAIN sl /\ pl[v] = Slot(sl[prog[v].n])
  /\ \A n \in DOMAIN sl : \E v \in Places :
       Local(v) /\ v < p /\ SameFunction(v, p) /\ prog[v].n = n

\* Variables of different names, in their order.
Spread(p, pl, ns) ==
  Distinct =>
    /\ \A v \in Places : Local(v) /\ v < p =>
         pl[v].id \in Nat /\ (SameFunction(v, p) => pl[v].id + prog[v].w <= ns)
    /\ \A d, e \in Places : Local(d) /\ Local(e) /\ d < e /\ e < p /\ SameFunction(d, e) =>
         pl[d].id + prog[d].w <= pl[e].id

Lowered == IF phase = "lower" THEN pos ELSE Len(prog) + 1
StorageInv ==
  /\ phase \in {"pass1", "pass2"} => slots = <<>> /\ place = <<>>
  /\ phase \in {"lower", "done"} /\ errors = {} =>
       Held(Lowered, place, module) /\ InSlots(Lowered, place, slots) /\ Spread(Lowered, place, nextSlot)

LEMMA SameStored ==
  ASSUME Tree, UNCHANGED <<prog, ends, up, info>>
  PROVE  /\ \A p, pl, md : Held(p, pl, md)' <=> Held(p, pl, md)
         /\ \A p, pl, sl : InSlots(p, pl, sl)' <=> InSlots(p, pl, sl)
         /\ \A p, pl, ns : Spread(p, pl, ns)' <=> Spread(p, pl, ns)
<1>0. /\ Places' = Places /\ Uses' = Uses /\ prog' = prog
      /\ \A i, ts : Is(i, ts)' <=> Is(i, ts)
      /\ \A i : Encl(i)' = Encl(i)
  BY SameTree
<1>1. \A v : Local(v)' <=> Local(v)
  BY <1>0 DEF Local
<1>2. \A v, p : SameFunction(v, p)' <=> SameFunction(v, p)
  BY <1>0 DEF SameFunction
<1>3. Distinct' <=> Distinct
  BY <1>0, <1>1 DEF Distinct
<1>4. \A u : LocalUse(u)' <=> LocalUse(u)
  BY DEF LocalUse
<1>5. \A p, pl, md : Held(p, pl, md)' <=> Held(p, pl, md)
  BY <1>0, <1>1, <1>4 DEF Held, Global
<1>6. \A p, pl, sl : InSlots(p, pl, sl)' <=> InSlots(p, pl, sl)
  BY <1>0, <1>1, <1>2 DEF InSlots, Slot
<1>7. \A p, pl, ns : Spread(p, pl, ns)' <=> Spread(p, pl, ns)
  BY <1>0, <1>1, <1>2, <1>3 DEF Spread
<1>. QED
  BY <1>5, <1>6, <1>7

\* Two nodes in one that is not at file level are of one function.
LEMMA InsideSameFunction ==
  ASSUME Tree, NEW v \in Places, NEW p \in Places, NEW k, Inside(v, k), Inside(p, k)
  PROVE  SameFunction(v, p)
<1>. SUFFICES ASSUME NEW f \in Places, Is(f, {"fun"}), v < f, ~(f >= p) PROVE FALSE
  BY DEF SameFunction
<1>1. /\ v \in Nat /\ p \in Nat /\ f \in Nat /\ k \in Nat /\ k # 0 /\ k \in DOMAIN ends
      /\ ends[k] \in Nat
  BY TreeFacts DEF Inside
<1>2. Inside(f, k)
  BY <1>1 DEF Inside
<1>3. k <= Encl(f) /\ Encl(f) = 0
  BY <1>2, EnclIs, ShapeFacts DEF Is, Kind
<1>. QED
  BY <1>1, <1>3

\* A prototype has nothing but its parameters.
LEMMA ProtoEmpty ==
  ASSUME Tree, NEW i \in Places, NEW k, Is(k, {"proto"}), Inside(i, k)
  PROVE  Encl(i) = k
<1>. SUFFICES ASSUME Encl(i) # k PROVE FALSE
  OBVIOUS
<1>1. PICK c \in DOMAIN ends : Inside(i, c) /\ Encl(c) = k
  BY ChildAround
<1>2. c \in Places /\ Is(c, Opens) /\ k # 0
  BY <1>1, TreeFacts DEF Inside
<1>. QED
  BY <1>1, <1>2, ShapeFacts DEF Is, Kind, Opens

\* A use of a variable is behind it, in the same function.
LEMMA BoundLocal ==
  ASSUME Tree, NEW u \in Uses, Bound(u), LocalUse(u)
  PROVE  LET a == info[u].at
         IN  a \in Places /\ Local(a) /\ a < u /\ SameFunction(a, u) /\ prog[a].n = prog[u].n
<1>. DEFINE a == info[u].at
            s == ScopeOf(a)
<1>1. /\ u \in Places /\ ~Is(u, {"end"}) /\ Is(Encl(u), {"block", "for", "switch"})
  <2>1. u \in Places /\ Is(u, {"use"})
    BY DEF Uses
  <2>. QED
    BY <2>1, ShapeFacts DEF Is, Kind
<1>2. /\ a \in Places /\ Is(a, Declares) /\ ~Is(a, {"end"}) /\ prog[a].n = prog[u].n
      /\ Seen2(a, u) /\ s \in OpenScopes(u)
      /\ info[u].class = Class(prog[a].t, Level(s))
  BY DEF Bound, Candidate, Declarations, Is, Kind, Declares
<1>3. s # 0
  <2>1. SUFFICES ASSUME s = 0 PROVE FALSE
    OBVIOUS
  <2>2. Encl(a) = 0 /\ Level(s) = 1
    BY <1>2, <2>1, ScopeEncl DEF Level
  <2>3. ~Is(a, {"param"})
    BY <1>2, <2>2, ShapeFacts DEF Is, Kind
  <2>4. prog[a].t \in {"obj", "enum", "fun", "proto"}
    BY <1>2, <2>3 DEF Is, Kind, Declares
  <2>5. Class(prog[a].t, 1) \in {"global", "none"}
    <3>1. /\ Class("obj", 1) = "global" /\ Class("fun", 1) = "global"
          /\ Class("proto", 1) = "global" /\ Class("enum", 1) = "none"
      BY DEF Class
    <3>. QED
      BY <2>4, <3>1
  <2>. QED
    BY <1>2, <2>2, <2>5 DEF LocalUse
<1>. HIDE DEF s, a
<1>4. a < u /\ Is(a, {"obj", "param"}) /\ Inside(a, s) /\ Inside(u, s) /\ Encl(a) # 0
      /\ ~Is(s, {"switch"})
  BY <1>1, <1>2, <1>3, ScopeEncl DEF Seen2, s
<1>5. ~Is(Encl(a), {"proto"})
  <2>1. SUFFICES ASSUME Is(Encl(a), {"proto"}) PROVE FALSE
    OBVIOUS
  <2>2. s = Encl(a)
    BY <1>2, <2>1, ScopeEncl DEF Is, Kind, s
  <2>3. Encl(u) = s
    BY <1>1, <1>4, <2>1, <2>2, ProtoEmpty
  <2>. QED
    BY <1>1, <2>1, <2>2, <2>3 DEF Is, Kind
<1>6. SameFunction(a, u)
  BY <1>1, <1>2, <1>4, InsideSameFunction
<1>. QED
  BY <1>2, <1>4, <1>5, <1>6 DEF Local, a

\* A parameter is the first of its function with its name.
LEMMA ParameterNew ==
  ASSUME Tree, ClashFree(Known("pass1", Len(prog) + 1)), NEW i \in Places, Is(i, {"param"}),
         Local(i), NEW v \in Places, Local(v), v < i, SameFunction(v, i)
  PROVE  prog[v].n # prog[i].n
<1>. SUFFICES ASSUME prog[v].n = prog[i].n PROVE FALSE
  OBVIOUS
<1>. DEFINE f == Encl(i)
<1>1. Is(f, {"fun"}) /\ f \in Places /\ f \in Nat /\ v \in Nat /\ i \in Nat
  BY ShapeFacts, TreeFacts DEF Local, Is, Kind, Places
<1>2. Inside(i, f) /\ ~Is(v, {"end"}) /\ ~Is(i, {"end"}) /\ Is(v, Declares) /\ Is(i, Declares)
  BY <1>1, EnclIs, TreeFacts DEF Local, Is, Kind, Declares
<1>. HIDE DEF f
<1>3. f < v
  BY <1>1, <1>2 DEF SameFunction, Local, Is, Kind, Inside
<1>4. Inside(v, f)
  <2>1. f \in DOMAIN ends /\ i < ends[f] /\ ends[f] \in Nat
    BY <1>2, TreeFacts DEF Inside
  <2>2. v < ends[f]
    BY <1>1, <2>1
  <2>. QED
    BY <1>3, <2>1, <2>2 DEF Inside
<1>5. Encl(v) = f
  <2>1. SUFFICES ASSUME Encl(v) # f PROVE FALSE
    OBVIOUS
  <2>2. PICK c \in DOMAIN ends : Inside(v, c) /\ Encl(c) = f
    BY <1>4, <2>1, ChildAround
  <2>3. c \in Places /\ c \in Nat /\ Is(c, Opens) /\ f # 0
    BY <1>1, <2>2, TreeFacts
  <2>4. Is(c, {"block"})
    BY <1>1, <2>2, <2>3, ShapeFacts DEF Is, Kind, Opens
  <2>5. i <= c /\ c < v
    BY <1>1, <1>2, <2>2, <2>3, <2>4, BodyLast DEF Inside, f
  <2>. QED
    BY <1>1, <2>3, <2>5
<1>6. Group(v, i)
  BY <1>1, <1>2, <1>5, ScopeEncl DEF Group, Is, Kind, f
<1>7. v \in Known("pass1", Len(prog) + 1) /\ i \in Known("pass1", Len(prog) + 1)
  BY <1>2, TreeFacts DEF Known, Places
<1>8. Fits(v, i)
  BY <1>6, <1>7 DEF ClashFree
<1>. QED
  BY <1>8 DEF Fits, IsFunction, Is, Kind

\* The walk leaves i behind.
LEMMA PastNode ==
  ASSUME Tree, NEW i \in Places
  PROVE  /\ \A v \in Places : v < i + 1 <=> v < i \/ v = i
         /\ ~(i < i)
         /\ \A v \in Places : v < i => (SameFunction(v, i + 1) <=> SameFunction(v, i) /\ ~Is(i, {"fun"}))
         /\ SameFunction(i, i + 1) /\ SameFunction(i, i)
<1>1. i \in Nat /\ \A v \in Places : v \in Nat
  BY TreeFacts
<1>2. \A f \in Places : f >= i + 1 <=> f >= i /\ f # i
  BY <1>1
<1>3. \A f \in Places : i < f => f >= i + 1 /\ f >= i
  BY <1>1
<1>4. \A v \in Places : v < i + 1 <=> v < i \/ v = i
  BY <1>1
<1>5. ASSUME NEW v \in Places, v < i
      PROVE  SameFunction(v, i + 1) <=> SameFunction(v, i) /\ ~Is(i, {"fun"})
  <2>1. SameFunction(v, i + 1) => SameFunction(v, i)
    BY <1>2 DEF SameFunction
  <2>2. SameFunction(v, i + 1) => ~Is(i, {"fun"})
    BY <1>2, <1>5 DEF SameFunction
  <2>3. SameFunction(v, i) /\ ~Is(i, {"fun"}) => SameFunction(v, i + 1)
    BY <1>2 DEF SameFunction
  <2>. QED
    BY <2>1, <2>2, <2>3
<1>6. SameFunction(i, i + 1) /\ SameFunction(i, i)
  BY <1>3 DEF SameFunction
<1>. QED
  BY <1>1, <1>4, <1>5, <1>6

\* A node that is neither variable nor use nor function changes no storage, ...
LEMMA StoredPast ==
  ASSUME Tree, NEW i \in Places, NEW pl, NEW md, NEW sl, NEW ns,
         Held(i, pl, md), InSlots(i, pl, sl), Spread(i, pl, ns),
         ~Local(i), ~Is(i, {"use"}), ~Is(i, {"fun"}), NEW new, md \subseteq new,
         Is(i, {"obj", "proto"}) /\ Encl(i) = 0 => prog[i].n \in new
  PROVE  Held(i + 1, pl, new) /\ InSlots(i + 1, pl, sl) /\ Spread(i + 1, pl, ns)
<1>1. /\ \A v \in Places : v < i + 1 <=> v < i \/ v = i
      /\ \A v \in Places : v < i => (SameFunction(v, i + 1) <=> SameFunction(v, i))
  BY PastNode
<1>2. i \notin Uses /\ (Is(i, {"obj", "fun", "proto"}) => Is(i, {"obj", "proto"}))
  BY DEF Uses, Is, Kind
<1>3. Held(i + 1, pl, new)
  BY <1>1, <1>2 DEF Held, Uses
<1>4. InSlots(i + 1, pl, sl)
  BY <1>1 DEF InSlots
<1>5. Spread(i + 1, pl, ns)
  BY <1>1 DEF Spread
<1>. QED
  BY <1>3, <1>4, <1>5

\* ... a function starts with no slots, ...
LEMMA StoredFunction ==
  ASSUME Tree, NEW i \in Places, NEW pl, NEW md, NEW sl, NEW ns,
         Held(i, pl, md), Spread(i, pl, ns), Is(i, {"fun"})
  PROVE  Held(i + 1, pl, md \cup {prog[i].n}) /\ InSlots(i + 1, pl, <<>>) /\ Spread(i + 1, pl, 0)
<1>1. /\ \A v \in Places : v < i + 1 <=> v < i \/ v = i
      /\ \A v \in Places : v < i => ~SameFunction(v, i + 1)
  BY PastNode
<1>2. i \notin Uses /\ ~Local(i)
  BY DEF Uses, Local, Is, Kind
<1>3. Held(i + 1, pl, md \cup {prog[i].n})
  BY <1>1, <1>2 DEF Held, Uses
<1>4. InSlots(i + 1, pl, <<>>)
  BY <1>1, <1>2 DEF InSlots
<1>5. Spread(i + 1, pl, 0)
  BY <1>1, <1>2 DEF Spread
<1>. QED
  BY <1>3, <1>4, <1>5

\* ... a use is given the place of what it is bound to, ...
LEMMA StoredUse ==
  ASSUME Tree, NEW i \in Uses, NEW pl, NEW md, NEW sl, NEW ns,
         Held(i, pl, md), InSlots(i, pl, sl), Spread(i, pl, ns),
         \A u \in Uses : Bound(u), NEW y, y = IF LocalUse(i) THEN Slot(sl[prog[i].n]) ELSE Global(prog[i].n)
  PROVE  /\ LocalUse(i) => prog[i].n \in DOMAIN sl
         /\ Held(i + 1, Put(pl, i, y), md) /\ InSlots(i + 1, Put(pl, i, y), sl)
         /\ Spread(i + 1, Put(pl, i, y), ns)
<1>. DEFINE new == Put(pl, i, y)
            a == info[i].at
<1>1. /\ i \in Places /\ ~Local(i) /\ ~Is(i, {"fun"}) /\ ~Is(i, {"obj", "param"})
      /\ ~Is(i, {"obj", "fun", "proto"}) /\ Uses \subseteq Places
  BY DEF Uses, Local, Is, Kind
<1>2. /\ \A v \in Places : v < i + 1 <=> v < i \/ v = i
      /\ \A v \in Places : v < i => (SameFunction(v, i + 1) <=> SameFunction(v, i))
      /\ ~(i < i)
  BY <1>1, PastNode
<1>3. /\ DOMAIN new = DOMAIN pl \cup {i} /\ new[i] = y
      /\ \A v \in DOMAIN pl : v # i => new[v] = pl[v]
  BY DEF Put
<1>4. /\ \A v \in DOMAIN pl : v \in Places /\ v < i /\ v # i
      /\ \A v \in Places : Local(v) /\ v < i => v \in DOMAIN pl /\ v # i
  BY <1>2 DEF Held
<1>5. LocalUse(i) => /\ a \in Places /\ Local(a) /\ a < i /\ SameFunction(a, i)
                     /\ prog[a].n = prog[i].n
  BY BoundLocal
<1>6. LocalUse(i) => prog[i].n \in DOMAIN sl /\ y = pl[a] /\ a \in DOMAIN pl /\ a # i
  BY <1>4, <1>5 DEF InSlots
<1>7. ASSUME NEW u \in Uses, u < i, LocalUse(u)
      PROVE  info[u].at \in DOMAIN pl
  <2>1. info[u].at \in Places /\ Local(info[u].at) /\ info[u].at < u
    BY <1>7, BoundLocal
  <2>2. u \in Nat /\ i \in Nat /\ info[u].at \in Nat
    BY <1>1, <2>1, TreeFacts
  <2>. QED
    BY <1>4, <1>7, <2>1, <2>2
<1>. HIDE DEF new, a
<1>8. Held(i + 1, new, md)
  <2>1. \A v \in DOMAIN new : v \in Places /\ v < i + 1 /\ (Is(v, {"obj", "param"}) => Local(v))
    BY <1>1, <1>2, <1>3 DEF Held
  <2>2. \A v \in Places : Local(v) /\ v < i + 1 => v \in DOMAIN new
    BY <1>1, <1>2, <1>3, <1>4
  <2>3. ASSUME NEW u \in Uses, u < i + 1
        PROVE  /\ u \in DOMAIN new
               /\ new[u] = IF LocalUse(u) THEN new[info[u].at] ELSE Global(prog[u].n)
    <3>1. CASE u = i
      BY <1>3, <1>6, <3>1 DEF a
    <3>2. CASE u # i
      <4>1. u < i
        BY <1>1, <1>2, <2>3, <3>2
      <4>2. /\ u \in DOMAIN pl
            /\ pl[u] = IF LocalUse(u) THEN pl[info[u].at] ELSE Global(prog[u].n)
        BY <4>1 DEF Held
      <4>3. LocalUse(u) => info[u].at \in DOMAIN pl /\ info[u].at # i
        BY <1>4, <1>7, <4>1
      <4>. QED
        BY <1>3, <3>2, <4>2, <4>3
    <3>. QED
      BY <3>1, <3>2
  <2>4. \A d \in Places : Is(d, {"obj", "fun", "proto"}) /\ Encl(d) = 0 /\ d < i + 1 => prog[d].n \in md
    BY <1>1, <1>2 DEF Held
  <2>. QED
    BY <2>1, <2>2, <2>3, <2>4 DEF Held
<1>9. InSlots(i + 1, new, sl)
  BY <1>1, <1>2, <1>3, <1>4 DEF InSlots
<1>10. Spread(i + 1, new, ns)
  <2>1. \A v \in Places : Local(v) /\ v < i + 1 => v < i /\ new[v] = pl[v]
    BY <1>1, <1>2, <1>3, <1>4
  <2>2. \A d, e \in Places : d < e /\ e < i => d < i
    BY <1>1, TreeFacts
  <2>. QED
    BY <1>2, <2>1, <2>2 DEF Spread
<1>. QED
  BY <1>6, <1>8, <1>9, <1>10 DEF new

\* ... and a variable its own, or that of its name.
LEMMA HeldLocal ==
  ASSUME Tree, NEW i \in Places, Local(i), NEW pl, NEW md, Held(i, pl, md),
         \A u \in Uses : Bound(u), NEW y
  PROVE  /\ Held(i + 1, Put(pl, i, y), md)
         /\ Put(pl, i, y)[i] = y
         /\ \A v \in Places : Local(v) /\ v < i => Put(pl, i, y)[v] = pl[v]
<1>. DEFINE new == Put(pl, i, y)
<1>1. /\ i \notin Uses /\ ~(Is(i, {"obj", "fun", "proto"}) /\ Encl(i) = 0) /\ Uses \subseteq Places
  BY DEF Uses, Local, Is, Kind
<1>2. (\A v \in Places : v < i + 1 <=> v < i \/ v = i) /\ ~(i < i)
  BY PastNode
<1>3. /\ DOMAIN new = DOMAIN pl \cup {i} /\ new[i] = y
      /\ \A v \in DOMAIN pl : v # i => new[v] = pl[v]
  BY DEF Put
<1>4. /\ \A v \in DOMAIN pl : v \in Places /\ v < i /\ v # i
      /\ \A v \in Places : Local(v) /\ v < i => v \in DOMAIN pl /\ v # i
  BY <1>2 DEF Held
<1>. HIDE DEF new
<1>5. \A v \in DOMAIN new : v \in Places /\ v < i + 1 /\ (Is(v, {"obj", "param"}) => Local(v))
  BY <1>2, <1>3 DEF Held
<1>6. \A v \in Places : Local(v) /\ v < i + 1 => v \in DOMAIN new
  BY <1>2, <1>3, <1>4
<1>7. ASSUME NEW u \in Uses, u < i + 1
      PROVE  /\ u \in DOMAIN new
             /\ new[u] = IF LocalUse(u) THEN new[info[u].at] ELSE Global(prog[u].n)
  <2>1. u < i /\ u # i
    BY <1>1, <1>2, <1>7
  <2>2. /\ u \in DOMAIN pl
        /\ pl[u] = IF LocalUse(u) THEN pl[info[u].at] ELSE Global(prog[u].n)
    BY <2>1 DEF Held
  <2>3. ASSUME LocalUse(u) PROVE info[u].at \in DOMAIN pl /\ info[u].at # i
    <3>1. info[u].at \in Places /\ Local(info[u].at) /\ info[u].at < u
      BY <2>3, BoundLocal
    <3>2. u \in Nat /\ i \in Nat /\ info[u].at \in Nat
      BY <1>1, <3>1, TreeFacts
    <3>. QED
      BY <1>4, <2>1, <3>1, <3>2
  <2>. QED
    BY <1>3, <2>1, <2>2, <2>3
<1>8. \A d \in Places : Is(d, {"obj", "fun", "proto"}) /\ Encl(d) = 0 /\ d < i + 1 => prog[d].n \in md
  BY <1>1, <1>2 DEF Held
<1>9. Held(i + 1, new, md)
  BY <1>5, <1>6, <1>7, <1>8 DEF Held
<1>. QED
  BY <1>3, <1>4, <1>9 DEF new

LEMMA StoredAgain ==
  ASSUME Tree, NEW i \in Places, Local(i), NEW pl, NEW md, NEW sl, NEW ns,
         Held(i, pl, md), InSlots(i, pl, sl), \A u \in Uses : Bound(u), prog[i].n \in DOMAIN sl
  PROVE  LET new == Put(pl, i, Slot(sl[prog[i].n]))
         IN  Held(i + 1, new, md) /\ InSlots(i + 1, new, sl) /\ Spread(i + 1, new, ns)
<1>. DEFINE new == Put(pl, i, Slot(sl[prog[i].n]))
<1>1. /\ Held(i + 1, new, md) /\ new[i] = Slot(sl[prog[i].n])
      /\ \A v \in Places : Local(v) /\ v < i => new[v] = pl[v]
  BY HeldLocal
<1>2. /\ \A v \in Places : v < i + 1 <=> v < i \/ v = i
      /\ \A v \in Places : v < i => (SameFunction(v, i + 1) <=> SameFunction(v, i))
      /\ ~(i < i) /\ SameFunction(i, i + 1)
  <2>1. ~Is(i, {"fun"})
    BY DEF Local, Is, Kind
  <2>. QED
    BY <2>1, PastNode
<1>. HIDE DEF new
<1>3. InSlots(i + 1, new, sl)
  BY <1>1, <1>2 DEF InSlots
<1>4. ~Distinct
  BY <1>2 DEF InSlots, Distinct
<1>. QED
  BY <1>1, <1>3, <1>4 DEF Spread, new

LEMMA StoredNew ==
  ASSUME Tree, NEW i \in Places, Local(i), NEW pl, NEW md, NEW sl, NEW ns \in Nat,
         Held(i, pl, md), InSlots(i, pl, sl), Spread(i, pl, ns), \A u \in Uses : Bound(u),
         ClashFree(Known("pass1", Len(prog) + 1)),
         ~(Is(i, {"obj"}) /\ prog[i].n \in DOMAIN sl)
  PROVE  LET new == Put(pl, i, Slot(ns))
         IN  /\ Held(i + 1, new, md) /\ InSlots(i + 1, new, Put(sl, prog[i].n, ns))
             /\ Spread(i + 1, new, ns + prog[i].w)
<1>. DEFINE new == Put(pl, i, Slot(ns))
            sn == Put(sl, prog[i].n, ns)
<1>1. /\ Held(i + 1, new, md) /\ new[i] = Slot(ns)
      /\ \A v \in Places : Local(v) /\ v < i => new[v] = pl[v]
  BY HeldLocal
<1>2. /\ \A v \in Places : v < i + 1 <=> v < i \/ v = i
      /\ \A v \in Places : v < i => (SameFunction(v, i + 1) <=> SameFunction(v, i))
      /\ ~(i < i) /\ SameFunction(i, i + 1) /\ SameFunction(i, i)
  <2>1. ~Is(i, {"fun"})
    BY DEF Local, Is, Kind
  <2>. QED
    BY <2>1, PastNode
<1>3. \A v \in Places : Local(v) /\ v < i /\ SameFunction(v, i) => prog[v].n # prog[i].n
  <2>1. CASE Is(i, {"param"})
    BY <2>1, ParameterNew
  <2>2. CASE ~Is(i, {"param"})
    <3>1. prog[i].n \notin DOMAIN sl
      BY <2>2 DEF Local, Is, Kind
    <3>. QED
      BY <3>1 DEF InSlots
  <2>. QED
    BY <2>1, <2>2
<1>4. /\ DOMAIN sn = DOMAIN sl \cup {prog[i].n} /\ sn[prog[i].n] = ns
      /\ \A n \in DOMAIN sl : n # prog[i].n => sn[n] = sl[n]
  BY DEF Put
<1>. HIDE DEF new, sn
<1>5. InSlots(i + 1, new, sn)
  <2>1. ASSUME NEW v \in Places, Local(v), v < i + 1, SameFunction(v, i + 1)
        PROVE  prog[v].n \in DOMAIN sn /\ new[v] = Slot(sn[prog[v].n])
    <3>1. CASE v = i
      BY <1>1, <1>4, <3>1
    <3>2. CASE v # i
      <4>1. v < i /\ SameFunction(v, i) /\ prog[v].n # prog[i].n
        BY <1>2, <1>3, <2>1, <3>2
      <4>2. prog[v].n \in DOMAIN sl /\ pl[v] = Slot(sl[prog[v].n])
        BY <2>1, <4>1 DEF InSlots
      <4>. QED
        BY <1>1, <1>4, <2>1, <4>1, <4>2
    <3>. QED
      BY <3>1, <3>2
  <2>2. ASSUME NEW n \in DOMAIN sn
        PROVE  \E v \in Places : Local(v) /\ v < i + 1 /\ SameFunction(v, i + 1) /\ prog[v].n = n
    <3>1. CASE n = prog[i].n
      BY <1>2, <3>1
    <3>2. CASE n # prog[i].n
      <4>1. n \in DOMAIN sl
        BY <1>4, <3>2
      <4>2. PICK v \in Places : Local(v) /\ v < i /\ SameFunction(v, i) /\ prog[v].n = n
        BY <4>1 DEF InSlots
      <4>. QED
        BY <1>2, <4>2
    <3>. QED
      BY <3>1, <3>2
  <2>. QED
    BY <2>1, <2>2 DEF InSlots
<1>6. Spread(i + 1, new, ns + prog[i].w)
  <2>. SUFFICES ASSUME Distinct
                PROVE  /\ \A v \in Places : Local(v) /\ v < i + 1 =>
                            /\ new[v].id \in Nat
                            /\ SameFunction(v, i + 1) => new[v].id + prog[v].w <= ns + prog[i].w
                       /\ \A d, e \in Places :
                            Local(d) /\ Local(e) /\ d < e /\ e < i + 1 /\ SameFunction(d, e) =>
                              new[d].id + prog[d].w <= new[e].id
    BY DEF Spread
  <2>0. new[i].id = ns /\ \A v \in Places : prog[v].w \in Nat /\ v \in Nat
    BY <1>1, TreeFacts DEF Slot, Nodes
  <2>1. ASSUME NEW v \in Places, Local(v), v < i
        PROVE  new[v].id \in Nat /\ (SameFunction(v, i) => new[v].id + prog[v].w <= ns)
    BY <1>1, <2>1 DEF Spread
  <2>2. ASSUME NEW v \in Places, Local(v), v < i + 1
        PROVE  /\ new[v].id \in Nat
               /\ SameFunction(v, i + 1) => new[v].id + prog[v].w <= ns + prog[i].w
    <3>1. CASE v = i
      BY <2>0, <3>1
    <3>2. CASE v # i
      <4>1. v < i
        BY <1>2, <2>2, <3>2
      <4>2. new[v].id \in Nat /\ (SameFunction(v, i + 1) => new[v].id + prog[v].w <= ns)
        BY <1>2, <2>1, <2>2, <4>1
      <4>. QED
        BY <2>0, <4>2
    <3>. QED
      BY <3>1, <3>2
  <2>3. ASSUME NEW d \in Places, NEW e \in Places, Local(d), Local(e), d < e, e < i + 1,
               SameFunction(d, e)
        PROVE  new[d].id + prog[d].w <= new[e].id
    <3>1. CASE e = i
      BY <2>0, <2>1, <2>3, <3>1
    <3>2. CASE e # i
      <4>1. e < i /\ d < i
        BY <2>0, <2>3, <3>2
      <4>2. pl[d].id + prog[d].w <= pl[e].id
        BY <2>3, <4>1 DEF Spread
      <4>. QED
        BY <1>1, <2>3, <4>1, <4>2
    <3>. QED
      BY <3>1, <3>2
  <2>. QED
    BY <2>2, <2>3
<1>. QED
  BY <1>1, <1>5, <1>6 DEF new, sn

LEMMA LoweringStored ==
  ASSUME WalkInv, CountInv, BindInv, NamesInv, StorageInv, Lowering, errors = {}
  PROVE  /\ Held(pos + 1, place', module') /\ InSlots(pos + 1, place', slots')
         /\ Spread(pos + 1, place', nextSlot')
<1>1. /\ Tree /\ pos \in Places /\ phase = "lower" /\ nextSlot \in Nat
      /\ Held(pos, place, module) /\ InSlots(pos, place, slots) /\ Spread(pos, place, nextSlot)
      /\ \A u \in Uses : Bound(u)
      /\ ClashFree(Known("pass1", Len(prog) + 1))
  BY Walking DEF CountInv, BindInv, NamesInv, StorageInv, Lowered
<1>2. CASE LowerLocal
  <2>1. Is(pos, {"obj", "param"}) /\ Local(pos)
    BY <1>2 DEF LowerLocal, In, Local
  <2>2. CASE The.t = "obj" /\ The.n \in DOMAIN slots
    <3>1. /\ place' = Put(place, pos, Slot(slots[prog[pos].n])) /\ prog[pos].n \in DOMAIN slots
          /\ UNCHANGED <<slots, nextSlot, module>>
      BY <1>2, <2>2 DEF LowerLocal, The
    <3>. QED
      BY <1>1, <2>1, <3>1, StoredAgain
  <2>3. CASE ~(The.t = "obj" /\ The.n \in DOMAIN slots)
    <3>1. /\ place' = Put(place, pos, Slot(nextSlot)) /\ UNCHANGED module
          /\ slots' = Put(slots, prog[pos].n, nextSlot) /\ nextSlot' = nextSlot + prog[pos].w
      BY <1>2, <2>3 DEF LowerLocal, NewSlot, The
    <3>2. ~(Is(pos, {"obj"}) /\ prog[pos].n \in DOMAIN slots)
      BY <2>3 DEF Is, Kind, The
    <3>. QED
      BY <1>1, <2>1, <3>1, <3>2, StoredNew
  <2>. QED
    BY <2>2, <2>3
<1>3. CASE LowerGlobal
  <2>1. /\ Is(pos, {"obj", "proto"}) /\ Encl(pos) = 0 /\ module' = module \cup {prog[pos].n}
        /\ UNCHANGED <<slots, nextSlot, place>>
    BY <1>3 DEF LowerGlobal, In, The
  <2>2. ~Local(pos) /\ ~Is(pos, {"use"}) /\ ~Is(pos, {"fun"})
    BY <2>1 DEF Local, Is, Kind
  <2>. QED
    BY <1>1, <2>1, <2>2, StoredPast
<1>4. CASE LowerFunction
  <2>1. /\ Is(pos, {"fun"}) /\ module' = module \cup {prog[pos].n}
        /\ slots' = <<>> /\ nextSlot' = 0 /\ UNCHANGED place
    BY <1>4 DEF LowerFunction, In, The
  <2>. QED
    BY <1>1, <2>1, StoredFunction
<1>5. CASE LowerUse
  <2>1. pos \in Uses
    BY <1>1, <1>5 DEF LowerUse, In, Uses
  <2>. DEFINE y == IF LocalUse(pos) THEN Slot(slots[prog[pos].n]) ELSE Global(prog[pos].n)
  <2>2. /\ LocalUse(pos) => prog[pos].n \in DOMAIN slots
        /\ Held(pos + 1, Put(place, pos, y), module) /\ InSlots(pos + 1, Put(place, pos, y), slots)
        /\ Spread(pos + 1, Put(place, pos, y), nextSlot)
    BY <1>1, <2>1, StoredUse
  <2>3. place' = Put(place, pos, y) /\ UNCHANGED <<slots, nextSlot, module>>
    BY <1>5, <2>2 DEF LowerUse, The, LocalUse
  <2>. QED
    BY <2>2, <2>3
<1>6. CASE LowerNothing
  <2>1. UNCHANGED <<slots, nextSlot, place, module>>
    BY <1>6 DEF LowerNothing
  <2>2. /\ ~Local(pos) /\ ~Is(pos, {"use"}) /\ ~Is(pos, {"fun"})
        /\ ~(Is(pos, {"obj", "proto"}) /\ Encl(pos) = 0)
    BY <1>6 DEF LowerNothing, Local, Is, Kind
  <2>. QED
    BY <1>1, <2>1, <2>2, StoredPast
<1>. QED
  BY <1>2, <1>3, <1>4, <1>5, <1>6 DEF Lowering

LEMMA StepStorage ==
  WalkInv /\ CountInv /\ BindInv /\ NamesInv /\ StorageInv /\ [Next]_vars => StorageInv'
<1>. SUFFICES ASSUME WalkInv, CountInv, BindInv, NamesInv, StorageInv, [Next]_vars
              PROVE  StorageInv'
  OBVIOUS
<1>0. Tree /\ Len(prog) \in Nat
  BY TreeFacts DEF WalkInv
<1>1. CASE Pass1 \/ Pass2
  <2>1. UNCHANGED <<phase, slots, place>> /\ phase \in {"pass1", "pass2"}
    BY <1>1, Walking
  <2>. QED
    BY <2>1 DEF StorageInv
<1>2. CASE Lowering
  <2>1. /\ UNCHANGED <<prog, ends, up, phase, info, errors>> /\ phase = "lower" /\ pos' = pos + 1
    BY <1>2, Walking
  <2>2. Lowered' = pos + 1
    BY <2>1 DEF Lowered
  <2>. QED
    BY <1>0, <1>2, <2>1, <2>2, LoweringStored, SameStored DEF StorageInv
<1>3. CASE EarlyUse
  BY <1>3 DEF EarlyUse, StorageInv
<1>4. CASE NextPass
  <2>1. /\ UNCHANGED <<prog, ends, up, info, errors, slots, place, nextSlot, module>>
        /\ pos = Len(prog) + 1 /\ pos' = 1 /\ phase \in {"pass1", "pass2", "lower"}
        /\ phase' = "lower" => phase = "pass2"
        /\ phase' = "pass2" => phase = "pass1"
        /\ phase' = "done" /\ errors = {} => phase = "lower"
    BY <1>0, <1>4 DEF NextPass, WalkInv, KeepLowering
  <2>2. CASE phase' = "lower"
    <3>1. slots = <<>> /\ place = <<>> /\ Lowered' = 1
      BY <2>1, <2>2 DEF StorageInv, Lowered
    <3>2. \A v \in Places : ~(v < 1) /\ v \in Nat
      BY <1>0, TreeFacts DEF Places
    <3>3. Uses \subseteq Places
      BY DEF Uses
    <3>4. Held(1, place, module) /\ InSlots(1, place, slots) /\ Spread(1, place, nextSlot)
      <4>1. DOMAIN <<>> = {}
        OBVIOUS
      <4>2. \A d, e \in Places : ~(d < e /\ e < 1)
        BY <3>2
      <4>. QED
        BY <3>1, <3>2, <3>3, <4>1, <4>2 DEF Held, InSlots, Spread
    <3>. QED
      BY <1>0, <2>1, <2>2, <3>1, <3>4, SameStored DEF StorageInv
  <2>3. CASE phase' = "pass2"
    BY <2>1, <2>3 DEF StorageInv
  <2>4. CASE phase' = "done"
    <3>1. Lowered' = Len(prog) + 1 /\ (phase = "lower" => Lowered = Len(prog) + 1)
      BY <2>1, <2>4 DEF Lowered
    <3>. QED
      BY <1>0, <2>1, <2>4, <3>1, SameStored DEF StorageInv
  <2>. QED
    BY <1>4, <2>2, <2>3, <2>4 DEF NextPass
<1>5. CASE UNCHANGED vars
  <2>1. UNCHANGED <<prog, ends, up, info, errors, phase, pos, slots, place, nextSlot, module>>
    BY <1>5 DEF vars
  <2>2. Lowered' = Lowered
    BY <2>1 DEF Lowered
  <2>. QED
    BY <1>0, <2>1, <2>2, SameStored DEF StorageInv
<1>. QED
  BY <1>1, <1>2, <1>3, <1>4, <1>5 DEF Next, Pass1, Pass2, Lowering, Over

NameInv == WalkInv /\ CountInv /\ BindInv /\ NamesInv /\ StorageInv

LEMMA NameInvariant == Spec => []NameInv
<1>1. Init => NameInv
  BY InitWalk, InitNames DEF Init, NameInv, CountInv, BindInv, StorageInv
<1>2. NameInv /\ [Next]_vars => NameInv'
  BY StepWalk, StepCount, StepBind, StepNames, StepStorage DEF NameInv
<1>. QED
  BY <1>1, <1>2, PTL DEF Spec

\* UsesReachStorage, for every unit: a use addresses what the declaration C has it
\* refer to was given, a slot or a name of the module.
THEOREM StorageCorrect == Spec => []UsesReachStorage
<1>1. NameInv => UsesReachStorage
  <2>. SUFFICES ASSUME NameInv, Accepted, ~Departs, NEW u \in Uses, NEW d \in CDeclarations(u)
                PROVE  IF Encl(d) # 0 THEN place[u] = place[d]
                       ELSE place[u] = Global(prog[u].n) /\ (Is(d, {"enum"}) \/ prog[u].n \in module)
    BY DEF UsesReachStorage
  <2>. DEFINE a == info[u].at
  <2>1. /\ Tree /\ errors = {} /\ phase = "done" /\ Held(Len(prog) + 1, place, module)
        /\ ClashFree(Known("pass1", Len(prog) + 1)) /\ \A v \in Uses : Bound(v)
    BY DEF NameInv, WalkInv, NamesInv, BindInv, StorageInv, Accepted, Done, Lowered
  <2>2. \A i \in Places : i < Len(prog) + 1
    BY <2>1, TreeFacts DEF Places
  <2>3. /\ u \in Places /\ place[u] = IF LocalUse(u) THEN place[a] ELSE Global(prog[u].n)
    BY <2>1, <2>2 DEF Held, Uses
  <2>4. /\ d \in Places /\ Is(d, Declares) /\ ~Is(d, {"end"}) /\ prog[d].n = prog[u].n
        /\ CEncl(d) = CScope(u) /\ d \in Nat
    BY <2>1, TreeFacts DEF CDeclarations, Declarations, Is, Kind, Declares
  <2>5. /\ a \in Places /\ Is(a, Declares) /\ ~Is(a, {"end"}) /\ prog[a].n = prog[u].n
        /\ CEncl(a) = CScope(u) /\ a \in Nat
        /\ info[u].class = Class(prog[a].t, Level(ScopeOf(a)))
    BY <2>1, TreeFacts, BoundAsC DEF Bound, Candidate, Declarations, Is, Kind, Declares
  <2>6. (Encl(a) = 0 <=> Encl(d) = 0) /\ (ScopeOf(a) = 0 <=> Encl(a) = 0)
    BY <2>1, <2>4, <2>5, CEnclIs, ScopeEncl
  <2>. HIDE DEF a
  <2>7. CASE Encl(d) # 0
    <3>1. ASSUME a # d PROVE FALSE
      <4>1. CLegal
        BY <2>1, CleanLegal
      <4>2. Compatible(a, d) \/ Compatible(d, a)
        <5>1. a < d \/ d < a
          BY <2>4, <2>5, <3>1
        <5>. QED
          BY <2>4, <2>5, <4>1, <5>1 DEF CLegal
      <4>. QED
        BY <2>1, <2>4, <2>5, <2>6, <2>7, <4>2, CEnclIs, ShapeFacts DEF Compatible, IsFunction
    <3>2. LocalUse(u)
      <4>1. Is(d, {"obj", "param"})
        <5>1. Candidate(u, a) /\ ScopeOf(a) # 0
          BY <2>1, <2>6, <2>7 DEF Bound, a
        <5>. QED
          BY <3>1, <5>1 DEF Candidate, Seen2
      <4>2. prog[a].t \in {"obj", "param"} /\ Level(ScopeOf(a)) = 2
        BY <2>6, <2>7, <3>1, <4>1 DEF Is, Kind, Level
      <4>3. Class("obj", 2) = "stack" /\ Class("param", 2) = "parameter"
        BY DEF Class
      <4>. QED
        BY <2>5, <4>2, <4>3 DEF LocalUse
    <3>. QED
      BY <2>3, <2>7, <3>1, <3>2
  <2>8. CASE Encl(d) = 0
    <3>1. ~LocalUse(u)
      <4>1. SUFFICES ASSUME LocalUse(u) PROVE FALSE
        OBVIOUS
      <4>2. Local(a)
        BY <2>1, <4>1, BoundLocal DEF a
      <4>. QED
        BY <2>6, <2>8, <4>2 DEF Local
    <3>2. Is(d, {"enum"}) \/ Is(d, {"obj", "fun", "proto"})
      BY <2>1, <2>4, <2>8, ShapeFacts DEF Is, Kind, Declares
    <3>. QED
      BY <2>1, <2>2, <2>3, <2>4, <2>8, <3>1, <3>2 DEF Held
  <2>. QED
    BY <2>7, <2>8
<1>. QED
  BY <1>1, NameInvariant, PTL

\* DistinctNamesApart, for every unit: variables of different names that live
\* together share no word.
THEOREM ApartCorrect == Spec => []DistinctNamesApart
<1>1. NameInv => DistinctNamesApart
  <2>. SUFFICES ASSUME NameInv, Accepted, \A d, e \in Variables : d # e => prog[d].n # prog[e].n,
                       NEW d \in Variables, NEW e \in Variables, Together(d, e)
                PROVE  Words(d) \cap Words(e) = {}
    BY DEF DistinctNamesApart, ObjectsApart
  <2>1. /\ Tree /\ Held(Len(prog) + 1, place, module) /\ Spread(Len(prog) + 1, place, nextSlot)
    BY DEF NameInv, WalkInv, StorageInv, Accepted, Done, Lowered
  <2>2. \A i \in Places : i < Len(prog) + 1 /\ i \in Nat
    BY <2>1, TreeFacts DEF Places
  <2>3. \A v : v \in Variables <=> v \in Places /\ Local(v)
    BY <2>1, <2>2 DEF Held, Variables, Local
  <2>4. Distinct
    BY <2>3 DEF Distinct
  <2>5. SameFunction(d, e) /\ d < e
    <3>1. d \in Places /\ e \in Places /\ d < e /\ CEncl(d) # 0 /\ InScope(e, d)
      BY <2>3 DEF Together
    <3>2. Inside(d, CEncl(d))
      BY <2>1, <3>1, CEnclIs
    <3>3. Inside(e, CEncl(d))
      BY <3>1, <3>2 DEF InScope, Inside, Close
    <3>. QED
      BY <2>1, <3>1, <3>2, <3>3, InsideSameFunction
  <2>6. /\ place[d].id \in Nat /\ place[e].id \in Nat /\ place[d].id + prog[d].w <= place[e].id
    BY <2>1, <2>2, <2>3, <2>4, <2>5 DEF Spread
  <2>7. prog[d].w \in Nat /\ prog[e].w \in Nat
    BY <2>1, <2>3, TreeFacts DEF Nodes
  <2>. QED
    BY <2>6, <2>7 DEF Words
<1>. QED
  BY <1>1, NameInvariant, PTL
=============================================================================
