-------------------------- MODULE AllocationProofs --------------------------
(***************************************************************************)
(* Register allocation, for every function and every register file: the    *)
(* graph has the edges it should have, the working degrees and the         *)
(* select-stack are what they should be, what is chosen clashes with       *)
(* nothing, what is spilled had to be, and what a call must leave alone is *)
(* in a register that the callee preserves.                                *)
(***************************************************************************)
EXTENDS Allocation, LiveRangesProofs

\* Nothing interferes with itself, and interference is mutual.
GraphInv == \A a \in Vreg : \A b \in adj[a] : a \in adj[b] /\ a # b

\* While nodes are pushed only the pinned have a colour, and none is spilled.
SimplifyInv == phase = "simplify" => colour = pin /\ nSpills = 0

\* The pinned keep their pin; the count and the cause of the spills.
Spills == {v \in Node : colour[v] = Spilled}
SelectInv ==
  phase \in {"select", "coloured"} =>
    /\ \A v \in Fixed : colour[v] = pin[v]
    /\ nSpills = Cardinality(Spills)
    /\ \A v \in Spills : Cells(Pref(v)) \subseteq Forbidden(v)

IInv ==
  /\ TypeOK /\ GraphInv /\ SimplifyInv /\ SelectInv
  /\ StackFaithful /\ DegreesFaithful /\ ChosenProper

-----------------------------------------------------------------------------
LEMMA CellsOf == \A s, S : s \in Seq(S) => Cells(s) \subseteq S
  BY DEF Cells

LEMMA Registers ==
  /\ ArgReg[1] \in Cells(ArgReg)
  /\ \A k \in DOMAIN ArgReg : ArgReg[k] \in Cells(ArgReg)
  /\ Cells(ArgReg) \subseteq PhysReg
  /\ \A v : Cells(Pref(v)) \subseteq PhysReg
  /\ NoColour \notin PhysReg /\ Spilled \notin PhysReg /\ NoColour # Spilled
<1>1. ArgReg \in Seq(Nat) /\ ArgReg # <<>>
  BY RegisterFile
<1>2. 1 \in DOMAIN ArgReg
  BY <1>1
<1>. QED
  BY <1>2, RegisterFile DEF Cells, PhysReg, Pref

LEMMA NodesFinite == IsFiniteSet(Node) /\ \A S \in SUBSET Node : IsFiniteSet(S)
<1>1. Node \subseteq Vreg
  BY DEF Node
<1>. QED
  BY <1>1, VregsAreIds, FS_Subset

LEMMA InitInv == Init => IInv
<1>. SUFFICES ASSUME Init PROVE IInv
  OBVIOUS
<1>1. PICK f \in Functions : code = f.code /\ nv = f.nv /\ np = f.np
  BY DEF Init
<1>2. TypeOK
  <2>1. code \in Body /\ nv \in Nat
    BY <1>1, FunctionsAssumption
  <2>2. np \in Nat
    BY <1>1, FunctionsAssumption
  <2>. QED
    BY <2>1, <2>2, BlocksAssumption DEF Init, TypeOK, Phases, Blank, Colour
<1>3. DOMAIN stack = {} /\ phase = "liveness" /\ \A v \in Vreg : adj[v] = {}
  BY DEF Init
<1>. QED
  BY <1>2, <1>3 DEF IInv, GraphInv, SimplifyInv, SelectInv, StackFaithful,
                    DegreesFaithful, ChosenProper

-----------------------------------------------------------------------------
(***************************************************************************)
(* Until PaintDone only the types and the graph are at stake.              *)
(***************************************************************************)
Early == {"liveness", "graph", "scout", "paint"}

LEMMA EarlyStep ==
  ASSUME IInv, TypeOK', GraphInv', phase' \in Early, stack' = stack
  PROVE  IInv'
  BY DEF IInv, Early, SimplifyInv, SelectInv, StackFaithful, DegreesFaithful,
         ChosenProper

LEMMA AnalyseInv == IInv /\ Analyse => IInv'
<1>. SUFFICES ASSUME IInv, Analyse PROVE IInv'
  OBVIOUS
<1>1. TypeOK'
  <2>1. \A b \in Block : after'[b] \in [1 .. Len(code[b]) -> SUBSET Vreg]
    <3>1. after' = LiveAfter(code)
      BY DEF Analyse
    <3>2. \A c, out, k : LiveAfterIn(c, out, k) \subseteq Vreg
      BY DEF LiveAfterIn
    <3>. QED
      BY <3>1, <3>2 DEF LiveAfter
  <2>. QED
    BY <2>1 DEF IInv, TypeOK, Analyse, Phases, funcVars, cursor, precolor, simplify,
                result, Node
<1>2. GraphInv'
  BY DEF IInv, GraphInv, Analyse
<1>. QED
  BY <1>1, <1>2, EarlyStep DEF Analyse, Early, simplify

LEMMA BuildGraphInv == IInv /\ BuildGraph => IInv'
<1>. SUFFICES ASSUME IInv, BuildGraph PROVE IInv'
  OBVIOUS
<1>. DEFINE joined(v) ==
       {x \in Node \ {v} : v \in Node /\ (DefinesBeside(v, x) \/ DefinesBeside(x, v))}
<1>1. adj' = [v \in Vreg |-> joined(v)] /\ pin' = [v \in Vreg |-> ParamPin(v)]
  BY DEF BuildGraph
<1>2. \A v \in Vreg : joined(v) \subseteq Node
  OBVIOUS
<1>3. \A v \in Vreg : ParamPin(v) \in Cells(ArgReg) \cup {NoColour}
  <2>1. ASSUME NEW v \in Vreg, v < Len(ArgReg) PROVE v + 1 \in DOMAIN ArgReg
    BY <2>1, RegisterFile, VregsAreIds
  <2>. QED
    BY <2>1, Registers DEF ParamPin
<1>4. GraphInv'
  <2>1. \A a, b \in Vreg : b \in joined(a) => a \in joined(b) /\ a # b
    BY DEF Node
  <2>2. \A a \in Vreg : joined(a) \subseteq Vreg
    BY DEF Node
  <2>. HIDE DEF joined
  <2>. QED
    BY <1>1, <2>1, <2>2 DEF GraphInv
<1>5. adj' \in [Vreg -> SUBSET Node] /\ pin' \in [Vreg -> Cells(ArgReg) \cup {NoColour}]
  <2>. HIDE DEF joined
  <2>. QED
    BY <1>1, <1>2, <1>3
<1>6. TypeOK'
  BY <1>5, BlocksAssumption
     DEF IInv, TypeOK, BuildGraph, Phases, funcVars, simplify, result, Node
<1>. QED
  BY <1>4, <1>6, EarlyStep DEF BuildGraph, Early, simplify

LEMMA NextBlockInv == IInv /\ NextBlock => IInv'
<1>. SUFFICES ASSUME IInv, NextBlock PROVE IInv'
  OBVIOUS
<1>1. TypeOK'
  <2>1. blk' \in 0 .. NumBlocks /\ ins' \in Nat
    BY BlocksAssumption DEF IInv, TypeOK, NextBlock
  <2>. QED
    BY <2>1 DEF IInv, TypeOK, NextBlock, funcVars, precolor, simplify, result, Node
<1>. QED
  BY <1>1, EarlyStep DEF IInv, GraphInv, NextBlock, Early, simplify

LEMMA HereIsInstr ==
  ASSUME TypeOK, NEW p, At(p)
  PROVE  /\ Here \in Instr /\ ins \in Nat /\ blk \in Block
         /\ InstrDef(Here) \subseteq Vreg /\ InstrUses(Here) \subseteq Vreg
         /\ LiveAfterHere \subseteq Vreg
<1>1. blk \in Block
  BY BlocksAssumption DEF TypeOK, At, Block
<1>2. code[blk] \in Seq(Instr) /\ ins \in DOMAIN code[blk]
  BY <1>1 DEF TypeOK, At, Body
<1>3. Here \in Instr
  BY <1>2 DEF Here
<1>4. InstrDef(Here) \subseteq Vreg
  BY <1>3 DEF InstrDef, Instr, Operand
<1>5. InstrUses(Here) \subseteq Vreg
  <2>1. Here.src \in Seq(Operand)
    BY <1>3 DEF Instr
  <2>2. \A n \in 1 .. Len(Here.src) : Here.src[n] \in Operand
    BY <2>1
  <2>. QED
    BY <2>2 DEF InstrUses, Operand
<1>6. LiveAfterHere \subseteq Vreg
  BY <1>1 DEF TypeOK, At, LiveAfterHere
<1>. QED
  BY <1>1, <1>3, <1>4, <1>5, <1>6 DEF TypeOK

LEMMA ScoutInv == IInv /\ Scout => IInv'
<1>. SUFFICES ASSUME IInv, Scout PROVE IInv'
  OBVIOUS
<1>1. TypeOK'
  <2>1. callLive' \in SUBSET Vreg /\ ins' \in Nat
    BY HereIsInstr DEF IInv, TypeOK, Scout, AcrossTo
  <2>. QED
    BY <2>1 DEF IInv, TypeOK, Scout, funcVars, simplify, result, Node
<1>. QED
  BY <1>1, EarlyStep DEF IInv, GraphInv, Scout, At, Early, simplify

LEMMA ScoutDoneInv == IInv /\ ScoutDone => IInv'
<1>. SUFFICES ASSUME IInv, ScoutDone PROVE IInv'
  OBVIOUS
<1>1. TypeOK'
  BY BlocksAssumption
     DEF IInv, TypeOK, ScoutDone, Phases, funcVars, precolor, simplify, result, Node
<1>. QED
  BY <1>1, EarlyStep DEF IInv, GraphInv, ScoutDone, Early, simplify

LEMMA PaintInv ==
  ASSUME IInv, PaintInstr \/ PaintArg \/ PaintCallDone
  PROVE  IInv'
<1>1. /\ phase = "paint" /\ ins \in Nat /\ At("paint")
      /\ UNCHANGED <<funcVars, phase, after, adj, blk, callLive, simplify, result>>
  BY HereIsInstr DEF IInv, TypeOK, PaintInstr, PaintArg, PaintCallDone, At, precolor
<1>2. ins' \in Nat /\ arg' \in Nat
  BY <1>1 DEF IInv, TypeOK, PaintInstr, PaintArg, PaintCallDone
<1>3. pin' \in [Vreg -> Cells(ArgReg) \cup {NoColour}]
  BY Registers DEF IInv, TypeOK, PaintInstr, PaintArg, PaintCallDone, precolor
<1>4. TypeOK'
  BY <1>1, <1>2, <1>3 DEF IInv, TypeOK, funcVars, simplify, result, Node
<1>. QED
  BY <1>1, <1>4, EarlyStep DEF IInv, GraphInv, Early, simplify

-----------------------------------------------------------------------------
(***************************************************************************)
(* regalloc_build starts: the pins are the colours, and clash only with    *)
(* one another.                                                            *)
(***************************************************************************)
LEMMA PaintDoneInv == IInv /\ PaintDone => IInv'
<1>. SUFFICES ASSUME IInv, PaintDone PROVE IInv'
  OBVIOUS
<1>1. /\ Node' = Node /\ adj' = adj /\ phase' = "simplify" /\ colour' = pin
      /\ pin' = pin /\ nSpills' = 0
      /\ wdeg' = [v \in Vreg |-> Cardinality(adj[v])] /\ removed' = {} /\ stack' = <<>>
  BY DEF PaintDone, Node, funcVars, precolor
<1>2. \A v \in Vreg : Cardinality(adj[v]) \in Nat
  BY NodesFinite, FS_CardinalityType DEF IInv, TypeOK
<1>3. TypeOK'
  <2>1. wdeg' \in [Vreg -> Int]
    BY <1>1, <1>2
  <2>2. colour' \in [Vreg -> Colour]
    BY <1>1, Registers DEF IInv, TypeOK, Colour
  <2>. QED
    BY <1>1, <2>1, <2>2 DEF IInv, TypeOK, PaintDone, Phases, funcVars, cursor, precolor
<1>4. GraphInv' /\ SimplifyInv'
  BY <1>1 DEF IInv, GraphInv, SimplifyInv
<1>5. StackFaithful'
  <2>1. DOMAIN stack' = {}
    BY <1>1
  <2>. QED
    BY <1>1, <2>1 DEF StackFaithful, Pending, Cells
<1>6. DegreesFaithful'
  <2>1. \A v \in Node : v \in Vreg /\ adj[v] \ {} = adj[v]
    BY DEF Node
  <2>. QED
    BY <1>1, <2>1 DEF DegreesFaithful
<1>. QED
  BY <1>1, <1>3, <1>4, <1>5, <1>6 DEF IInv, SelectInv, ChosenProper

LEMMA RemainingNodes ==
  ASSUME TypeOK
  PROVE  /\ Node \subseteq Vreg /\ Remaining \subseteq Node
         /\ \A v \in Remaining : v \notin removed /\ v \notin Fixed
  BY DEF Remaining, Node

\* Appending keeps the cells of the stack distinct, and adds one.
LEMMA Appended ==
  ASSUME NEW S, NEW s \in Seq(S), NEW x \in S, x \notin Cells(s),
         \A j, k \in DOMAIN s : s[j] = s[k] => j = k
  PROVE  /\ \A j, k \in DOMAIN Append(s, x) :
              Append(s, x)[j] = Append(s, x)[k] => j = k
         /\ Cells(Append(s, x)) = Cells(s) \cup {x}
<1>. DEFINE t == Append(s, x)
<1>1. /\ DOMAIN s = 1 .. Len(s) /\ DOMAIN t = 1 .. Len(s) + 1 /\ Len(s) \in Nat
      /\ \A k \in 1 .. Len(s) : t[k] = s[k] /\ t[k] # x
      /\ t[Len(s) + 1] = x
  BY DEF Cells
<1>2. \A k \in 1 .. Len(s) + 1 : k \in 1 .. Len(s) \/ k = Len(s) + 1
  BY <1>1
<1>. HIDE DEF t
<1>3. \A j, k \in DOMAIN t : t[j] = t[k] => j = k
  BY <1>1, <1>2
<1>4. Cells(t) = Cells(s) \cup {x}
  <2>1. Len(s) + 1 \in DOMAIN t /\ \A k \in 1 .. Len(s) : k \in DOMAIN t
    BY <1>1
  <2>. QED
    BY <1>1, <1>2, <2>1 DEF Cells
<1>. QED
  BY <1>3, <1>4 DEF t

LEMMA PushInv ==
  ASSUME IInv, phase = "simplify", NEW v \in Remaining, Push(v)
  PROVE  IInv'
<1>1. /\ Node' = Node /\ adj' = adj /\ phase' = phase /\ colour' = colour
      /\ pin' = pin /\ nSpills' = nSpills /\ Fixed' = Fixed
      /\ stack' = Append(stack, v) /\ removed' = removed \cup {v}
      /\ wdeg' = [u \in Vreg |-> IF LessOne(v, u) THEN wdeg[u] - 1 ELSE wdeg[u]]
  BY DEF Push, Node, Fixed, funcVars, precolor, result
<1>2. v \in Node /\ v \in Vreg /\ v \notin removed /\ v \notin Fixed
  BY RemainingNodes DEF IInv
<1>3. Pending = removed /\ removed \cap Fixed = {} /\ stack \in Seq(Node)
  BY DEF IInv, StackFaithful, TypeOK
<1>4. /\ \A j, k \in DOMAIN stack' : stack'[j] = stack'[k] => j = k
      /\ Pending' = removed'
  <2>1. v \notin Cells(stack) /\ \A j, k \in DOMAIN stack : stack[j] = stack[k] => j = k
    BY <1>2, <1>3 DEF IInv, StackFaithful, Pending
  <2>2. /\ \A j, k \in DOMAIN Append(stack, v) :
             Append(stack, v)[j] = Append(stack, v)[k] => j = k
        /\ Cells(Append(stack, v)) = Cells(stack) \cup {v}
    BY <1>2, <1>3, <2>1, Appended
  <2>. QED
    BY <1>1, <1>3, <2>2 DEF Pending
<1>5. StackFaithful'
  <2>1. removed' \cap Fixed' = {}
    BY <1>1, <1>2, <1>3
  <2>. QED
    BY <1>1, <1>4, <2>1 DEF StackFaithful
<1>6. TypeOK'
  <2>1. wdeg' \in [Vreg -> Int]
    BY <1>1 DEF IInv, TypeOK
  <2>2. stack' \in Seq(Node) /\ removed' \in SUBSET Node
    BY <1>1, <1>2, <1>3 DEF IInv, TypeOK
  <2>. QED
    BY <1>1, <2>1, <2>2 DEF IInv, TypeOK, Push, funcVars, cursor, precolor, result
<1>7. DegreesFaithful'
  <2>. SUFFICES ASSUME NEW u \in Node, u \notin removed, u # v
                PROVE  wdeg'[u] = Cardinality(adj[u] \ (removed \cup {v}))
    BY <1>1 DEF DegreesFaithful
  <2>1. u \in Vreg /\ wdeg[u] = Cardinality(adj[u] \ removed)
    BY RemainingNodes DEF IInv, DegreesFaithful
  <2>2. u \in adj[v] <=> v \in adj[u]
    BY <1>2, <2>1 DEF IInv, GraphInv
  <2>3. IsFiniteSet(adj[u] \ removed)
    BY <2>1, NodesFinite DEF IInv, TypeOK
  <2>4. CASE v \in adj[u]
    <3>1. adj[u] \ (removed \cup {v}) = (adj[u] \ removed) \ {v}
      OBVIOUS
    <3>2. Cardinality((adj[u] \ removed) \ {v}) = Cardinality(adj[u] \ removed) - 1
      BY <1>2, <2>3, <2>4, FS_RemoveElement
    <3>. QED
      BY <1>1, <2>1, <2>2, <2>4, <3>1, <3>2 DEF LessOne
  <2>5. CASE v \notin adj[u]
    <3>1. adj[u] \ (removed \cup {v}) = adj[u] \ removed
      BY <2>5
    <3>. QED
      BY <1>1, <2>1, <2>2, <2>5, <3>1 DEF LessOne
  <2>. QED
    BY <2>4, <2>5
<1>. QED
  BY <1>1, <1>5, <1>6, <1>7
     DEF IInv, GraphInv, SimplifyInv, SelectInv, ChosenProper

\* The nodes that are not pinned are all on the stack, and only they have
\* no colour yet.
LEMMA SimplifyDoneInv == IInv /\ SimplifyDone => IInv'
<1>. SUFFICES ASSUME IInv, SimplifyDone PROVE IInv'
  OBVIOUS
<1>1. /\ Node' = Node /\ adj' = adj /\ phase' = "select" /\ phase = "simplify"
      /\ colour' = colour /\ pin' = pin /\ nSpills' = nSpills /\ Fixed' = Fixed
      /\ stack' = stack /\ callLive' = callLive
  BY DEF SimplifyDone, Node, Fixed, funcVars, precolor, simplify, result
<1>2. colour = pin /\ nSpills = 0 /\ Pending = removed /\ removed \cap Fixed = {}
  BY <1>1 DEF IInv, SimplifyInv, StackFaithful
<1>3. Node \subseteq removed \cup Fixed
  BY DEF SimplifyDone, Remaining
<1>4. \A v \in Node : v \in Fixed <=> colour[v] # NoColour
  BY <1>2 DEF Fixed
<1>5. \A v \in Node : colour[v] # Spilled
  <2>1. Node \subseteq Vreg
    BY DEF Node
  <2>. QED
    BY <1>2, <2>1, Registers DEF IInv, TypeOK
<1>6. TypeOK' /\ GraphInv'
  BY <1>1 DEF IInv, TypeOK, GraphInv, SimplifyDone, Phases, funcVars, cursor,
              precolor, simplify, result
<1>7. StackFaithful'
  <2>1. Pending' = Pending
    BY <1>1 DEF Pending
  <2>. QED
    BY <1>1, <1>2, <1>3, <1>4, <2>1 DEF IInv, StackFaithful
<1>8. ChosenProper'
  <2>1. \A a, b \in Node : colour[a] = colour[b] /\ colour[a] \in PhysReg
                             => {a, b} \subseteq Fixed
    BY <1>4, Registers
  <2>. QED
    BY <1>1, <2>1 DEF ChosenProper, Shares
<1>9. SelectInv'
  <2>1. Spills' = {} /\ Cardinality({}) = 0
    BY <1>1, <1>5, FS_EmptySet DEF Spills
  <2>2. \A v \in Fixed' : colour'[v] = pin'[v]
    BY <1>1, <1>2
  <2>. QED
    BY <1>1, <1>2, <2>1, <2>2 DEF SelectInv
<1>. QED
  BY <1>1, <1>6, <1>7, <1>8, <1>9 DEF IInv, SimplifyInv, DegreesFaithful

\* Taking the top off keeps the cells distinct, and takes one away.
LEMMA Popped ==
  ASSUME NEW S, NEW s \in Seq(S), s # <<>>,
         \A j, k \in DOMAIN s : s[j] = s[k] => j = k
  PROVE  LET t == SubSeq(s, 1, Len(s) - 1)
         IN  /\ t \in Seq(S) /\ s[Len(s)] \in Cells(s) /\ s[Len(s)] \in S
             /\ \A j, k \in DOMAIN t : t[j] = t[k] => j = k
             /\ Cells(t) = Cells(s) \ {s[Len(s)]}
<1>. DEFINE n == Len(s)
            t == SubSeq(s, 1, n - 1)
<1>1. n \in Nat /\ n > 0 /\ DOMAIN s = 1 .. n /\ n \in DOMAIN s
  BY DEF n
<1>2. t \in Seq(S) /\ DOMAIN t = 1 .. n - 1 /\ \A k \in 1 .. n - 1 : t[k] = s[k]
  <2>1. n - 1 \in Nat /\ n - 1 <= Len(s)
    BY <1>1
  <2>. HIDE DEF n
  <2>. QED
    BY <1>1, <2>1
<1>. HIDE DEF t, n
<1>3. \A k \in 1 .. n : k = n \/ k \in 1 .. n - 1
  BY <1>1
<1>4. 1 .. n - 1 \subseteq 1 .. n /\ n \notin 1 .. n - 1
  BY <1>1
<1>5. \A j, k \in DOMAIN t : t[j] = t[k] => j = k
  BY <1>1, <1>2, <1>4
<1>6. Cells(t) = Cells(s) \ {s[n]}
  <2>1. \A k \in 1 .. n - 1 : s[k] # s[n]
    BY <1>1, <1>4
  <2>2. Cells(t) = {s[k] : k \in 1 .. n - 1}
    BY <1>2 DEF Cells
  <2>3. Cells(s) = {s[k] : k \in 1 .. n}
    BY <1>1 DEF Cells
  <2>. QED
    BY <1>3, <1>4, <2>1, <2>2, <2>3
<1>7. s[n] \in Cells(s) /\ s[n] \in S
  BY <1>1 DEF Cells
<1>. QED
  BY <1>2, <1>5, <1>6, <1>7 DEF t, n

(***************************************************************************)
(* What Select does to the node it pops: it had no colour, and gets one    *)
(* that no neighbour has, or is spilled because all those it may have are  *)
(* taken.                                                                  *)
(***************************************************************************)
LEMMA SelectStep ==
  ASSUME IInv, Select
  PROVE  \E v \in Node, c \in PhysReg \cup {Spilled} :
           /\ v \in Vreg /\ v \in Pending /\ v \notin Fixed /\ colour[v] = NoColour
           /\ colour' = [colour EXCEPT ![v] = c]
           /\ c \notin Forbidden(v) \/ c = Spilled
           /\ \/ c # Spilled /\ nSpills' = nSpills
              \/ c = Spilled /\ nSpills' = nSpills + 1 /\ Cells(Pref(v)) \subseteq Forbidden(v)
           /\ stack' \in Seq(Node) /\ Pending' = Pending \ {v}
           /\ \A j, k \in DOMAIN stack' : stack'[j] = stack'[k] => j = k
<1>. DEFINE v == stack[Len(stack)]
<1>1. phase = "select" /\ stack # <<>> /\ stack' = SubSeq(stack, 1, Len(stack) - 1)
  BY DEF Select
<1>2. stack \in Seq(Node) /\ \A j, k \in DOMAIN stack : stack[j] = stack[k] => j = k
  BY DEF IInv, TypeOK, StackFaithful
<1>3. /\ v \in Node /\ v \in Pending
      /\ stack' \in Seq(Node) /\ Pending' = Pending \ {v}
      /\ \A j, k \in DOMAIN stack' : stack'[j] = stack'[k] => j = k
  BY <1>1, <1>2, Popped, Zenon DEF Pending
<1>4. v \in Vreg /\ colour[v] = NoColour
  BY <1>1, <1>3 DEF IInv, StackFaithful, Node
<1>5. v \notin Fixed
  BY <1>1, <1>4 DEF IInv, SelectInv, Fixed
<1>. HIDE DEF v
<1>6. CASE \E k \in Free(v) : /\ colour' = [colour EXCEPT ![v] = Pref(v)[k]]
                              /\ UNCHANGED nSpills
  <2>1. PICK k \in Free(v) : colour' = [colour EXCEPT ![v] = Pref(v)[k]]
                              /\ UNCHANGED nSpills
    BY <1>6
  <2>2. Pref(v)[k] \in PhysReg /\ Pref(v)[k] \notin Forbidden(v) /\ Pref(v)[k] # Spilled
    BY <2>1, Registers DEF Free, Cells
  <2>. QED
    BY <1>3, <1>4, <1>5, <2>1, <2>2
<1>7. CASE /\ Free(v) = {} /\ colour' = [colour EXCEPT ![v] = Spilled]
           /\ nSpills' = nSpills + 1
  <2>1. Cells(Pref(v)) \subseteq Forbidden(v)
    BY <1>7 DEF Free, Cells
  <2>. QED
    BY <1>3, <1>4, <1>5, <1>7, <2>1
<1>. QED
  BY <1>6, <1>7 DEF Select, v

LEMMA SelectInvStep == IInv /\ Select => IInv'
<1>. SUFFICES ASSUME IInv, Select PROVE IInv'
  OBVIOUS
<1>1. /\ Node' = Node /\ adj' = adj /\ phase' = "select" /\ phase = "select"
      /\ pin' = pin /\ Fixed' = Fixed /\ callLive' = callLive
  BY DEF Select, Node, Fixed, funcVars, precolor
<1>2. PICK v \in Node, c \in PhysReg \cup {Spilled} :
        /\ v \in Vreg /\ v \in Pending /\ v \notin Fixed /\ colour[v] = NoColour
        /\ colour' = [colour EXCEPT ![v] = c]
        /\ c \notin Forbidden(v) \/ c = Spilled
        /\ \/ c # Spilled /\ nSpills' = nSpills
           \/ c = Spilled /\ nSpills' = nSpills + 1 /\ Cells(Pref(v)) \subseteq Forbidden(v)
        /\ stack' \in Seq(Node) /\ Pending' = Pending \ {v}
        /\ \A j, k \in DOMAIN stack' : stack'[j] = stack'[k] => j = k
  BY SelectStep
<1>3. /\ \A u \in Vreg : u # v => colour'[u] = colour[u]
      /\ colour'[v] = c /\ c # NoColour
      /\ colour \in [Vreg -> Colour] /\ Node \subseteq Vreg
  BY <1>2, Registers, RemainingNodes DEF IInv, TypeOK
<1>4. /\ \A u \in Vreg : adj[u] \subseteq Node
      /\ \A u \in Vreg : \A w \in adj[u] : u \in adj[w] /\ u # w
  BY DEF IInv, TypeOK, GraphInv
<1>5. TypeOK'
  <2>1. colour' \in [Vreg -> Colour] /\ nSpills' \in Nat
    BY <1>2 DEF IInv, TypeOK, Colour
  <2>. QED
    BY <1>1, <1>2, <2>1 DEF IInv, TypeOK, Select, funcVars, cursor, precolor
<1>6. StackFaithful'
  <2>1. \A u \in Node : u \in Pending <=> colour[u] = NoColour
    BY <1>1 DEF IInv, StackFaithful
  <2>2. \A u \in Node : u \in Pending' <=> colour'[u] = NoColour
    BY <1>2, <1>3, <2>1
  <2>. QED
    BY <1>1, <1>2, <2>2 DEF StackFaithful
<1>7. ChosenProper'
  <2>. SUFFICES ASSUME NEW a \in Node, NEW b \in adj[a],
                       colour'[a] = colour'[b], colour'[a] \in PhysReg
                PROVE  a \in Fixed /\ b \in Fixed
    <3>1. \A a, b \in Node : Shares(a, b)' => b \in adj[a] /\ colour'[a] = colour'[b]
                                                /\ colour'[a] \in PhysReg
      BY <1>1 DEF Shares
    <3>. QED
      BY <1>1, <3>1 DEF ChosenProper
  <2>1. b \in Node /\ a \in adj[b] /\ a # b /\ a \in Vreg /\ b \in Vreg
    BY <1>3, <1>4
  <2>2. a # v /\ b # v
    <3>1. ASSUME NEW x \in adj[v], colour'[x] = c, c \in PhysReg PROVE FALSE
      <4>1. colour'[x] = colour[x]
        BY <1>2, <1>3, <1>4
      <4>. QED
        BY <1>2, <3>1, <4>1, Registers DEF Forbidden
    <3>. QED
      BY <1>3, <2>1, <3>1
  <2>3. Shares(a, b)
    BY <1>3, <2>1, <2>2 DEF Shares
  <2>. QED
    BY <1>1, <2>1, <2>3 DEF IInv, ChosenProper
<1>8. SelectInv'
  <2>1. \A u \in Fixed : colour'[u] = pin[u]
    BY <1>1, <1>2, <1>3 DEF IInv, SelectInv, Fixed
  <2>2. nSpills' = Cardinality(Spills')
    <3>1. nSpills = Cardinality(Spills) /\ IsFiniteSet(Spills) /\ v \notin Spills
      BY <1>1, <1>2, NodesFinite, Registers DEF IInv, SelectInv, Spills
    <3>2. CASE c # Spilled
      <4>1. Spills' = Spills
        BY <1>1, <1>2, <1>3, <3>1, <3>2 DEF Spills
      <4>. QED
        BY <1>2, <3>1, <3>2, <4>1
    <3>3. CASE c = Spilled
      <4>1. Spills' = Spills \cup {v}
        BY <1>1, <1>2, <1>3, <3>1, <3>3 DEF Spills
      <4>2. Cardinality(Spills \cup {v}) = Cardinality(Spills) + 1
        BY <3>1, FS_AddElement
      <4>. QED
        BY <1>2, <3>1, <3>3, <4>1, <4>2
    <3>. QED
      BY <3>2, <3>3
  <2>3. ASSUME NEW u \in Spills' PROVE Cells(Pref(u))' \subseteq Forbidden(u)'
    <3>1. Pref(u)' = Pref(u) /\ u \in Node /\ u \in Vreg
      BY <1>1, <1>3, <2>3 DEF Pref, Spills
    <3>2. Cells(Pref(u)) \subseteq Forbidden(u)
      BY <1>1, <1>2, <1>3, <2>3, <3>1 DEF IInv, SelectInv, Spills
    <3>3. \A x \in adj[u] : colour[x] \in Cells(Pref(u)) => colour'[x] = colour[x]
      BY <1>2, <1>3, <1>4, <3>1, Registers
    <3>4. \A r \in Cells(Pref(u)) : \E x \in adj[u] : colour'[x] = r
      BY <3>2, <3>3 DEF Forbidden
    <3>. QED
      BY <1>1, <3>1, <3>4 DEF Forbidden, Cells
  <2>. QED
    BY <1>1, <2>1, <2>2, <2>3 DEF SelectInv
<1>. QED
  BY <1>1, <1>5, <1>6, <1>7, <1>8 DEF IInv, GraphInv, SimplifyInv, DegreesFaithful

LEMMA SelectDoneInv == IInv /\ SelectDone => IInv'
<1>. SUFFICES ASSUME IInv, SelectDone PROVE IInv'
  OBVIOUS
<1>1. /\ phase' = "coloured" /\ phase = "select"
      /\ UNCHANGED <<funcVars, after, adj, cursor, precolor, simplify, result>>
  BY DEF SelectDone
<1>2. TypeOK' /\ GraphInv'
  BY <1>1 DEF IInv, TypeOK, GraphInv, Phases, funcVars, cursor, precolor, simplify,
              result, Node
<1>3. StackFaithful'
  BY <1>1 DEF IInv, StackFaithful, Pending, Fixed, Node, funcVars, precolor, simplify,
              result
<1>4. SelectInv' /\ ChosenProper'
  BY <1>1 DEF IInv, SelectInv, ChosenProper, Shares, Spills, Fixed, Node, Pref,
              Forbidden, funcVars, precolor, result
<1>. QED
  BY <1>1, <1>2, <1>3, <1>4 DEF IInv, SimplifyInv, DegreesFaithful

LEMMA StepInv == IInv /\ [Allocate]_avars => IInv'
<1>. SUFFICES ASSUME IInv, [Allocate]_avars PROVE IInv'
  OBVIOUS
<1>1. CASE Graph
  BY <1>1, AnalyseInv, BuildGraphInv DEF Graph
<1>2. CASE Precolour
  BY <1>2, NextBlockInv, ScoutInv, ScoutDoneInv, PaintInv, PaintDoneInv DEF Precolour
<1>3. CASE ColourNodes
  <2>1. PushLow => \E v \in Remaining : phase = "simplify" /\ Push(v)
    BY DEF PushLow, LowDegree
  <2>2. PushHigh => \E v \in Remaining : phase = "simplify" /\ Push(v)
    BY DEF PushHigh
  <2>. QED
    BY <1>3, <2>1, <2>2, PushInv, SimplifyDoneInv, SelectInvStep, SelectDoneInv
       DEF ColourNodes
<1>4. CASE UNCHANGED avars
  <2>1. UNCHANGED <<funcVars, phase, after, adj, cursor, precolor, simplify, result>>
    BY <1>4 DEF avars
  <2>2. TypeOK' /\ GraphInv'
    BY <2>1 DEF IInv, TypeOK, GraphInv, funcVars, cursor, precolor, simplify, result, Node
  <2>3. StackFaithful'
    BY <2>1 DEF IInv, StackFaithful, Pending, Fixed, Node, funcVars, precolor, simplify,
                result
  <2>4. SelectInv' /\ ChosenProper' /\ SimplifyInv'
    BY <2>1 DEF IInv, SelectInv, ChosenProper, SimplifyInv, Shares, Spills, Fixed, Node,
                Pref, Forbidden, funcVars, precolor, result
  <2>5. DegreesFaithful'
    BY <2>1 DEF IInv, DegreesFaithful, Node, funcVars, simplify
  <2>. QED
    BY <2>2, <2>3, <2>4, <2>5 DEF IInv
<1>. QED
  BY <1>1, <1>2, <1>3, <1>4 DEF Allocate

THEOREM Invariant == ASpec => []IInv
<1>1. Init => IInv
  BY InitInv
<1>2. IInv /\ [Allocate]_avars => IInv'
  BY StepInv
<1>. QED
  BY <1>1, <1>2, PTL DEF ASpec

-----------------------------------------------------------------------------
\* Every variable keeps its type, for every function and register file.
THEOREM TypeCorrect == ASpec => []TypeOK
<1>1. IInv => TypeOK
  BY DEF IInv
<1>. QED
  BY <1>1, Invariant, PTL

\* The working degree simplification compares with K is the number of
\* neighbours still in the graph.
THEOREM DegreesCorrect == ASpec => []DegreesFaithful
<1>1. IInv => DegreesFaithful
  BY DEF IInv
<1>. QED
  BY <1>1, Invariant, PTL

\* Every node to be coloured is pushed once and popped once.
THEOREM StackCorrect == ASpec => []StackFaithful
<1>1. IInv => StackFaithful
  BY DEF IInv
<1>. QED
  BY <1>1, Invariant, PTL

\* The simplification of regalloc_build, for every graph and pinning.
THEOREM SimplifyCorrect == ASpec => []SimplifySound
BY DegreesCorrect, StackCorrect, PTL DEF SimplifySound

\* The register regalloc_build chooses for a node is that of no neighbour.
THEOREM ChoicesNeverClash == ASpec => []ChosenProper
<1>1. IInv => ChosenProper
  BY DEF IInv
<1>. QED
  BY <1>1, Invariant, PTL

\* A node is spilled only if its neighbours hold all it may have, and
\* n_spills, on which the loop of main stops, counts the spilled nodes.
THEOREM SpillsNeeded == ASpec => []SpillJustified
<1>1. IInv => SpillJustified
  <2>. SUFFICES ASSUME IInv, phase = "coloured" PROVE SpillJustified
    BY DEF SpillJustified, Ended
  <2>. QED
    BY DEF IInv, SelectInv, SpillJustified, Spills
<1>. QED
  BY <1>1, Invariant, PTL

-----------------------------------------------------------------------------
(***************************************************************************)
(* The graph of ifg_build. It joins a register where it is written with    *)
(* what is live there, and nowhere else: that is enough, because of two    *)
(* registers that are live at one point the later is written while the     *)
(* other is live. Going back from such a point, through a block and over   *)
(* its predecessors, both stay live until one of them is written.          *)
(***************************************************************************)
Joined(body, a, b) ==
  \E c \in Block : \E k \in 1 .. Len(body[c]) :
    a \in InstrDef(body[c][k]) /\ b \in LiveAfter(body)[c][k]

LEMMA BackThroughBlock ==
  ASSUME NEW body \in Body, NEW a \in Vreg, NEW b \in Vreg,
         ~Joined(body, a, b), ~Joined(body, b, a),
         NEW c \in Block, NEW n \in 0 .. Len(body[c]),
         {a, b} \subseteq LiveAfterIn(body[c], LiveOutOf(body, c), n)
  PROVE  {a, b} \subseteq LiveInto(body, c)
<1>. DEFINE Both(k) == {a, b} \subseteq LiveAfterIn(body[c], LiveOutOf(body, c), k)
            S == {k \in 0 .. Len(body[c]) : Both(k)}
<1>1. body[c] \in Seq(Instr) /\ Len(body[c]) \in Nat
  BY DEF Body
<1>2. \E k \in S : \A j \in S : k <= j
  <2>1. S \in SUBSET Nat /\ S # {}
    BY <1>1
  <2>. HIDE DEF S
  <2>. QED
    BY <2>1, LeastNumber
<1>3. PICK k \in S : \A j \in S : k <= j
  BY <1>2
<1>4. k = 0
  <2>. SUFFICES ASSUME k # 0 PROVE FALSE
    OBVIOUS
  <2>1. k \in 1 .. Len(body[c]) /\ k - 1 \in 0 .. Len(body[c]) /\ ~(k <= k - 1)
    BY <1>1
  <2>2. a \notin InstrDef(body[c][k]) /\ b \notin InstrDef(body[c][k])
    <3>1. {a, b} \subseteq LiveAfter(body)[c][k]
      BY <2>1, LiveAfterAt
    <3>. QED
      BY <2>1, <3>1 DEF Joined
  <2>3. LiveOutOf(body, c) \in SUBSET Vreg
    BY LiveIntoEquation
  <2>4. LiveAfterIn(body[c], LiveOutOf(body, c), k - 1) =
          (LiveAfterIn(body[c], LiveOutOf(body, c), k) \ InstrDef(body[c][k]))
            \cup InstrUses(body[c][k])
    BY <1>1, <2>1, <2>3, AfterOneUp
  <2>5. k - 1 \in S
    BY <2>1, <2>2, <2>4
  <2>. QED
    BY <1>3, <2>1, <2>5
<1>. QED
  BY <1>4, AfterNone

\* Two registers that are live at one point are joined at a definition, unless
\* neither is ever written.
LEMMA LiveTogetherJoined ==
  ASSUME NEW body \in Body, NEW a \in Vreg, NEW b \in Vreg, Anchored(body, a),
         NEW c \in Block, NEW n \in 1 .. Len(body[c]),
         {a, b} \subseteq LiveAfter(body)[c][n]
  PROVE  Joined(body, a, b) \/ Joined(body, b, a)
<1>. SUFFICES ASSUME ~Joined(body, a, b), ~Joined(body, b, a) PROVE FALSE
  OBVIOUS
<1>. DEFINE S == {d \in Block : {a, b} \subseteq LiveInto(body, d)}
<1>1. \A d \in Block : Len(body[d]) \in Nat /\ body[d] \in Seq(Instr)
  BY DEF Body
<1>2. c \in S
  BY <1>1, LiveAfterAt, BackThroughBlock
<1>3. S \in SUBSET {d \in Block : a \in LiveInto(body, d)}
  OBVIOUS
<1>4. PICK d \in S : ~(Preds(body, d) \subseteq S)
  <2>. HIDE DEF S
  <2>. QED
    BY <1>2, <1>3 DEF Anchored
<1>5. PICK p \in Preds(body, d) : p \notin S
  BY <1>4
<1>6. p \in Block /\ d \in SuccSet(body[p])
  BY DEF Preds
<1>7. {a, b} \subseteq LiveOutOf(body, p)
  BY <1>6 DEF LiveOutOf
<1>8. LiveAfterIn(body[p], LiveOutOf(body, p), Len(body[p])) = LiveOutOf(body, p)
  BY <1>1, <1>6, AfterLast, LiveIntoEquation
<1>9. {a, b} \subseteq LiveInto(body, p)
  BY <1>1, <1>6, <1>7, <1>8, BackThroughBlock
<1>. QED
  BY <1>5, <1>6, <1>9

\* What ifg_build and the first pass of precolor_build leave behind stays, and is
\* what the code says.
GraphBuilt ==
  /\ \E f \in Functions : code = f.code /\ nv = f.nv /\ np = f.np
  /\ phase # "liveness" => after = LiveAfter(code)
  /\ phase \notin {"liveness", "graph"} =>
       \A a, b \in Node : b \in adj[a] <=> a # b /\ (DefinesBeside(a, b) \/ DefinesBeside(b, a))

\* The calls behind the cursor of the first pass, and what is live across them.
Passed == {v \in Vreg : \E b \in Block : \E k \in 1 .. Len(code[b]) :
             Earlier(b, k, blk, ins) /\ CallAt(code, b, k) /\ v \in Across(code, b, k)}

CallsScanned ==
  /\ phase = "scout" => ins > 0 /\ callLive = Passed
  /\ phase \in {"paint", "simplify", "select", "coloured"} =>
       callLive = {v \in Node : AcrossSomeCall(v)}

LEMMA SameBeside ==
  ASSUME code' = code, after' = after
  PROVE  \A a, b : DefinesBeside(a, b)' <=> DefinesBeside(a, b)
BY DEF DefinesBeside

\* Every step but two leaves the graph and the live sets alone.
LEMMA GraphKept ==
  ASSUME GraphBuilt, UNCHANGED <<funcVars, after, adj>>,
         phase' # "liveness", phase' # "graph",
         phase # "liveness", phase # "graph"
  PROVE  GraphBuilt'
<1>1. Node' = Node /\ code' = code /\ nv' = nv /\ np' = np /\ after' = after /\ adj' = adj
  BY DEF funcVars, Node
<1>. QED
  BY <1>1, SameBeside DEF GraphBuilt

LEMMA GraphBuiltStep == TypeOK /\ GraphBuilt /\ [Allocate]_avars => GraphBuilt'
<1>. SUFFICES ASSUME TypeOK, GraphBuilt, [Allocate]_avars PROVE GraphBuilt'
  OBVIOUS
<1>1. CASE Analyse
  BY <1>1 DEF Analyse, GraphBuilt, funcVars
<1>2. CASE BuildGraph
  <2>1. /\ Node' = Node /\ code' = code /\ nv' = nv /\ np' = np /\ after' = after
        /\ phase = "graph" /\ phase' = "scout"
        /\ adj' = [v \in Vreg |->
             {x \in Node \ {v} : v \in Node /\ (DefinesBeside(v, x) \/ DefinesBeside(x, v))}]
    BY <1>2 DEF BuildGraph, funcVars, Node
  <2>2. Node \subseteq Vreg
    BY DEF Node
  <2>3. \A a, b \in Node : b \in adj'[a] <=> a # b /\ (DefinesBeside(a, b) \/ DefinesBeside(b, a))
    BY <2>1, <2>2
  <2>. QED
    BY <2>1, <2>3, SameBeside DEF GraphBuilt
<1>3. CASE Precolour \/ ColourNodes
  <2>1. UNCHANGED <<funcVars, after, adj>>
    BY <1>3 DEF Precolour, NextBlock, Scout, ScoutDone, PaintInstr, PaintArg, PaintCallDone,
                PaintDone, ColourNodes, PushLow, PushHigh, Push, SimplifyDone, Select, SelectDone
  <2>2. /\ phase \in {"scout", "paint", "simplify", "select"}
        /\ phase' \in {"scout", "paint", "simplify", "select", "coloured"}
    BY <1>3 DEF Precolour, NextBlock, Scout, ScoutDone, PaintInstr, PaintArg, PaintCallDone,
                PaintDone, ColourNodes, PushLow, PushHigh, Push, SimplifyDone, Select, SelectDone, At
  <2>. QED
    BY <2>1, <2>2, GraphKept
<1>4. CASE UNCHANGED avars
  <2>1. UNCHANGED <<funcVars, after, adj, phase>>
    BY <1>4 DEF avars
  <2>2. Node' = Node /\ code' = code /\ nv' = nv /\ np' = np
    BY <2>1 DEF funcVars, Node
  <2>. QED
    BY <2>1, <2>2, SameBeside DEF GraphBuilt
<1>. QED
  BY <1>1, <1>2, <1>3, <1>4 DEF Allocate, Graph

\* Whatever is live is a node of the graph.
LEMMA LiveAreNodes ==
  ASSUME TypeOK, GraphBuilt
  PROVE  \A b \in Block : \A k \in 1 .. Len(code[b]) : LiveAfter(code)[b][k] \subseteq Node
<1>1. PICK f \in Functions : code = f.code /\ nv = f.nv /\ np = f.np
  BY DEF GraphBuilt
<1>2. code \in Body /\ Node \in SUBSET Vreg
  BY DEF TypeOK, Node
<1>3. \A b \in Block : \A k \in 1 .. Len(code[b]) : InstrUses(code[b][k]) \subseteq Node
  <2>. SUFFICES ASSUME NEW b \in Block, NEW k \in 1 .. Len(code[b])
                PROVE  InstrUses(code[b][k]) \subseteq Node
    OBVIOUS
  <2>1. code[b] \in Seq(Instr) /\ k \in DOMAIN code[b]
    BY <1>2 DEF Body
  <2>2. InstrUses(code[b][k]) \subseteq Vreg
    BY <2>1, OperandsAreRegisters
  <2>3. InstrUses(code[b][k]) \subseteq 0 .. nv - 1
    BY <1>1, <2>1, FunctionsAssumption
  <2>. QED
    BY <2>2, <2>3 DEF Node, TypeOK
<1>. QED
  BY <1>2, <1>3, LiveAreRead

\* In the code that was lowered, the graph is exactly interference.
LEMMA GraphIsExact ==
  ASSUME IInv, GraphBuilt, Ended PROVE GraphExact
<1>1. PICK f \in Functions : code = f.code /\ nv = f.nv /\ np = f.np
  BY DEF GraphBuilt
<1>2. code \in Body /\ after = LiveAfter(code) /\ Node \subseteq Vreg /\ np \in Nat
  BY DEF IInv, TypeOK, GraphBuilt, Ended, Node
<1>3. \A a, b \in Node : b \in adj[a] <=> a # b /\ (Joined(code, a, b) \/ Joined(code, b, a))
  BY <1>2 DEF GraphBuilt, Ended, DefinesBeside, Joined
<1>4. ASSUME NEW a \in Node, NEW b \in Node, Joined(code, a, b) \/ Joined(code, b, a)
      PROVE  LiveTogether(a, b)
  BY <1>2, <1>4 DEF LiveTogether, Joined
<1>5. ASSUME NEW a \in Node, NEW b \in Node, a \notin 0 .. np - 1, LiveTogether(a, b)
      PROVE  Joined(code, a, b) \/ Joined(code, b, a)
  <2>1. f.np <= a /\ a < f.nv /\ a \in Vreg
    BY <1>1, <1>2, <1>5, VregsAreIds DEF Node
  <2>2. Anchored(code, a)
    BY <1>1, <2>1, LoweringAssumption
  <2>3. CASE \E c \in Block : \E k \in 1 .. Len(code[c]) : {a, b} \subseteq after[c][k]
    BY <1>2, <2>2, <2>3, LiveTogetherJoined
  <2>4. CASE ~\E c \in Block : \E k \in 1 .. Len(code[c]) : {a, b} \subseteq after[c][k]
    BY <1>2, <1>5, <2>4 DEF LiveTogether, Joined
  <2>. QED
    BY <2>3, <2>4
<1>6. \A a, b \in Node : LiveTogether(a, b) <=> LiveTogether(b, a)
  BY DEF LiveTogether
<1>7. ASSUME NEW a \in Node, NEW b \in Node, ~({a, b} \subseteq 0 .. np - 1)
      PROVE  a = b \/ (b \in adj[a] <=> LiveTogether(a, b))
  BY <1>3, <1>4, <1>5, <1>6, <1>7
<1>. QED
  BY <1>3, <1>7 DEF GraphExact

-----------------------------------------------------------------------------
(***************************************************************************)
(* The scan for calls. It removes what a call returns from what earlier    *)
(* calls left, and loses nothing by that: no such register is needed       *)
(* behind an earlier call.                                                 *)
(***************************************************************************)
LEMMA ScanStarts ==
  ASSUME TypeOK, BuildGraph PROVE Passed' = {} /\ callLive' = {} /\ ins' > 0
<1>1. blk' = 0 /\ ins' = 1 /\ callLive' = {}
  BY DEF BuildGraph
<1>2. \A b \in Block : \A k \in 1 .. Len(code'[b]) : ~Earlier(b, k, 0, 1)
  BY BlocksAssumption DEF Earlier, Block
<1>. QED
  BY <1>1, <1>2 DEF Passed

\* One instruction on, one more call is behind the cursor, or none.
LEMMA PassedHere ==
  ASSUME TypeOK, Scout
  PROVE  Passed' = Passed \cup (IF Here.op = "CALL" THEN Across(code, blk, ins) ELSE {})
<1>1. /\ code' = code /\ blk' = blk /\ ins' = ins + 1 /\ blk \in Block /\ ins \in Nat
      /\ ins \in 1 .. Len(code[blk])
  BY HereIsInstr DEF Scout, At, funcVars
<1>2. \A b \in Block : \A k \in 1 .. Len(code[b]) :
        Earlier(b, k, blk, ins + 1) <=> Earlier(b, k, blk, ins) \/ (b = blk /\ k = ins)
  BY <1>1 DEF Earlier
<1>3. CallAt(code, blk, ins) <=> Here.op = "CALL"
  BY <1>1 DEF CallAt, Here
<1>4. Across(code, blk, ins) \subseteq Vreg
  <2>1. code[blk] \in Seq(Instr) /\ code \in Body
    BY <1>1 DEF TypeOK, Body
  <2>. QED
    BY <1>1, <2>1 DEF Across, LiveAfter, LiveAfterIn
<1>5. \A v : v \in Passed' <=>
        /\ v \in Vreg
        /\ \E b \in Block : \E k \in 1 .. Len(code[b]) :
             Earlier(b, k, blk, ins + 1) /\ CallAt(code, b, k) /\ v \in Across(code, b, k)
  BY <1>1 DEF Passed
<1>6. \A v : v \in Passed <=>
        /\ v \in Vreg
        /\ \E b \in Block : \E k \in 1 .. Len(code[b]) :
             Earlier(b, k, blk, ins) /\ CallAt(code, b, k) /\ v \in Across(code, b, k)
  BY DEF Passed
<1>7. \A v : v \in Passed' <=>
        v \in Passed \/ (Here.op = "CALL" /\ v \in Across(code, blk, ins))
  BY <1>1, <1>2, <1>3, <1>4, <1>5, <1>6
<1>. QED
  BY <1>7

LEMMA ScoutScans ==
  ASSUME TypeOK, GraphBuilt, CallsScanned, Scout
  PROVE  callLive' = Passed' /\ ins' > 0
<1>1. /\ phase = "scout" /\ blk \in Block /\ ins \in Nat /\ ins' = ins + 1
      /\ ins \in 1 .. Len(code[blk]) /\ callLive = Passed /\ after = LiveAfter(code)
  BY HereIsInstr DEF Scout, At, CallsScanned, GraphBuilt
<1>2. CASE Here.op # "CALL"
  <2>1. Passed' = Passed
    BY <1>2, PassedHere
  <2>. QED
    BY <1>1, <1>2, <2>1 DEF Scout
<1>3. CASE Here.op = "CALL"
  <2>1. callLive' = (Passed \cup LiveAfter(code)[blk][ins]) \ InstrDef(Here)
    BY <1>1, <1>3 DEF Scout, AcrossTo, LiveAfterHere
  <2>2. Across(code, blk, ins) = LiveAfter(code)[blk][ins] \ InstrDef(Here)
    BY DEF Across, Here
  <2>3. Passed \cap InstrDef(Here) = {}
    <3>1. ResultsFresh(code)
      BY LoweringAssumption DEF GraphBuilt
    <3>2. ins \in DOMAIN code[blk] /\ CallAt(code, blk, ins)
      BY <1>1, <1>3 DEF CallAt, Here, TypeOK, Body
    <3>. SUFFICES ASSUME NEW v \in Passed PROVE v \notin InstrDef(Here)
      OBVIOUS
    <3>3. PICK b \in Block : \E k \in 1 .. Len(code[b]) :
            Earlier(b, k, blk, ins) /\ CallAt(code, b, k) /\ v \in Across(code, b, k)
      BY DEF Passed
    <3>4. PICK k \in 1 .. Len(code[b]) :
            Earlier(b, k, blk, ins) /\ CallAt(code, b, k) /\ v \in Across(code, b, k)
      BY <3>3
    <3>5. k \in DOMAIN code[b]
      BY DEF TypeOK, Body
    <3>. QED
      BY <1>1, <3>1, <3>2, <3>4, <3>5 DEF ResultsFresh, Here
  <2>. QED
    BY <1>1, <1>3, <2>1, <2>2, <2>3, PassedHere
<1>. QED
  BY <1>2, <1>3

\* At the end of a block the cursor passes no call.
LEMMA PassedNext ==
  ASSUME TypeOK, NextBlock, ins > 0 PROVE Passed' = Passed
<1>1. /\ code' = code /\ blk' = blk + 1 /\ ins' = 1 /\ blk \in Nat /\ ins \in Nat
      /\ blk \in Block /\ Len(code[blk]) \in Nat /\ ins \notin 1 .. Len(code[blk])
  <2>1. blk \in Block
    BY BlocksAssumption DEF NextBlock, TypeOK, Block
  <2>. QED
    BY <2>1 DEF NextBlock, TypeOK, funcVars, Body, Block
<1>2. \A b \in Block : \A k \in 1 .. Len(code[b]) :
        Earlier(b, k, blk + 1, 1) <=> Earlier(b, k, blk, ins)
  <2>1. Block \subseteq Nat
    BY BlocksAssumption DEF Block
  <2>2. ins > Len(code[blk])
    BY <1>1
  <2>. QED
    BY <1>1, <2>1, <2>2 DEF Earlier
<1>. QED
  BY <1>1, <1>2 DEF Passed

\* Behind the last block lie all the calls.
LEMMA ScanEnds ==
  ASSUME TypeOK, GraphBuilt, CallsScanned, ScoutDone
  PROVE  callLive = {v \in Node : AcrossSomeCall(v)}
<1>1. phase = "scout" /\ blk = NumBlocks /\ callLive = Passed /\ after = LiveAfter(code)
  BY DEF ScoutDone, CallsScanned, GraphBuilt
<1>2. \A b \in Block : \A k \in 1 .. Len(code[b]) : Earlier(b, k, blk, ins)
  BY <1>1, BlocksAssumption DEF Earlier, Block
<1>3. \A b \in Block : \A k \in 1 .. Len(code[b]) : after[b][k] \subseteq Node
  BY <1>1, LiveAreNodes
<1>4. Node \subseteq Vreg
  BY DEF Node
<1>5. \A v : v \in Passed <=> v \in Node /\ AcrossSomeCall(v)
  BY <1>1, <1>2, <1>3, <1>4 DEF Passed, AcrossSomeCall, CallAt, Across
<1>. QED
  BY <1>1, <1>5

LEMMA ScanKept ==
  ASSUME UNCHANGED <<funcVars, after, callLive>>,
         phase \in {"paint", "simplify", "select", "coloured"}, CallsScanned,
         phase' \in {"paint", "simplify", "select", "coloured"}
  PROVE  CallsScanned'
<1>1. Node' = Node /\ code' = code /\ after' = after /\ callLive' = callLive
  BY DEF funcVars, Node
<1>2. {v \in Node : AcrossSomeCall(v)}' = {v \in Node : AcrossSomeCall(v)}
  BY <1>1 DEF AcrossSomeCall
<1>. QED
  BY <1>1, <1>2 DEF CallsScanned

LEMMA CallsScannedStep ==
  TypeOK /\ GraphBuilt /\ CallsScanned /\ [Allocate]_avars => CallsScanned'
<1>. SUFFICES ASSUME TypeOK, GraphBuilt, CallsScanned, [Allocate]_avars PROVE CallsScanned'
  OBVIOUS
<1>1. CASE Analyse
  BY <1>1 DEF Analyse, CallsScanned
<1>2. CASE BuildGraph
  <2>1. phase' = "scout"
    BY <1>2 DEF BuildGraph
  <2>. QED
    BY <1>2, <2>1, ScanStarts DEF CallsScanned
<1>3. CASE Scout
  <2>1. phase' = "scout"
    BY <1>3 DEF Scout, At
  <2>. QED
    BY <1>3, <2>1, ScoutScans DEF CallsScanned
<1>4. CASE NextBlock /\ phase = "scout"
  <2>1. phase' = "scout" /\ callLive' = callLive /\ ins' = 1
    BY <1>4 DEF NextBlock, precolor
  <2>2. ins > 0 /\ callLive = Passed
    BY <1>4 DEF CallsScanned
  <2>. QED
    BY <1>4, <2>1, <2>2, PassedNext DEF CallsScanned
<1>5. CASE ScoutDone
  <2>1. /\ phase' = "paint" /\ callLive' = callLive
        /\ Node' = Node /\ code' = code /\ after' = after
    BY <1>5 DEF ScoutDone, precolor, funcVars, Node
  <2>2. callLive = {v \in Node : AcrossSomeCall(v)}
    BY <1>5, ScanEnds
  <2>3. {v \in Node : AcrossSomeCall(v)}' = {v \in Node : AcrossSomeCall(v)}
    BY <2>1 DEF AcrossSomeCall
  <2>. QED
    BY <2>1, <2>2, <2>3 DEF CallsScanned
<1>6. CASE \/ NextBlock /\ phase # "scout"
           \/ PaintInstr \/ PaintArg \/ PaintCallDone \/ PaintDone \/ ColourNodes
  <2>1. /\ UNCHANGED <<funcVars, after, callLive>>
        /\ phase \in {"paint", "simplify", "select", "coloured"}
        /\ phase' \in {"paint", "simplify", "select", "coloured"}
    BY <1>6 DEF NextBlock, PaintInstr, PaintArg, PaintCallDone, PaintDone, ColourNodes, At,
                PushLow, PushHigh, Push, SimplifyDone, Select, SelectDone, precolor
  <2>. QED
    BY <2>1, ScanKept
<1>7. CASE UNCHANGED avars
  <2>1. UNCHANGED <<funcVars, after, callLive, phase, blk, ins>>
    BY <1>7 DEF avars, precolor, cursor
  <2>2. Passed' = Passed
    BY <2>1 DEF Passed, funcVars
  <2>3. {v \in Node : AcrossSomeCall(v)}' = {v \in Node : AcrossSomeCall(v)}
    BY <2>1 DEF AcrossSomeCall, Node, funcVars
  <2>. QED
    BY <2>1, <2>2, <2>3 DEF CallsScanned
<1>. QED
  BY <1>1, <1>2, <1>3, <1>4, <1>5, <1>6, <1>7 DEF Allocate, Graph, Precolour

\* ifg_build and the first pass of precolor_build find what the code says, for
\* every function the lowering can produce.
THEOREM InterferenceCorrect == ASpec => []InterferenceExact
<1>. DEFINE GInv == IInv /\ GraphBuilt /\ CallsScanned
<1>1. Init => GInv
  <2>1. Init => GraphBuilt /\ CallsScanned
    BY DEF Init, GraphBuilt, CallsScanned
  <2>. QED
    BY <2>1, InitInv
<1>2. GInv /\ [Allocate]_avars => GInv'
  BY StepInv, GraphBuiltStep, CallsScannedStep DEF IInv
<1>3. GInv => InterferenceExact
  BY GraphIsExact DEF CallsScanned, InterferenceExact, CallLiveExact, GraphExact, Ended
<1>. QED
  BY <1>1, <1>2, <1>3, PTL DEF ASpec

-----------------------------------------------------------------------------
(***************************************************************************)
(* No register that is live across a call is pinned: its colour is one the *)
(* callee preserves, if it has one.                                        *)
(***************************************************************************)
Crosses(v) == \E b \in Block : \E k \in 1 .. Len(code[b]) : CallAt(code, b, k) /\ v \in Across(code, b, k)

CrossersFree ==
  /\ phase \notin {"liveness", "graph"} => \A v \in Node : Crosses(v) => pin[v] = NoColour
  /\ phase \in {"select", "coloured"} =>
       \A v \in Node : Crosses(v) => colour[v] \in Cells(PrefCallee) \cup {NoColour, Spilled}
  /\ phase = "coloured" => stack = <<>>

SurvivalInv == IInv /\ GraphBuilt /\ CallsScanned /\ CrossersFree

LEMMA CrossersAre ==
  ASSUME GraphBuilt, phase # "liveness"
  PROVE  \A v : Crosses(v) <=> AcrossSomeCall(v)
BY DEF GraphBuilt, Crosses, AcrossSomeCall, CallAt, Across

LEMMA CrossersNotBound ==
  ASSUME GraphBuilt, NEW v \in Node, Crosses(v)
  PROVE  ~(v < np /\ v < Len(ArgReg)) /\ ~ReadByRet(code, v)
<1>1. PICK f \in Functions : code = f.code /\ nv = f.nv /\ np = f.np
  BY DEF GraphBuilt
<1>2. v \in Vreg
  BY DEF Node
<1>. QED
  BY <1>1, <1>2, LoweringAssumption DEF Crosses, ComesInReg

\* Once the scan is over it has all of them.
LEMMA CrossersFound ==
  ASSUME SurvivalInv, phase \in {"paint", "simplify", "select", "coloured"}, NEW v \in Node
  PROVE  Crosses(v) <=> v \in callLive
BY CrossersAre DEF SurvivalInv, CallsScanned

LEMMA CrossersKept ==
  ASSUME CrossersFree, UNCHANGED <<funcVars, pin>>, phase \notin {"liveness", "graph"},
         phase' \notin {"select", "coloured"}
  PROVE  CrossersFree'
<1>1. Node' = Node /\ code' = code /\ pin' = pin
  BY DEF funcVars, Node
<1>2. \A v \in Node : Crosses(v)' <=> Crosses(v)
  BY <1>1 DEF Crosses
<1>. QED
  BY <1>1, <1>2 DEF CrossersFree

LEMMA PaintCrossers ==
  ASSUME SurvivalInv, PaintInstr \/ PaintArg, NEW v \in Node, Crosses(v)
  PROVE  pin'[v] = NoColour
<1>1. phase = "paint" /\ At("paint")
  BY DEF PaintInstr, PaintArg, At
<1>2. v \in Vreg /\ pin[v] = NoColour /\ pin \in [Vreg -> Cells(ArgReg) \cup {NoColour}]
  BY <1>1 DEF SurvivalInv, CrossersFree, IInv, TypeOK, Node
<1>3. v \in callLive /\ ~ReadByRet(code, v)
  BY <1>1, CrossersFound, CrossersNotBound DEF SurvivalInv
<1>4. CASE PaintInstr
  <2>1. pin'[v] = IF v \in Imposed(Here) THEN ArgReg[1] ELSE pin[v]
    BY <1>2, <1>4 DEF PaintInstr
  <2>2. ASSUME Here.op = "RET" PROVE v \notin InstrUses(Here)
    <3>1. blk \in Block /\ ins \in 1 .. Len(code[blk])
      BY <1>1, HereIsInstr DEF SurvivalInv, IInv, At
    <3>. QED
      BY <1>3, <2>2, <3>1 DEF ReadByRet, Here
  <2>3. v \notin Imposed(Here)
    BY <1>3, <2>2 DEF Imposed
  <2>. QED
    BY <1>2, <2>1, <2>3
<1>5. CASE PaintArg
  <2>1. ~Pinnable(v)
    BY <1>3 DEF Pinnable
  <2>2. pin' = IF Pinnable(Here.src[arg]) THEN [pin EXCEPT ![Here.src[arg]] = ArgReg[arg]] ELSE pin
    BY <1>5 DEF PaintArg
  <2>3. CASE Pinnable(Here.src[arg])
    <3>1. v # Here.src[arg]
      BY <2>1, <2>3
    <3>. QED
      BY <1>2, <2>2, <2>3, <3>1
  <2>4. CASE ~Pinnable(Here.src[arg])
    BY <1>2, <2>2, <2>4
  <2>. QED
    BY <2>3, <2>4
<1>. QED
  BY <1>4, <1>5

LEMMA SelectCrossers ==
  ASSUME SurvivalInv, Select PROVE CrossersFree'
<1>1. /\ phase = "select" /\ phase' = "select"
      /\ Node' = Node /\ code' = code /\ pin' = pin
  BY DEF Select, funcVars, Node, precolor
<1>2. \A v \in Node : Crosses(v)' <=> Crosses(v)
  BY <1>1 DEF Crosses
<1>. DEFINE top == stack[Len(stack)]
<1>3. colour \in [Vreg -> Colour] /\ Node \subseteq Vreg
  BY DEF SurvivalInv, IInv, TypeOK, Node
<1>4. PICK c : /\ colour' = [colour EXCEPT ![top] = c]
               /\ c = Spilled \/ \E k \in DOMAIN Pref(top) : c = Pref(top)[k]
  <2>1. \/ \E k \in Free(top) : colour' = [colour EXCEPT ![top] = Pref(top)[k]]
        \/ colour' = [colour EXCEPT ![top] = Spilled]
    BY DEF Select
  <2>. QED
    BY <2>1 DEF Free
<1>. HIDE DEF top
<1>5. ASSUME NEW v \in Node, Crosses(v)
      PROVE  colour'[v] \in Cells(PrefCallee) \cup {NoColour, Spilled}
  <2>1. CASE v # top
    BY <1>1, <1>3, <1>4, <1>5, <2>1 DEF SurvivalInv, CrossersFree
  <2>2. CASE v = top
    <3>1. v \in callLive
      BY <1>1, <1>5, CrossersFound
    <3>2. colour'[v] = c
      BY <1>3, <1>4, <2>2
    <3>. QED
      BY <1>4, <2>2, <3>1, <3>2 DEF Pref, Cells
  <2>. QED
    BY <2>1, <2>2
<1>. QED
  BY <1>1, <1>2, <1>5 DEF SurvivalInv, CrossersFree

LEMMA CrossersStep == SurvivalInv /\ [Allocate]_avars => CrossersFree'
<1>. SUFFICES ASSUME SurvivalInv, [Allocate]_avars PROVE CrossersFree'
  OBVIOUS
<1>0. CrossersFree
  BY DEF SurvivalInv
<1>1. CASE Analyse
  BY <1>1 DEF Analyse, CrossersFree
<1>2. CASE BuildGraph
  <2>1. /\ Node' = Node /\ code' = code /\ phase' = "scout"
        /\ pin' = [v \in Vreg |-> ParamPin(v)]
    BY <1>2 DEF BuildGraph, funcVars, Node
  <2>2. \A v \in Node : Crosses(v)' <=> Crosses(v)
    BY <2>1 DEF Crosses
  <2>3. ASSUME NEW v \in Node, Crosses(v) PROVE pin'[v] = NoColour
    <3>1. v \in Vreg /\ ~(v < np /\ v < Len(ArgReg))
      BY <2>3, CrossersNotBound DEF SurvivalInv, Node
    <3>. QED
      BY <2>1, <3>1 DEF ParamPin
  <2>. QED
    BY <2>1, <2>2, <2>3 DEF CrossersFree
<1>3. CASE PaintInstr \/ PaintArg
  <2>1. Node' = Node /\ code' = code /\ phase' = "paint"
    BY <1>3 DEF PaintInstr, PaintArg, At, funcVars, Node
  <2>2. \A v \in Node : Crosses(v)' <=> Crosses(v)
    BY <2>1 DEF Crosses
  <2>. QED
    BY <1>3, <2>1, <2>2, PaintCrossers DEF CrossersFree
<1>4. CASE NextBlock \/ Scout \/ ScoutDone \/ PaintCallDone \/ PaintDone \/ PushLow \/ PushHigh
  <2>1. /\ UNCHANGED <<funcVars, pin>> /\ phase \notin {"liveness", "graph"}
        /\ phase' \notin {"select", "coloured"}
    BY <1>4 DEF NextBlock, Scout, ScoutDone, PaintCallDone, PaintDone, At, PushLow, PushHigh,
                Push, precolor
  <2>. QED
    BY <1>0, <2>1, CrossersKept
<1>5. CASE SimplifyDone
  <2>1. /\ phase = "simplify" /\ phase' = "select" /\ Node' = Node /\ code' = code
        /\ pin' = pin /\ colour' = colour /\ colour = pin
    BY <1>5 DEF SimplifyDone, funcVars, precolor, result, Node, SurvivalInv, IInv, SimplifyInv
  <2>2. \A v \in Node : Crosses(v)' <=> Crosses(v)
    BY <2>1 DEF Crosses
  <2>. QED
    BY <1>0, <2>1, <2>2 DEF CrossersFree
<1>6. CASE Select
  BY <1>6, SelectCrossers
<1>7. CASE SelectDone \/ UNCHANGED avars
  <2>1. /\ Node' = Node /\ code' = code /\ pin' = pin /\ colour' = colour /\ stack' = stack
        /\ \/ phase = "select" /\ phase' = "coloured" /\ stack = <<>>
           \/ phase' = phase
    BY <1>7 DEF SelectDone, avars, funcVars, precolor, simplify, result, Node
  <2>2. \A v \in Node : Crosses(v)' <=> Crosses(v)
    BY <2>1 DEF Crosses
  <2>. QED
    BY <1>0, <2>1, <2>2 DEF CrossersFree
<1>. QED
  BY <1>1, <1>2, <1>3, <1>4, <1>5, <1>6, <1>7 DEF Allocate, Graph, Precolour, ColourNodes

\* No value that must survive a call is left where the callee may overwrite it.
THEOREM CallsSurvived == ASpec => []SurvivesCalls
<1>1. Init => SurvivalInv
  <2>1. Init => GraphBuilt /\ CallsScanned /\ CrossersFree
    BY DEF Init, GraphBuilt, CallsScanned, CrossersFree
  <2>. QED
    BY <2>1, InitInv DEF SurvivalInv
<1>2. SurvivalInv /\ [Allocate]_avars => SurvivalInv'
  BY StepInv, GraphBuiltStep, CallsScannedStep, CrossersStep DEF IInv, SurvivalInv
<1>3. SurvivalInv => SurvivesCalls
  <2>. SUFFICES ASSUME SurvivalInv, Ended, NEW v \in Node, AcrossSomeCall(v)
                PROVE  colour[v] \in Cells(PrefCallee) \cup {Spilled}
    BY DEF SurvivesCalls
  <2>1. Crosses(v) /\ phase = "coloured"
    BY CrossersAre DEF SurvivalInv, Ended
  <2>2. colour[v] # NoColour
    BY <2>1 DEF SurvivalInv, CrossersFree, IInv, StackFaithful, Pending, Cells
  <2>. QED
    BY <2>1, <2>2 DEF SurvivalInv, CrossersFree
<1>. QED
  BY <1>1, <1>2, <1>3, PTL DEF ASpec

-----------------------------------------------------------------------------
(***************************************************************************)
(* The pins. A register is pinned to the result register by a RET or a     *)
(* call, or to the one it comes in or goes out in; two that interfere are  *)
(* pinned to the same only if one is the result of a call.                 *)
(***************************************************************************)
PassedOn(v) ==
  \E s \in CallSites(code) : \E j \in DOMAIN code[s[1]][s[2]].src \cap DOMAIN ArgReg :
    code[s[1]][s[2]].src[j] = v /\ pin[v] = ArgReg[j]

Cause(v) ==
  \/ v < np /\ v < Len(ArgReg) /\ pin[v] = ArgReg[v + 1]
  \/ ReadByRet(code, v)
  \/ CallResult(v) /\ pin[v] = ArgReg[1]
  \/ PassedOn(v) /\ v \notin callLive

Clash(a, b) == b \in adj[a] /\ pin[a] = pin[b] /\ pin[a] # NoColour

Painted == {"paint", "simplify", "select", "coloured"}

PinsInv ==
  /\ phase = "scout" => pin = [v \in Vreg |-> ParamPin(v)]
  /\ phase = "paint" /\ arg > 0 => ins \in 1 .. Len(code[blk]) /\ Here.op = "CALL"
  /\ phase \in Painted =>
       /\ \A v \in Node : pin[v] # NoColour => Cause(v)
       /\ \A a, b \in Node :
            Clash(a, b) => pin[a] = ArgReg[1] /\ (CallResult(a) \/ CallResult(b))

FullInv == SurvivalInv /\ PinsInv

\* The lowering's promise for two registers that interfere.
LEMMA InTurnOf ==
  ASSUME IInv, GraphBuilt, phase \notin {"liveness", "graph"},
         NEW f \in Functions, code = f.code, nv = f.nv, np = f.np,
         NEW a \in Node \cap Bound(f), NEW b \in Node \cap Bound(f), b \in adj[a]
  PROVE  InTurn(f, a, b)
<1>1. a # b /\ (DefinesBeside(a, b) \/ DefinesBeside(b, a)) /\ after = LiveAfter(code)
  BY DEF GraphBuilt
<1>2. HandedInTurn(f)
  BY LoweringAssumption
<1>. QED
  BY <1>1, <1>2 DEF DefinesBeside, HandedInTurn

LEMMA CausesBound ==
  ASSUME NEW f \in Functions, code = f.code, np = f.np, NEW v \in Node,
         Cause(v), ~(CallResult(v) /\ pin[v] = ArgReg[1]), NoVreg \notin Vreg
  PROVE  v \in Bound(f)
<1>1. v \in Vreg
  BY DEF Node
<1>2. CASE PassedOn(v)
  <2>1. PICK s \in CallSites(code) : \E j \in DOMAIN code[s[1]][s[2]].src \cap DOMAIN ArgReg :
          code[s[1]][s[2]].src[j] = v
    BY <1>2 DEF PassedOn
  <2>2. v \in Handed(code, s[1], s[2])
    BY <1>1, <2>1 DEF Handed
  <2>3. \E b \in Block : \E k \in 1 .. Len(code[b]) : s = <<b, k>> /\ CallAt(code, b, k)
    BY <2>1 DEF CallSites
  <2>4. Argument(code, v)
    BY <2>2, <2>3 DEF Argument
  <2>. QED
    BY <1>1, <2>4 DEF Bound
<1>. QED
  BY <1>1, <1>2 DEF Cause, Bound, ComesInReg

\* The call at the cursor.
LEMMA CallHere ==
  ASSUME TypeOK, At("paint"), Here.op = "CALL"
  PROVE  <<blk, ins>> \in CallSites(code) /\ CallAt(code, blk, ins)
<1>1. blk \in Block /\ ins \in 1 .. Len(code[blk])
  BY HereIsInstr DEF At
<1>2. CallAt(code, blk, ins)
  BY <1>1 DEF CallAt, Here
<1>. QED
  BY <1>1, <1>2 DEF CallSites

\* A register that is pinned where it is passed clashes with no other, unless
\* that one is the result of a call.
LEMMA PinnedArgument ==
  ASSUME FullInv, PaintArg, Pinnable(Here.src[arg]),
         NEW o \in Node, o # Here.src[arg], o \in adj[Here.src[arg]], Here.src[arg] \in Node,
         pin[o] = ArgReg[arg]
  PROVE  CallResult(o) /\ pin[o] = ArgReg[1]
<1>. DEFINE v == Here.src[arg]
<1>1. IInv /\ GraphBuilt /\ phase = "paint" /\ At("paint") /\ TypeOK
  BY DEF FullInv, SurvivalInv, PaintArg, At, IInv
<1>2. PICK f \in Functions : code = f.code /\ nv = f.nv /\ np = f.np
  BY <1>1 DEF GraphBuilt
<1>3. Here.op = "CALL" /\ arg \in DOMAIN Here.src \cap DOMAIN ArgReg
  BY <1>1 DEF FullInv, PinsInv, PaintArg
<1>4. <<blk, ins>> \in CallSites(code) /\ CallAt(code, blk, ins)
  BY <1>1, <1>3, CallHere
<1>5. v \in Handed(code, blk, ins) /\ Here = code[blk][ins]
  BY <1>3 DEF Handed, Here, Pinnable
<1>6. blk \in Block /\ ins \in 1 .. Len(code[blk])
  BY <1>1, HereIsInstr DEF At
<1>7. v \in Bound(f) /\ Argument(code, v)
  BY <1>2, <1>4, <1>5, <1>6 DEF Argument, Bound, Node
<1>8. Cause(o)
  <2>1. pin[o] # NoColour
    BY <1>3, Registers
  <2>. QED
    BY <1>1, <2>1 DEF FullInv, PinsInv, Painted
<1>. SUFFICES ASSUME ~(CallResult(o) /\ pin[o] = ArgReg[1]) PROVE FALSE
  OBVIOUS
<1>9. o \in Bound(f)
  BY <1>2, <1>8, CausesBound, VregAssumption
<1>10. o \in adj[v] /\ v \in adj[o] /\ v \in Node
  BY <1>1 DEF IInv, GraphInv, Node
<1>. HIDE DEF v
<1>11. InTurn(f, o, v) /\ InTurn(f, v, o)
  BY <1>1, <1>2, <1>7, <1>9, <1>10, InTurnOf
<1>12. CASE ReadByRet(code, o) \/ (o < np /\ o < Len(ArgReg))
  BY <1>2, <1>7, <1>11, <1>12 DEF InTurn, ComesInReg
<1>13. CASE PassedOn(o) /\ o \notin callLive
  <2>1. PICK t \in CallSites(code) : \E j \in DOMAIN code[t[1]][t[2]].src \cap DOMAIN ArgReg :
          code[t[1]][t[2]].src[j] = o
    BY <1>13 DEF PassedOn
  <2>2a. PICK b \in Block : \E k \in 1 .. Len(code[b]) : t = <<b, k>> /\ CallAt(code, b, k)
    BY <2>1 DEF CallSites
  <2>2. PICK k \in 1 .. Len(code[b]) : t = <<b, k>> /\ CallAt(code, b, k)
    BY <2>2a
  <2>3. o # NoVreg /\ o \in Vreg
    BY VregAssumption DEF Node
  <2>4. o \in Handed(code, b, k)
    BY <2>1, <2>2, <2>3 DEF Handed
  <2>5. CASE t = <<blk, ins>>
    <3>1. o \in InstrUses(Here)
      <4>1. Here.src \in Seq(Operand)
        BY <1>1, HereIsInstr DEF Instr
      <4>. QED
        BY <1>3, <1>5, <2>1, <2>3, <2>5, <4>1 DEF InstrUses
    <3>2. Conflict(v, ArgReg[arg])
      BY <3>1, <1>1, <1>10 DEF Conflict, IInv, GraphInv, Node, v
    <3>. QED
      BY <3>2 DEF Pinnable, v
  <2>6. CASE t # <<blk, ins>>
    <3>1. o \in Across(code, blk, ins) \/ v \in Across(code, b, k)
      BY <1>2, <1>4, <1>5, <1>11, <2>1, <2>2, <2>4, <2>6 DEF InTurn
    <3>2. Crosses(o) \/ Crosses(v)
      BY <1>4, <1>6, <2>2, <3>1 DEF Crosses
    <3>3. o \in callLive \/ v \in callLive
      BY <1>1, <1>10, <3>2, CrossersFound DEF FullInv
    <3>. QED
      BY <1>13, <3>3 DEF Pinnable, v
  <2>. QED
    BY <2>5, <2>6
<1>. QED
  BY <1>8, <1>12, <1>13 DEF Cause

\* What a RET reads clashes with nothing but the results of calls.
LEMMA PinnedReturn ==
  ASSUME FullInv, phase \in Painted, NEW v \in Node, NEW o \in Node, o \in adj[v],
         ReadByRet(code, v), Cause(o)
  PROVE  CallResult(o) /\ pin[o] = ArgReg[1]
<1>1. IInv /\ GraphBuilt /\ phase \notin {"liveness", "graph"}
  BY DEF FullInv, SurvivalInv, Painted
<1>2. PICK f \in Functions : code = f.code /\ nv = f.nv /\ np = f.np
  BY <1>1 DEF GraphBuilt
<1>3. v \in Bound(f)
  BY <1>2 DEF Bound, Node
<1>. SUFFICES ASSUME ~(CallResult(o) /\ pin[o] = ArgReg[1]) PROVE FALSE
  OBVIOUS
<1>4. o \in Bound(f)
  BY <1>2, CausesBound, VregAssumption
<1>5. InTurn(f, v, o)
  BY <1>1, <1>2, <1>3, <1>4, InTurnOf
<1>. QED
  BY <1>2, <1>4, <1>5 DEF InTurn

\* While the function, the graph and the pins stay, so do causes and clashes.
LEMMA PinsSame ==
  ASSUME UNCHANGED <<funcVars, adj, callLive, pin>>
  PROVE  /\ Node' = Node /\ code' = code
         /\ \A v \in Node : Cause(v)' <=> Cause(v)
         /\ \A v : CallResult(v)' <=> CallResult(v)
         /\ \A a, b \in Node : Clash(a, b)' <=> Clash(a, b)
<1>1. /\ Node' = Node /\ code' = code /\ nv' = nv /\ np' = np
      /\ adj' = adj /\ callLive' = callLive /\ pin' = pin
  BY DEF funcVars, Node
<1>2. \A v : PassedOn(v)' <=> PassedOn(v)
  BY <1>1 DEF PassedOn
<1>3. \A v : CallResult(v)' <=> CallResult(v)
  BY <1>1 DEF CallResult
<1>. QED
  BY <1>1, <1>2, <1>3 DEF Cause, Clash

LEMMA PinsKept ==
  ASSUME PinsInv, UNCHANGED <<funcVars, adj, callLive, pin>>, phase \in Painted,
         phase' \in Painted,
         phase' = "paint" /\ arg' > 0 => ins' \in 1 .. Len(code[blk']) /\ code[blk'][ins'].op = "CALL"
  PROVE  PinsInv'
<1>1. /\ Node' = Node /\ code' = code /\ pin' = pin /\ phase' # "scout"
      /\ \A v \in Node : Cause(v)' <=> Cause(v)
      /\ \A v : CallResult(v)' <=> CallResult(v)
      /\ \A a, b \in Node : Clash(a, b)' <=> Clash(a, b)
  BY PinsSame DEF Painted
<1>2. /\ \A v \in Node : pin[v] # NoColour => Cause(v)
      /\ \A a, b \in Node :
           Clash(a, b) => pin[a] = ArgReg[1] /\ (CallResult(a) \/ CallResult(b))
  BY DEF PinsInv
<1>3. phase' = "paint" /\ arg' > 0 => ins' \in 1 .. Len(code'[blk']) /\ Here'.op = "CALL"
  BY <1>1 DEF Here
<1>. QED
  BY <1>1, <1>2, <1>3 DEF PinsInv

\* The parameters that come in registers come in different ones.
LEMMA PinsStart ==
  ASSUME FullInv, ScoutDone PROVE PinsInv'
<1>1. /\ phase = "scout" /\ phase' = "paint" /\ arg' = 0 /\ Node' = Node /\ code' = code
      /\ np' = np /\ adj' = adj /\ callLive' = callLive /\ pin' = pin
      /\ pin = [v \in Vreg |-> ParamPin(v)] /\ IInv
  BY DEF ScoutDone, FullInv, PinsInv, SurvivalInv, funcVars, precolor, Node
<1>2. ASSUME NEW v \in Node, pin[v] # NoColour
      PROVE  v < np /\ v < Len(ArgReg) /\ pin[v] = ArgReg[v + 1] /\ v \in Nat
  BY <1>1, <1>2, VregsAreIds DEF ParamPin, Node
<1>3. ASSUME NEW a \in Node, NEW b \in Node, Clash(a, b) PROVE FALSE
  <2>1. /\ a \in Nat /\ a < Len(ArgReg) /\ pin[a] = ArgReg[a + 1]
        /\ b \in Nat /\ b < Len(ArgReg) /\ pin[b] = ArgReg[b + 1] /\ pin[a] = pin[b]
    BY <1>2, <1>3 DEF Clash
  <2>2. a + 1 \in DOMAIN ArgReg /\ b + 1 \in DOMAIN ArgReg
    BY <2>1, RegisterFile
  <2>3. a + 1 = b + 1
    BY <2>1, <2>2, RegisterFile
  <2>4. a # b
    BY <1>1, <1>3 DEF Clash, IInv, GraphInv, Node
  <2>. QED
    BY <2>1, <2>3, <2>4
<1>4. \A v \in Node : pin'[v] # NoColour => Cause(v)'
  BY <1>1, <1>2 DEF Cause
<1>5. \A a, b \in Node : Clash(a, b)' <=> Clash(a, b)
  BY <1>1 DEF Clash
<1>. QED
  BY <1>1, <1>3, <1>4, <1>5 DEF PinsInv

LEMMA PaintArgPins ==
  ASSUME FullInv, PaintArg PROVE PinsInv'
<1>. DEFINE v == Here.src[arg]
<1>1. /\ IInv /\ phase = "paint" /\ phase' = "paint" /\ Node' = Node /\ code' = code /\ np' = np
      /\ adj' = adj /\ callLive' = callLive /\ blk' = blk /\ ins' = ins /\ At("paint")
      /\ pin \in [Vreg -> Cells(ArgReg) \cup {NoColour}] /\ Node \subseteq Vreg
      /\ pin' = IF Pinnable(v) THEN [pin EXCEPT ![v] = ArgReg[arg]] ELSE pin
  BY DEF FullInv, SurvivalInv, IInv, TypeOK, PaintArg, At, funcVars, Node
<1>2. /\ Here.op = "CALL" /\ arg > 0 /\ arg \in DOMAIN Here.src \cap DOMAIN ArgReg
      /\ ins \in 1 .. Len(code[blk])
  BY <1>1 DEF FullInv, PinsInv, PaintArg
<1>3. Here' = Here /\ phase' # "scout"
  BY <1>1 DEF Here
<1>4. CASE ~Pinnable(v)
  <2>1. pin' = pin
    BY <1>1, <1>4
  <2>2. UNCHANGED <<funcVars, adj, callLive, pin>>
    BY <1>1, <2>1 DEF PaintArg
  <2>. QED
    BY <1>1, <1>2, <2>2, PinsKept DEF FullInv, Painted, Here
<1>5. CASE Pinnable(v)
  <2>1. /\ v \notin callLive /\ pin[v] = NoColour /\ v # NoVreg /\ v \in Vreg
        /\ \A o \in Vreg : pin'[o] = IF o = v THEN ArgReg[arg] ELSE pin[o]
    <3>1. v \in InstrUses(Here)
      <4>1. Here.src \in Seq(Operand)
        BY <1>1, HereIsInstr DEF IInv, Instr
      <4>. QED
        BY <1>2, <1>5, <4>1 DEF InstrUses, Pinnable
    <3>2. v \in Vreg
      BY <1>1, <3>1, HereIsInstr DEF IInv
    <3>. QED
      BY <1>1, <1>5, <3>2 DEF Pinnable
  <2>2. ASSUME NEW o \in Node, pin'[o] # NoColour PROVE Cause(o)'
    <3>1. CASE o # v
      <4>1. pin'[o] = pin[o] /\ Cause(o)
        BY <1>1, <2>1, <2>2, <3>1 DEF FullInv, PinsInv, Painted
      <4>2. PassedOn(o)' <=> PassedOn(o)
        BY <1>1, <4>1 DEF PassedOn
      <4>3. CallResult(o)' <=> CallResult(o)
        BY <1>1 DEF CallResult
      <4>. QED
        BY <1>1, <4>1, <4>2, <4>3 DEF Cause
    <3>2. CASE o = v
      <4>1. <<blk, ins>> \in CallSites(code)
        BY <1>1, <1>2, CallHere DEF IInv
      <4>2. /\ pin'[o] = ArgReg[arg] /\ o \notin callLive
            /\ code[blk][ins].src[arg] = o /\ arg \in DOMAIN code[blk][ins].src \cap DOMAIN ArgReg
        BY <1>1, <1>2, <2>1, <3>2 DEF Here
      <4>3. PassedOn(o)'
        BY <1>1, <4>1, <4>2 DEF PassedOn
      <4>. QED
        BY <1>1, <4>2, <4>3 DEF Cause
    <3>. QED
      BY <3>1, <3>2
  <2>3. \A x : CallResult(x)' <=> CallResult(x)
    BY <1>1 DEF CallResult
  <2>4. ASSUME NEW a \in Node, NEW b \in Node, Clash(a, b)'
        PROVE  pin'[a] = ArgReg[1] /\ (CallResult(a) \/ CallResult(b))
    <3>1. b \in adj[a] /\ a \in adj[b] /\ a # b /\ pin'[a] = pin'[b] /\ pin'[a] # NoColour
      BY <1>1, <2>4 DEF Clash, IInv, GraphInv
    <3>2. CASE a # v /\ b # v
      BY <1>1, <2>1, <3>1, <3>2 DEF FullInv, PinsInv, Painted, Clash
    <3>3. CASE a = v
      <4>1. pin[b] = ArgReg[arg] /\ b # v /\ pin'[b] = pin[b]
        BY <1>1, <2>1, <3>1, <3>3
      <4>. QED
        BY <1>5, <3>1, <3>3, <4>1, PinnedArgument
    <3>4. CASE b = v
      <4>1. pin[a] = ArgReg[arg] /\ a # v /\ pin'[a] = pin[a]
        BY <1>1, <2>1, <3>1, <3>4
      <4>. QED
        BY <1>5, <3>1, <3>4, <4>1, PinnedArgument
    <3>. QED
      BY <3>2, <3>3, <3>4
  <2>. QED
    BY <1>1, <1>2, <1>3, <2>2, <2>3, <2>4 DEF PinsInv
<1>. QED
  BY <1>4, <1>5

LEMMA PaintInstrPins ==
  ASSUME FullInv, PaintInstr PROVE PinsInv'
<1>1. /\ IInv /\ phase = "paint" /\ phase' = "paint" /\ Node' = Node /\ code' = code /\ np' = np
      /\ adj' = adj /\ callLive' = callLive /\ blk' = blk /\ At("paint")
      /\ pin \in [Vreg -> Cells(ArgReg) \cup {NoColour}] /\ Node \subseteq Vreg
      /\ blk \in Block /\ ins \in 1 .. Len(code[blk])
  BY HereIsInstr DEF FullInv, SurvivalInv, IInv, TypeOK, PaintInstr, At, funcVars, Node
<1>2. \A o \in Vreg : pin'[o] = IF o \in Imposed(Here) THEN ArgReg[1] ELSE pin[o]
  BY DEF PaintInstr
<1>3. \A x : CallResult(x)' <=> CallResult(x)
  BY <1>1 DEF CallResult
<1>4. ASSUME NEW v \in Imposed(Here) PROVE ReadByRet(code, v) \/ CallResult(v)
  <2>1. CASE Here.op = "RET"
    BY <1>1, <1>4, <2>1 DEF Imposed, ReadByRet, Here
  <2>2. CASE Here.op # "RET"
    BY <1>1, <1>4, <2>2 DEF Imposed, CallResult, Here
  <2>. QED
    BY <2>1, <2>2
<1>5. ASSUME NEW o \in Node, o \notin Imposed(Here), pin'[o] # NoColour PROVE Cause(o) /\ Cause(o)'
  <2>1. pin'[o] = pin[o] /\ Cause(o)
    BY <1>1, <1>2, <1>5 DEF FullInv, PinsInv, Painted
  <2>2. PassedOn(o)' <=> PassedOn(o)
    BY <1>1, <2>1 DEF PassedOn
  <2>. QED
    BY <1>1, <1>3, <2>1, <2>2 DEF Cause
<1>6. ASSUME NEW o \in Node, o \in Imposed(Here) PROVE Cause(o)'
  BY <1>1, <1>2, <1>3, <1>4, <1>6 DEF Cause
<1>7. ASSUME NEW a \in Node, NEW b \in Node, b \in adj[a], pin'[a] = pin'[b],
             pin'[a] # NoColour, a \in Imposed(Here)
      PROVE  pin'[a] = ArgReg[1] /\ (CallResult(a) \/ CallResult(b))
  <2>1. pin'[a] = ArgReg[1]
    BY <1>1, <1>2, <1>7
  <2>2. CASE ~CallResult(a)
    <3>1. ReadByRet(code, a)
      BY <1>4, <1>7, <2>2
    <3>2. CASE b \in Imposed(Here)
      <4>1. ReadByRet(code, b) \/ CallResult(b)
        BY <1>4, <3>2
      <4>2. ReadByRet(code, b) => CallResult(b)
        BY <1>1, <1>7, <3>1, PinnedReturn DEF Cause, Painted
      <4>. QED
        BY <2>1, <4>1, <4>2
    <3>3. CASE b \notin Imposed(Here)
      <4>1. Cause(b)
        BY <1>5, <1>7, <3>3
      <4>. QED
        BY <1>1, <1>7, <2>1, <3>1, <4>1, PinnedReturn DEF Painted
    <3>. QED
      BY <3>2, <3>3
  <2>. QED
    BY <2>1, <2>2
<1>8. ASSUME NEW a \in Node, NEW b \in Node, Clash(a, b)'
      PROVE  pin'[a] = ArgReg[1] /\ (CallResult(a) \/ CallResult(b))
  <2>1. b \in adj[a] /\ a \in adj[b] /\ pin'[a] = pin'[b] /\ pin'[a] # NoColour
    BY <1>1, <1>8 DEF Clash, IInv, GraphInv
  <2>2. CASE a \in Imposed(Here)
    BY <1>7, <2>1, <2>2
  <2>3. CASE b \in Imposed(Here)
    BY <1>7, <2>1, <2>3
  <2>4. CASE a \notin Imposed(Here) /\ b \notin Imposed(Here)
    BY <1>1, <1>2, <2>1, <2>4 DEF FullInv, PinsInv, Painted, Clash
  <2>. QED
    BY <2>2, <2>3, <2>4
<1>9. arg' > 0 => ins' \in 1 .. Len(code[blk]) /\ code[blk][ins'].op = "CALL"
  BY <1>1 DEF PaintInstr, Here
<1>. QED
  BY <1>1, <1>3, <1>5, <1>6, <1>8, <1>9 DEF PinsInv, Here

LEMMA PinsInvStep == FullInv /\ [Allocate]_avars => PinsInv'
<1>. SUFFICES ASSUME FullInv, [Allocate]_avars PROVE PinsInv'
  OBVIOUS
<1>0. PinsInv /\ IInv
  BY DEF FullInv, SurvivalInv
<1>1. CASE Analyse
  BY <1>1 DEF Analyse, PinsInv, Painted
<1>2. CASE BuildGraph
  <2>1. phase' = "scout" /\ np' = np /\ pin' = [v \in Vreg |-> ParamPin(v)]
    BY <1>2 DEF BuildGraph, funcVars
  <2>. QED
    BY <2>1 DEF PinsInv, Painted, ParamPin
<1>3. CASE Scout \/ (NextBlock /\ phase = "scout")
  <2>1. phase = "scout" /\ phase' = "scout" /\ pin' = pin /\ np' = np
    BY <1>3 DEF Scout, NextBlock, At, funcVars, precolor
  <2>. QED
    BY <1>0, <2>1 DEF PinsInv, Painted, ParamPin
<1>4. CASE ScoutDone
  BY <1>4, PinsStart
<1>5. CASE PaintInstr
  BY <1>5, PaintInstrPins
<1>6. CASE PaintArg
  BY <1>6, PaintArgPins
<1>7. CASE \/ (NextBlock /\ phase # "scout") \/ PaintCallDone \/ PaintDone
           \/ ColourNodes \/ UNCHANGED avars
  <2>1. UNCHANGED <<funcVars, adj, callLive, pin>>
    BY <1>7 DEF NextBlock, PaintCallDone, PaintDone, ColourNodes, PushLow, PushHigh, Push,
                SimplifyDone, Select, SelectDone, avars, precolor
  <2>2. CASE phase \in Painted
    <3>1. phase' \in Painted
      BY <1>7, <2>2 DEF NextBlock, PaintCallDone, PaintDone, ColourNodes, PushLow, PushHigh,
                        Push, SimplifyDone, Select, SelectDone, avars, Painted, At
    <3>2. CASE phase' = "paint" /\ arg' > 0
      <4>1. UNCHANGED avars
        <5>1. CASE NextBlock /\ phase # "scout"
          <6>1. arg' = arg /\ phase = "paint" /\ ins \notin 1 .. Len(code[blk])
            BY <3>2, <5>1 DEF NextBlock
          <6>. QED
            BY <1>0, <3>2, <6>1 DEF PinsInv
        <5>2. CASE PaintCallDone \/ PaintDone \/ ColourNodes
          BY <3>2, <5>2 DEF PaintCallDone, PaintDone, ColourNodes, PushLow, PushHigh, Push,
                            SimplifyDone, Select, SelectDone
        <5>. QED
          BY <1>7, <5>1, <5>2
      <4>2. phase = "paint" /\ arg > 0 /\ ins' = ins /\ blk' = blk
        BY <3>2, <4>1 DEF avars, cursor
      <4>3. ins' \in 1 .. Len(code[blk']) /\ code[blk'][ins'].op = "CALL"
        BY <1>0, <4>2 DEF PinsInv, Here
      <4>. QED
        BY <1>0, <2>1, <2>2, <3>1, <4>3, PinsKept
    <3>. QED
      BY <1>0, <2>1, <2>2, <3>1, <3>2, PinsKept
  <2>3. CASE phase \notin Painted
    <3>1. UNCHANGED avars
      BY <1>7, <2>3 DEF NextBlock, PaintCallDone, PaintDone, ColourNodes, PushLow, PushHigh, Push,
                        SimplifyDone, Select, SelectDone, Painted, At
    <3>2. phase' = phase /\ np' = np
      BY <3>1 DEF avars, funcVars
    <3>. QED
      BY <1>0, <2>1, <2>3, <3>2 DEF PinsInv, Painted, ParamPin
  <2>. QED
    BY <2>2, <2>3
<1>. QED
  BY <1>1, <1>2, <1>3, <1>4, <1>5, <1>6, <1>7 DEF Allocate, Graph, Precolour

\* Pinning loses no value across a call, and the only register two neighbours
\* have in common is that of a result, for every lowered function.
THEOREM PinsCorrect == ASpec => []PinsSafe
<1>1. Init => FullInv
  <2>1. Init => GraphBuilt /\ CallsScanned /\ CrossersFree /\ PinsInv
    BY DEF Init, GraphBuilt, CallsScanned, CrossersFree, PinsInv, Painted
  <2>. QED
    BY <2>1, InitInv DEF FullInv, SurvivalInv
<1>2. FullInv /\ [Allocate]_avars => FullInv'
  BY StepInv, GraphBuiltStep, CallsScannedStep, CrossersStep, PinsInvStep
     DEF IInv, SurvivalInv, FullInv
<1>3. FullInv => ClashOnlyOnResult
  <2>. SUFFICES ASSUME FullInv, Ended, NEW a \in Node, NEW b \in Node, Shares(a, b)
                PROVE  /\ {a, b} \subseteq Fixed /\ colour[a] = ArgReg[1]
                       /\ CallResult(a) \/ CallResult(b)
    BY DEF ClashOnlyOnResult
  <2>1. {a, b} \subseteq Fixed /\ colour[a] = pin[a] /\ colour[b] = pin[b]
    BY DEF FullInv, SurvivalInv, IInv, ChosenProper, SelectInv, Ended
  <2>2. Clash(a, b)
    BY <2>1 DEF Shares, Clash, Fixed
  <2>. QED
    BY <2>1, <2>2 DEF FullInv, PinsInv, Painted, Ended
<1>. QED
  BY <1>1, <1>2, <1>3, CallsSurvived, PTL DEF ASpec, PinsSafe
=============================================================================
