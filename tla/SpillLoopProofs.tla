-------------------------- MODULE SpillLoopProofs ---------------------------
(***************************************************************************)
(* The loop of main around the allocator, for every function and every     *)
(* register file: what is true of one allocation is true in every round,   *)
(* rewriting makes well-formed code of well-formed code, with registers    *)
(* and slots that are its own, and changes no branch; and when the loop is *)
(* left every register has a place.                                        *)
(***************************************************************************)
EXTENDS SpillLoop, AllocationProofs

\* The instructions of a function with n registers.
InstrOf(n) == {i \in Instr : InstrDef(i) \cup InstrUses(i) \subseteq 0 .. n - 1}

CodeInv == code \in [Block -> Seq(InstrOf(nv))] /\ nv \in Nat /\ np \in Nat

\* What the variables of the allocator are whatever the phase: between two
\* allocations they are left over from the first.
DataInv ==
  /\ adj \in [Vreg -> SUBSET Node]
  /\ blk \in 0 .. NumBlocks /\ ins \in Nat /\ arg \in Nat
  /\ callLive \in SUBSET Vreg
  /\ pin \in [Vreg -> Cells(ArgReg) \cup {NoColour}]
  /\ wdeg \in [Vreg -> Int] /\ removed \in SUBSET Node /\ stack \in Seq(Node)
  /\ colour \in [Vreg -> Colour] /\ nSpills \in Nat
  /\ \A j, k \in DOMAIN stack : stack[j] = stack[k] => j = k

\* The phases in which the graph, the pins and the colours are those of the code.
InPhases == Phases \ {"liveness"}

SlotsInv ==
  /\ rounds \in Nat /\ entries \in Seq(Node) /\ DOMAIN slotOf \subseteq Node
  /\ \A p \in DOMAIN slotOf : slotOf[p] \in (0 .. rounds) \X Node

\* Rewriting leaves every block the successors it was lowered with.
BranchesKept == \A b \in Block : SuccIds(code[b]) = SuccIds(orig.code[b])

LoopInv ==
  /\ CodeInv /\ DataInv /\ GraphInv /\ SlotsInv /\ BranchesKept
  /\ phase \in Phases \cup {"rewrite", "allocated"}
  /\ phase \in InPhases => IInv
  /\ phase = "coloured" => stack = <<>>
  /\ Placed

-----------------------------------------------------------------------------
LEMMA CodeIsBody ==
  ASSUME CodeInv
  PROVE  /\ code \in Body
         /\ \A b \in Block : code[b] \in Seq(InstrOf(nv))
         /\ \A b \in Block : \A k \in DOMAIN code[b] :
              InstrDef(code[b][k]) \cup InstrUses(code[b][k]) \subseteq 0 .. nv - 1
<1>1. InstrOf(nv) \subseteq Instr
  BY DEF InstrOf
<1>2. \A b \in Block : code[b] \in Seq(InstrOf(nv)) /\ code[b] \in Seq(Instr)
  BY <1>1 DEF CodeInv
<1>3. code \in Body
  BY <1>2 DEF CodeInv, Body
<1>4. \A b \in Block : \A k \in DOMAIN code[b] : code[b][k] \in InstrOf(nv)
  BY <1>2
<1>. QED
  BY <1>2, <1>3, <1>4 DEF InstrOf

LEMMA InstrOfMore ==
  ASSUME NEW m \in Nat, NEW n \in Nat, m <= n
  PROVE  InstrOf(m) \subseteq InstrOf(n)
<1>1. 0 .. m - 1 \subseteq 0 .. n - 1
  OBVIOUS
<1>. QED
  BY <1>1 DEF InstrOf

\* An allocation's own invariant has all of this.
LEMMA DataOfIInv == IInv => DataInv /\ GraphInv
BY DEF IInv, TypeOK, DataInv, StackFaithful

LEMMA LoopStarts == LoopInit => LoopInv
<1>. SUFFICES ASSUME LoopInit PROVE LoopInv
  OBVIOUS
<1>1. Init /\ IInv /\ rounds = 0 /\ entries = <<>> /\ slotOf = <<>> /\ orig.code = code
  BY InitInv DEF LoopInit
<1>2. PICK f \in Functions : code = f.code /\ nv = f.nv /\ np = f.np
  BY <1>1 DEF Init
<1>3. CodeInv
  <2>1. /\ nv \in Nat /\ np \in Nat /\ code \in Body
        /\ \A b \in Block : \A k \in DOMAIN code[b] :
             InstrDef(code[b][k]) \cup InstrUses(code[b][k]) \subseteq 0 .. nv - 1
    BY <1>2, FunctionsAssumption
  <2>2. \A b \in Block : code[b] \in Seq(InstrOf(nv))
    <3>. SUFFICES ASSUME NEW b \in Block PROVE code[b] \in Seq(InstrOf(nv))
      OBVIOUS
    <3>1. code[b] \in Seq(Instr)
      BY <2>1 DEF Body
    <3>2. \A k \in 1 .. Len(code[b]) : code[b][k] \in InstrOf(nv)
      BY <2>1, <3>1 DEF InstrOf
    <3>. QED
      BY <3>1, <3>2
  <2>. QED
    BY <2>1, <2>2 DEF CodeInv, Body
<1>4. SlotsInv
  BY <1>1 DEF SlotsInv
<1>5. phase = "liveness"
  BY <1>1 DEF Init
<1>. QED
  BY <1>1, <1>3, <1>4, <1>5, DataOfIInv DEF LoopInv, BranchesKept, Placed, InPhases, Phases

-----------------------------------------------------------------------------
(***************************************************************************)
(* An allocation, whatever the round.                                      *)
(***************************************************************************)
LEMMA AnalyseStarts == CodeInv /\ DataInv /\ GraphInv /\ Analyse => IInv'
<1>. SUFFICES ASSUME CodeInv, DataInv, GraphInv, Analyse PROVE IInv'
  OBVIOUS
<1>1. /\ after' = LiveAfter(code) /\ phase' = "graph"
      /\ UNCHANGED <<funcVars, adj, cursor, precolor, simplify, result>>
  BY DEF Analyse
<1>2. \A b \in Block : after'[b] \in [1 .. Len(code[b]) -> SUBSET Vreg]
  <2>1. \A c, out, k : LiveAfterIn(c, out, k) \subseteq Vreg
    BY DEF LiveAfterIn
  <2>. QED
    BY <1>1, <2>1 DEF LiveAfter
<1>3. TypeOK'
  BY <1>1, <1>2, CodeIsBody DEF CodeInv, DataInv, TypeOK, Phases, funcVars, cursor, precolor,
                                simplify, result, Node
<1>4. GraphInv' /\ SimplifyInv' /\ SelectInv' /\ DegreesFaithful' /\ ChosenProper'
  BY <1>1 DEF GraphInv, SimplifyInv, SelectInv, DegreesFaithful, ChosenProper
<1>5. StackFaithful'
  BY <1>1 DEF DataInv, StackFaithful, simplify
<1>. QED
  BY <1>3, <1>4, <1>5 DEF IInv

LEMMA AllocateKeeps ==
  Allocate => /\ UNCHANGED funcVars /\ phase \in Phases /\ phase' \in InPhases
              /\ Analyse \/ phase \in InPhases
              /\ phase' = "coloured" => stack' = <<>>
BY DEF Allocate, Graph, Analyse, BuildGraph, Precolour, NextBlock, Scout, ScoutDone, PaintInstr,
       PaintArg, PaintCallDone, PaintDone, ColourNodes, PushLow, PushHigh, Push, SimplifyDone,
       Select, SelectDone, At, Phases, InPhases, simplify

LEMMA AllocatingInv == LoopInv /\ Allocating => LoopInv'
<1>. SUFFICES ASSUME LoopInv, Allocate, UNCHANGED lvars PROVE LoopInv'
  BY DEF Allocating
<1>1. /\ UNCHANGED funcVars /\ phase' \in InPhases
      /\ Analyse \/ phase \in InPhases
      /\ phase' = "coloured" => stack' = <<>>
  BY AllocateKeeps
<1>2. IInv'
  BY <1>1, AnalyseStarts, StepInv DEF LoopInv
<1>3. DataInv' /\ GraphInv'
  BY <1>2, DataOfIInv, PTL
<1>4. CodeInv' /\ SlotsInv' /\ BranchesKept'
  BY <1>1 DEF LoopInv, CodeInv, SlotsInv, BranchesKept, funcVars, lvars, Node
<1>5. phase' \in Phases /\ phase' # "allocated"
  BY <1>1 DEF InPhases, Phases
<1>. QED
  BY <1>1, <1>2, <1>3, <1>4, <1>5 DEF LoopInv, Placed

\* Between two allocations only what rewriting needs has to hold.
LEMMA BetweenRounds ==
  ASSUME CodeInv', DataInv', GraphInv', SlotsInv', BranchesKept', phase' \in {"rewrite", "liveness"}
  PROVE  LoopInv'
BY DEF LoopInv, Placed, Phases, InPhases

LEMMA CollectInv == LoopInv /\ Collect => LoopInv'
<1>. SUFFICES ASSUME LoopInv, Collect PROVE LoopInv'
  OBVIOUS
<1>1. /\ phase' = "rewrite" /\ blk' = 0 /\ ins' = 1
      /\ UNCHANGED <<funcVars, after, adj, arg, precolor, simplify, result,
                     orig, rounds, slotOf>>
  BY DEF Collect
<1>2. PICK order \in SetToSeqs(SpilledNodes) : entries' = order
  BY DEF Collect
<1>3. entries' \in Seq(Node)
  <2>1. order \in [1 .. Cardinality(SpilledNodes) -> SpilledNodes]
    BY <1>2 DEF SetToSeqs
  <2>2. SpilledNodes \subseteq Node /\ IsFiniteSet(SpilledNodes)
    BY NodesFinite DEF SpilledNodes
  <2>3. Cardinality(SpilledNodes) \in Nat
    BY <2>2, FS_CardinalityType
  <2>. QED
    BY <1>2, <2>1, <2>2, <2>3
<1>4. DataInv' /\ GraphInv'
  BY <1>1, BlocksAssumption DEF LoopInv, DataInv, GraphInv, funcVars, precolor, simplify, result, Node
<1>5. CodeInv' /\ SlotsInv' /\ BranchesKept'
  BY <1>1, <1>3 DEF LoopInv, CodeInv, SlotsInv, BranchesKept, funcVars, Node
<1>. QED
  BY <1>1, <1>4, <1>5, BetweenRounds

LEMMA NextBlockKeeps == LoopInv /\ (RewriteNextBlock \/ Restart) => LoopInv'
<1>. SUFFICES ASSUME LoopInv, RewriteNextBlock \/ Restart PROVE LoopInv'
  OBVIOUS
<1>1. /\ phase' \in {"rewrite", "liveness"} /\ blk' \in 0 .. NumBlocks /\ ins' \in Nat
      /\ rounds' \in Nat /\ rounds <= rounds'
      /\ UNCHANGED <<funcVars, adj, arg, precolor, simplify, result, orig, entries, slotOf>>
  BY BlocksAssumption DEF LoopInv, DataInv, SlotsInv, RewriteNextBlock, Restart, cursor, lvars
<1>2. DataInv' /\ GraphInv'
  BY <1>1 DEF LoopInv, DataInv, GraphInv, funcVars, precolor, simplify, result, Node
<1>3. CodeInv' /\ BranchesKept'
  BY <1>1 DEF LoopInv, CodeInv, BranchesKept, funcVars
<1>4. SlotsInv'
  <2>1. 0 .. rounds \subseteq 0 .. rounds'
    BY <1>1 DEF LoopInv, SlotsInv
  <2>. QED
    BY <1>1, <2>1 DEF LoopInv, SlotsInv, funcVars, Node
<1>. QED
  BY <1>1, <1>2, <1>3, <1>4, BetweenRounds

\* With nothing spilled, what left the select-stack has a register.
LEMMA FinishInv == LoopInv /\ Finish => LoopInv'
<1>. SUFFICES ASSUME LoopInv, Finish PROVE LoopInv'
  OBVIOUS
<1>1. /\ phase = "coloured" /\ nSpills = 0 /\ phase' = "allocated"
      /\ UNCHANGED <<funcVars, after, adj, cursor, precolor, simplify, result, lvars>>
  BY DEF Finish, Finished
<1>2. IInv
  BY <1>1 DEF LoopInv, InPhases, Phases
<1>3. \A v \in Node : colour[v] \in PhysReg
  <2>1. IsFiniteSet(Spills) /\ Cardinality(Spills) = 0
    BY <1>1, <1>2, NodesFinite DEF IInv, SelectInv, Spills
  <2>2. \A v \in Node : colour[v] # Spilled
    BY <2>1, FS_EmptySet DEF Spills
  <2>3. \A v \in Node : v \in Vreg /\ colour[v] \in Colour
    BY <1>2 DEF IInv, TypeOK, Node
  <2>4. \A v \in Node : v \notin Cells(stack)
    BY <1>1 DEF LoopInv, Cells
  <2>5. \A v \in Node : colour[v] # NoColour
    BY <1>1, <1>2, <2>4 DEF IInv, StackFaithful, Pending
  <2>. QED
    BY <2>2, <2>3, <2>5 DEF Colour
<1>4. \A a, b \in Node : Shares(a, b) => {a, b} \subseteq Fixed
  BY <1>1, <1>2 DEF IInv, ChosenProper
<1>5. Placed'
  BY <1>1, <1>3, <1>4 DEF Placed, Shares, Fixed, Node, funcVars, precolor, result
<1>6. DataInv' /\ GraphInv' /\ CodeInv' /\ SlotsInv' /\ BranchesKept'
  BY <1>1 DEF LoopInv, DataInv, GraphInv, CodeInv, SlotsInv, BranchesKept, funcVars, cursor,
              precolor, simplify, result, lvars, Node
<1>. QED
  BY <1>1, <1>5, <1>6 DEF LoopInv, InPhases, Phases

-----------------------------------------------------------------------------
(***************************************************************************)
(* spill_rewrite, one instruction. The registers of its reloads and of its *)
(* write-back are new, and there are enough of them.                       *)
(***************************************************************************)
LEMMA HitsFacts ==
  ASSUME NEW i \in Instr
  PROVE  /\ IsFiniteSet(Hits(i)) /\ Reloads(i) \in Nat
         /\ \A k \in Hits(i) : /\ k \in DOMAIN i.src /\ i.src[k] \in Cells(entries)
                               /\ Turn(i, k) \in 1 .. Reloads(i)
<1>1. i.src \in Seq(Operand)
  BY DEF Instr
<1>2. IsFiniteSet(DOMAIN i.src)
  <2>1. DOMAIN i.src = 1 .. Len(i.src) /\ Len(i.src) \in Int /\ 1 \in Int
    BY <1>1
  <2>. QED
    BY <2>1, FS_Interval
<1>3. IsFiniteSet(Hits(i))
  BY <1>2, FS_Subset DEF Hits
<1>4. Reloads(i) \in Nat
  BY <1>3, FS_CardinalityType DEF Reloads
<1>5. ASSUME NEW k \in Hits(i) PROVE Turn(i, k) \in 1 .. Reloads(i)
  <2>. DEFINE S == {j \in Hits(i) : Precedes(i, j, k)}
  <2>1. S \subseteq Hits(i) /\ k \in S
    <3>1. k \in Nat /\ Precedes(i, k, k)
      BY <1>1 DEF Hits, Precedes
    <3>. QED
      BY <3>1
  <2>2. IsFiniteSet(S) /\ Cardinality(S) <= Cardinality(Hits(i))
    BY <1>3, <2>1, FS_Subset
  <2>3. Cardinality(S) \in Nat /\ Cardinality(S) # 0
    BY <2>1, <2>2, FS_CardinalityType, FS_EmptySet
  <2>4. Turn(i, k) = Cardinality(S)
    BY DEF Turn
  <2>. HIDE DEF S
  <2>. QED
    BY <1>4, <2>2, <2>3, <2>4 DEF Reloads
<1>. QED
  BY <1>3, <1>4, <1>5 DEF Hits

LEMMA FunctionIsSeq ==
  ASSUME NEW S, NEW n \in Nat, NEW f \in [1 .. n -> S]
  PROVE  f \in Seq(S) /\ Len(f) = n
OBVIOUS

LEMMA FreshNumbers ==
  ASSUME NEW i \in Instr, nv \in Nat
  PROVE  /\ Fresh(i) \in Nat
         /\ \A n \in 1 .. Reloads(i) : /\ Ptr(n) \in nv .. nv + Fresh(i) - 1
                                       /\ Reload(n) \in nv .. nv + Fresh(i) - 1
                                       /\ Ptr(n) # LastPtr(i)
         /\ Written(i) # {} => LastPtr(i) \in nv .. nv + Fresh(i) - 1
BY HitsFacts DEF Fresh, Ptr, Reload, LastPtr

LEMMA NewInstructions ==
  ASSUME NEW i \in InstrOf(nv), nv \in Nat, NEW m, m = nv + Fresh(i), nv .. m - 1 \subseteq Vreg
  PROVE  /\ Before(i) \in Seq(InstrOf(m))
         /\ [i EXCEPT !.src = Patched(i)] \in InstrOf(m)
         /\ WriteBack(i) \in Seq(InstrOf(m))
<1>1. /\ i \in Instr /\ m \in Nat /\ nv <= m
      /\ InstrDef(i) \cup InstrUses(i) \subseteq 0 .. nv - 1
      /\ 0 .. nv - 1 \subseteq 0 .. m - 1 /\ nv .. m - 1 \subseteq 0 .. m - 1
  BY FreshNumbers DEF InstrOf
<1>2. ASSUME NEW p \in nv .. m - 1 PROVE AddrOfSlot(p) \in InstrOf(m)
  <2>1. AddrOfSlot(p) \in Instr
    <3>1. p \in Operand /\ <<NoVreg>> \in Seq(Operand) /\ <<>> \in Seq(Block)
      BY DEF Operand
    <3>. QED
      BY <3>1 DEF AddrOfSlot, Instr, Opcodes
  <2>2. InstrDef(AddrOfSlot(p)) \subseteq {p} /\ InstrUses(AddrOfSlot(p)) = {}
    BY DEF InstrDef, InstrUses, AddrOfSlot
  <2>. QED
    BY <1>1, <2>1, <2>2 DEF InstrOf
<1>3. ASSUME NEW p \in nv .. m - 1, NEW v \in nv .. m - 1 PROVE LoadFrom(v, p) \in InstrOf(m)
  <2>1. LoadFrom(v, p) \in Instr
    <3>1. v \in Operand /\ <<p>> \in Seq(Operand) /\ <<>> \in Seq(Block)
      BY DEF Operand
    <3>. QED
      BY <3>1 DEF LoadFrom, Instr, Opcodes
  <2>2. InstrDef(LoadFrom(v, p)) \subseteq {v} /\ InstrUses(LoadFrom(v, p)) \subseteq {p}
    BY DEF InstrDef, InstrUses, LoadFrom
  <2>. QED
    BY <1>1, <2>1, <2>2 DEF InstrOf
<1>4. Before(i) \in Seq(InstrOf(m))
  <2>1. ASSUME NEW k \in 1 .. 2 * Reloads(i) PROVE Before(i)[k] \in InstrOf(m)
    <3>. DEFINE n == (k + 1) \div 2
    <3>1. Reloads(i) \in Nat
      BY <1>1, HitsFacts
    <3>2. n \in 1 .. Reloads(i)
      BY <3>1
    <3>3. Ptr(n) \in nv .. m - 1 /\ Reload(n) \in nv .. m - 1
      BY <1>1, <3>2, FreshNumbers
    <3>4. Before(i)[k] = IF k % 2 = 1 THEN AddrOfSlot(Ptr(n)) ELSE LoadFrom(Reload(n), Ptr(n))
      BY DEF Before
    <3>. QED
      BY <1>2, <1>3, <3>3, <3>4
  <2>2. 2 * Reloads(i) \in Nat
    BY <1>1, HitsFacts
  <2>. QED
    BY <2>1, <2>2 DEF Before
<1>5. [i EXCEPT !.src = Patched(i)] \in InstrOf(m)
  <2>. DEFINE j == [i EXCEPT !.src = Patched(i)]
  <2>1. i.src \in Seq(Operand) /\ j.op = i.op /\ j.dst = i.dst /\ j.tgt = i.tgt /\ j.src = Patched(i)
    BY <1>1 DEF Instr
  <2>2. \A k \in DOMAIN i.src :
          Patched(i)[k] \in nv .. m - 1 \/ (Patched(i)[k] = i.src[k] /\ i.src[k] \in Operand)
    <3>. SUFFICES ASSUME NEW k \in DOMAIN i.src
                  PROVE  Patched(i)[k] \in nv .. m - 1 \/ (Patched(i)[k] = i.src[k] /\ i.src[k] \in Operand)
      OBVIOUS
    <3>1. i.src[k] \in Operand
      BY <2>1
    <3>2. k \in Hits(i) => Reload(Turn(i, k)) \in nv .. m - 1
      BY <1>1, HitsFacts, FreshNumbers
    <3>. QED
      BY <3>1, <3>2 DEF Patched
  <2>3. Patched(i) \in Seq(Operand) /\ Len(Patched(i)) = Len(i.src)
    <3>1. \A k \in 1 .. Len(i.src) : Patched(i)[k] \in Operand
      BY <2>1, <2>2 DEF Operand
    <3>2. Len(i.src) \in Nat /\ DOMAIN i.src = 1 .. Len(i.src)
      BY <2>1
    <3>3. Patched(i) \in [1 .. Len(i.src) -> Operand]
      BY <3>1, <3>2 DEF Patched
    <3>. QED
      BY <3>2, <3>3, FunctionIsSeq
  <2>4. j \in Instr
    BY <1>1, <2>3 DEF Instr
  <2>5. InstrDef(j) = InstrDef(i)
    BY <2>1 DEF InstrDef
  <2>6. InstrUses(j) \subseteq (nv .. m - 1) \cup InstrUses(i)
    <3>. HIDE DEF j
    <3>. QED
      BY <2>1, <2>2, <2>3 DEF InstrUses
  <2>. QED
    BY <1>1, <2>4, <2>5, <2>6 DEF InstrOf
<1>6. WriteBack(i) \in Seq(InstrOf(m))
  <2>1. CASE Written(i) = {}
    BY <2>1 DEF WriteBack
  <2>2. CASE Written(i) # {}
    <3>. DEFINE p == LastPtr(i)
    <3>1. p \in nv .. m - 1
      BY <1>1, <2>2, FreshNumbers
    <3>2. i.dst \in InstrDef(i)
      BY <2>2 DEF Written, InstrDef
    <3>3. i.dst \in 0 .. m - 1 /\ i.dst \in Operand
      BY <1>1, <3>2 DEF Instr
    <3>4. StoreTo(p, i.dst) \in InstrOf(m)
      <4>. HIDE DEF p
      <4>1. p \in Operand /\ NoVreg \in Operand
        BY <3>1 DEF Operand
      <4>2. <<p, i.dst>> \in Seq(Operand) /\ <<>> \in Seq(Block)
        BY <3>3, <4>1
      <4>3. StoreTo(p, i.dst) \in Instr
        BY <4>1, <4>2 DEF StoreTo, Instr, Opcodes
      <4>4. InstrDef(StoreTo(p, i.dst)) = {} /\ InstrUses(StoreTo(p, i.dst)) \subseteq {p, i.dst}
        BY DEF InstrDef, InstrUses, StoreTo
      <4>. QED
        BY <1>1, <3>1, <3>3, <4>3, <4>4 DEF InstrOf
    <3>5. AddrOfSlot(p) \in InstrOf(m)
      BY <1>2, <3>1
    <3>6. WriteBack(i) = <<AddrOfSlot(p), StoreTo(p, i.dst)>>
      BY <2>2 DEF WriteBack
    <3>. QED
      BY <3>4, <3>5, <3>6
  <2>. QED
    BY <2>1, <2>2
<1>. QED
  BY <1>4, <1>5, <1>6


\* A block whose last instruction branches as before has the same successors.
LEMMA Spliced ==
  ASSUME NEW c \in Seq(Instr), NEW k \in 1 .. Len(c), NEW new \in Seq(Instr), new # <<>>,
         LET last == new[Len(new)]
         IN  \/ last.op = c[k].op /\ last.tgt = c[k].tgt
             \/ last.op \notin Terminators /\ c[k].op \notin Terminators
  PROVE  SuccIds(SubSeq(c, 1, k - 1) \o new \o SubSeq(c, k + 1, Len(c))) = SuccIds(c)
<1>. DEFINE d == SubSeq(c, 1, k - 1) \o new \o SubSeq(c, k + 1, Len(c))
<1>1. /\ Len(SubSeq(c, 1, k - 1)) = k - 1 /\ SubSeq(c, 1, k - 1) \in Seq(Instr)
      /\ Len(SubSeq(c, k + 1, Len(c))) = Len(c) - k /\ SubSeq(c, k + 1, Len(c)) \in Seq(Instr)
      /\ Len(new) \in Nat /\ Len(new) > 0 /\ Len(c) \in Nat /\ k \in Nat
  OBVIOUS
<1>2. k < Len(c) => SubSeq(c, k + 1, Len(c))[Len(c) - k] = c[Len(c)]
  BY <1>1
<1>3. /\ Len(d) = Len(c) + Len(new) - 1 /\ d # <<>> /\ c # <<>>
      /\ d[Len(d)] = IF k < Len(c) THEN c[Len(c)] ELSE new[Len(new)]
  <2>. DEFINE front == SubSeq(c, 1, k - 1)
              back == SubSeq(c, k + 1, Len(c))
  <2>1. front \in Seq(Instr) /\ Len(front) = k - 1 /\ back \in Seq(Instr) /\ Len(back) = Len(c) - k
    BY <1>1
  <2>2. k < Len(c) => back[Len(back)] = c[Len(c)]
    BY <1>2, <2>1
  <2>3. d = (front \o new) \o back
    OBVIOUS
  <2>4. c # <<>>
    BY <1>1
  <2>. HIDE DEF front, back, d
  <2>5. front \o new \in Seq(Instr) /\ Len(front \o new) = k - 1 + Len(new)
        /\ (front \o new)[k - 1 + Len(new)] = new[Len(new)]
    <3>1. Len(new) \in 1 .. Len(new)
      BY <1>1
    <3>. QED
      <4>1. /\ front \o new \in Seq(Instr) /\ Len(front \o new) = Len(front) + Len(new)
            /\ \A x \in 1 .. Len(front) + Len(new) :
                 (front \o new)[x] = IF x <= Len(front) THEN front[x] ELSE new[x - Len(front)]
        BY <2>1, ConcatProperties
      <4>2. /\ Len(front) + Len(new) = k - 1 + Len(new) /\ k - 1 + Len(new) \in 1 .. Len(front) + Len(new)
            /\ ~(k - 1 + Len(new) <= Len(front)) /\ k - 1 + Len(new) - Len(front) = Len(new)
        BY <1>1, <2>1
      <4>. QED
        BY <4>1, <4>2
  <2>6. Len(d) = Len(c) + Len(new) - 1 /\ d # <<>>
    <3>1. Len(d) = (k - 1 + Len(new)) + (Len(c) - k)
      <4>1. Len(d) = Len(front \o new) + Len(back)
        BY <2>1, <2>3, <2>5, ConcatProperties
      <4>. QED
        BY <1>1, <2>1, <2>5, <4>1
    <3>2. d \in Seq(Instr)
      BY <2>1, <2>3, <2>5, ConcatProperties
    <3>. QED
      BY <1>1, <3>1, <3>2
  <2>7. CASE k < Len(c)
    <3>1. d[Len(d)] = back[Len(back)]
      <4>1. /\ Len(d) \in 1 .. Len(front \o new) + Len(back)
            /\ ~(Len(d) <= Len(front \o new)) /\ Len(d) - Len(front \o new) = Len(back)
        BY <1>1, <2>1, <2>5, <2>6, <2>7
      <4>2. \A x \in 1 .. Len(front \o new) + Len(back) :
              d[x] = IF x <= Len(front \o new) THEN (front \o new)[x] ELSE back[x - Len(front \o new)]
        BY <2>1, <2>3, <2>5, ConcatProperties
      <4>. QED
        BY <4>1, <4>2
    <3>. QED
      BY <2>2, <2>4, <2>6, <2>7, <3>1
  <2>8. CASE ~(k < Len(c))
    <3>1. Len(d) = k - 1 + Len(new)
      BY <1>1, <2>6, <2>8
    <3>2. d[Len(d)] = (front \o new)[Len(d)]
      <4>1. Len(d) \in 1 .. Len(front \o new) + Len(back) /\ Len(d) <= Len(front \o new)
        BY <1>1, <2>1, <2>5, <2>8, <3>1
      <4>2. \A x \in 1 .. Len(front \o new) + Len(back) :
              d[x] = IF x <= Len(front \o new) THEN (front \o new)[x] ELSE back[x - Len(front \o new)]
        BY <2>1, <2>3, <2>5, ConcatProperties
      <4>. QED
        BY <4>1, <4>2
    <3>. QED
      BY <2>4, <2>5, <2>6, <2>8, <3>1, <3>2
  <2>. QED
    BY <2>7, <2>8
<1>4. k < Len(c) \/ k = Len(c)
  BY <1>1
<1>. HIDE DEF d
<1>5. SuccIds(d) = SuccIds(c)
  BY <1>3, <1>4 DEF SuccIds, Terminators
<1>. QED
  BY <1>5 DEF d

LEMMA RewriteInv == LoopInv /\ Rewrite => LoopInv'
<1>. SUFFICES ASSUME LoopInv, Rewrite PROVE LoopInv'
  OBVIOUS
<1>. DEFINE i == Here
            c == code[blk]
            kept == [i EXCEPT !.src = Patched(i)]
            new == Before(i) \o <<kept>> \o WriteBack(i)
            m == nv + Fresh(i)
<1>1. /\ phase = "rewrite" /\ blk \in Block /\ ins \in 1 .. Len(c) /\ i = c[ins]
      /\ nv' = m /\ nv .. m - 1 \subseteq Vreg
      /\ code' = [code EXCEPT ![blk] = SubSeq(c, 1, ins - 1) \o new \o SubSeq(c, ins + 1, Len(c))]
      /\ slotOf' = WithPointers(i) /\ ins' = ins + Len(new)
      /\ UNCHANGED <<np, phase, after, adj, blk, arg, precolor, simplify, result,
                     orig, rounds, entries>>
  BY BlocksAssumption DEF Rewrite, At, Here, Resume, LoopInv, DataInv, Block
<1>2. /\ c \in Seq(InstrOf(nv)) /\ i \in InstrOf(nv) /\ i \in Instr /\ nv \in Nat
      /\ Fresh(i) \in Nat /\ m \in Nat /\ nv <= m
  <2>1. c \in Seq(InstrOf(nv)) /\ nv \in Nat
    BY <1>1, CodeIsBody DEF LoopInv, CodeInv
  <2>2. c[ins] \in InstrOf(nv)
    BY <1>1, <2>1
  <2>3. i \in InstrOf(nv) /\ i \in Instr
    BY <1>1, <2>2 DEF InstrOf
  <2>. QED
    BY <2>1, <2>3, FreshNumbers
<1>3. /\ Before(i) \in Seq(InstrOf(m)) /\ kept \in InstrOf(m) /\ WriteBack(i) \in Seq(InstrOf(m))
  BY <1>1, <1>2, NewInstructions
<1>4. /\ new \in Seq(InstrOf(m)) /\ Len(new) \in Nat /\ Len(new) # 0
      /\ new[Len(new)] = IF WriteBack(i) = <<>> THEN kept ELSE WriteBack(i)[Len(WriteBack(i))]
  <2>. HIDE DEF kept, m, i
  <2>. QED
    BY <1>3
<1>5. CodeInv'
  <2>1. InstrOf(nv) \subseteq InstrOf(m)
    BY <1>2, InstrOfMore
  <2>2. \A b \in Block : code[b] \in Seq(InstrOf(m))
    BY <2>1 DEF LoopInv, CodeInv
  <2>3. SubSeq(c, 1, ins - 1) \o new \o SubSeq(c, ins + 1, Len(c)) \in Seq(InstrOf(m))
    <3>1. c \in Seq(InstrOf(m))
      BY <1>1, <2>2
    <3>2. SubSeq(c, 1, ins - 1) \in Seq(InstrOf(m)) /\ SubSeq(c, ins + 1, Len(c)) \in Seq(InstrOf(m))
      <4>. HIDE DEF c, m
      <4>. QED
        BY <1>1, <3>1
    <3>. HIDE DEF c, m, new
    <3>. QED
      BY <1>4, <3>2
  <2>4. code' \in [Block -> Seq(InstrOf(m))]
    <3>. HIDE DEF c, m, new
    <3>. QED
      BY <1>1, <2>2, <2>3 DEF LoopInv, CodeInv
  <2>. QED
    BY <1>1, <1>2, <2>4 DEF LoopInv, CodeInv
<1>6. Node \subseteq Node'
  <2>1. nv' = m /\ \A v \in Vreg : v < nv => v < m
    <3>. HIDE DEF m
    <3>. QED
      BY <1>1, <1>2, VregsAreIds
  <2>. HIDE DEF m
  <2>. QED
    BY <2>1 DEF Node
<1>7. DataInv' /\ GraphInv'
  <2>1. ins' \in Nat
    <3>1. ins \in Nat /\ ins' = ins + Len(new) /\ Len(new) \in Nat
      BY <1>1, <1>4 DEF LoopInv, DataInv
    <3>. HIDE DEF new
    <3>. QED
      BY <3>1
  <2>2. stack' \in Seq(Node') /\ adj' \in [Vreg -> SUBSET Node'] /\ removed' \in SUBSET Node'
    BY <1>1, <1>6 DEF LoopInv, DataInv, simplify
  <2>. QED
    BY <1>1, <2>1, <2>2 DEF LoopInv, DataInv, GraphInv, precolor, simplify, result
<1>8. SlotsInv'
  <2>1. entries \in Seq(Node) /\ rounds \in Nat /\ Cells(entries) \subseteq Node
    BY CellsOf DEF LoopInv, SlotsInv
  <2>2. nv .. m - 1 \subseteq Node'
    BY <1>1, <1>2 DEF Node
  <2>3. \A p \in DOMAIN Pointers(i) : p \in nv .. m - 1 /\ Pointers(i)[p] \in (0 .. rounds) \X Node
    <3>. SUFFICES ASSUME NEW p \in DOMAIN Pointers(i)
                  PROVE  p \in nv .. m - 1 /\ Pointers(i)[p] \in (0 .. rounds) \X Node
      OBVIOUS
    <3>1. \A v \in Cells(entries) : Slot(v) \in (0 .. rounds) \X Node
      BY <2>1 DEF Slot
    <3>2. CASE p = LastPtr(i)
      <4>1. Written(i) # {}
        <5>1. \A k \in Hits(i) : Ptr(Turn(i, k)) # p
          BY <1>2, <3>2, HitsFacts, FreshNumbers
        <5>. QED
          BY <5>1 DEF Pointers
      <4>2. i.dst \in Cells(entries)
        BY <4>1 DEF Written, InstrDef
      <4>3. Pointers(i)[p] = Slot(i.dst)
        BY <3>2 DEF Pointers
      <4>. QED
        BY <1>2, <3>1, <3>2, <4>1, <4>2, <4>3, FreshNumbers
    <3>3. CASE p # LastPtr(i)
      <4>1. \E k \in Hits(i) : Ptr(Turn(i, k)) = p
        BY <3>3 DEF Pointers
      <4>. DEFINE k == CHOOSE k \in Hits(i) : Ptr(Turn(i, k)) = p
      <4>2. k \in Hits(i) /\ Ptr(Turn(i, k)) = p
        BY <4>1
      <4>3. Pointers(i)[p] = Slot(i.src[k])
        BY <3>3 DEF Pointers
      <4>. HIDE DEF k
      <4>4. i.src[k] \in Cells(entries) /\ p \in nv .. m - 1
        BY <1>2, <4>2, HitsFacts, FreshNumbers
      <4>. QED
        BY <3>1, <4>3, <4>4
    <3>. QED
      BY <3>2, <3>3
  <2>4. /\ DOMAIN slotOf' = DOMAIN slotOf \cup DOMAIN Pointers(i)
        /\ \A p \in DOMAIN slotOf' :
             slotOf'[p] = IF p \in DOMAIN Pointers(i) THEN Pointers(i)[p] ELSE slotOf[p]
    BY <1>1 DEF WithPointers
  <2>5. entries' \in Seq(Node')
    BY <1>1, <1>6, <2>1
  <2>6. DOMAIN slotOf' \subseteq Node'
    BY <1>6, <2>2, <2>3, <2>4 DEF LoopInv, SlotsInv
  <2>7. \A p \in DOMAIN slotOf' : slotOf'[p] \in (0 .. rounds) \X Node'
    <3>1. \A p \in DOMAIN slotOf : slotOf[p] \in (0 .. rounds) \X Node
      BY DEF LoopInv, SlotsInv
    <3>. HIDE DEF i
    <3>. QED
      BY <1>6, <2>3, <2>4, <3>1
  <2>. QED
    BY <1>1, <2>1, <2>5, <2>6, <2>7 DEF SlotsInv
<1>9. BranchesKept'
  <2>1. InstrOf(nv) \subseteq Instr /\ InstrOf(m) \subseteq Instr
    BY DEF InstrOf
  <2>2. c \in Seq(Instr) /\ new \in Seq(Instr) /\ new # <<>>
    <3>. HIDE DEF c, m, new
    <3>. QED
      BY <1>2, <1>4, <2>1
  <2>3. \/ new[Len(new)].op = c[ins].op /\ new[Len(new)].tgt = c[ins].tgt
        \/ new[Len(new)].op \notin Terminators /\ c[ins].op \notin Terminators
    <3>1. CASE WriteBack(i) = <<>>
      BY <1>1, <1>2, <1>4, <3>1 DEF Instr
    <3>2. CASE WriteBack(i) # <<>>
      <4>1. InstrDef(i) # {}
        BY <3>2 DEF WriteBack, Written
      <4>2. c[ins].op \notin Terminators
        BY <1>1, <4>1 DEF InstrDef
      <4>3. WriteBack(i)[Len(WriteBack(i))] = StoreTo(LastPtr(i), i.dst)
        BY <3>2 DEF WriteBack
      <4>4. new[Len(new)].op = "STORE"
        BY <1>4, <3>2, <4>3 DEF StoreTo
      <4>. QED
        BY <4>2, <4>4 DEF Terminators
    <3>. QED
      BY <3>1, <3>2
  <2>4. SuccIds(SubSeq(c, 1, ins - 1) \o new \o SubSeq(c, ins + 1, Len(c))) = SuccIds(c)
    <3>. HIDE DEF c, new
    <3>. QED
      BY <1>1, <2>2, <2>3, Spliced
  <2>5. /\ code'[blk] = SubSeq(c, 1, ins - 1) \o new \o SubSeq(c, ins + 1, Len(c))
        /\ \A b \in Block : b # blk => code'[b] = code[b]
    <3>. HIDE DEF c, new
    <3>. QED
      BY <1>1 DEF LoopInv, CodeInv
  <2>. HIDE DEF new
  <2>. QED
    BY <1>1, <2>4, <2>5 DEF LoopInv, BranchesKept
<1>. QED
  BY <1>1, <1>5, <1>7, <1>8, <1>9, BetweenRounds

LEMMA LoopStep == LoopInv /\ [Next]_vars => LoopInv'
<1>1. LoopInv /\ Next => LoopInv'
  BY AllocatingInv, CollectInv, RewriteInv, NextBlockKeeps, FinishInv DEF Next
<1>2. LoopInv /\ UNCHANGED vars => LoopInv'
  <2>. SUFFICES ASSUME LoopInv, UNCHANGED <<avars, lvars>> PROVE LoopInv'
    BY DEF vars
  <2>1. /\ UNCHANGED avars
        /\ UNCHANGED <<funcVars, phase, after, adj, cursor, precolor, simplify, result>>
        /\ UNCHANGED lvars
    BY DEF avars
  <2>2. DataInv' /\ GraphInv' /\ CodeInv' /\ SlotsInv' /\ BranchesKept' /\ Placed'
    BY <2>1 DEF LoopInv, DataInv, GraphInv, CodeInv, SlotsInv, BranchesKept, funcVars, cursor,
                precolor, simplify, result, lvars, Node, Placed, Shares, Fixed
  <2>3. phase \in InPhases => IInv'
    BY <2>1, StepInv DEF LoopInv
  <2>. QED
    BY <2>1, <2>2, <2>3 DEF LoopInv, simplify
<1>. QED
  BY <1>1, <1>2

THEOREM LoopInvariant == SafeSpec => []LoopInv
<1>1. LoopInit => LoopInv
  BY LoopStarts
<1>2. LoopInv /\ [Next]_vars => LoopInv'
  BY LoopStep
<1>. QED
  BY <1>1, <1>2, PTL DEF SafeSpec


-----------------------------------------------------------------------------
\* In every round the code is well formed: no instruction names a register that
\* next_vreg does not count, also between the instructions spill_rewrite has
\* reached and those it has not; each spill pointer is one of them, for one slot.
THEOREM LoopTypeCorrect == SafeSpec => []LoopTypeOK
<1>1. LoopInv => LoopTypeOK
  BY CodeIsBody DEF LoopInv, LoopTypeOK, CodeInv, SlotsInv
<1>. QED
  BY <1>1, LoopInvariant, PTL

\* What the theorems of AllocationProofs say of the first allocation, for all of
\* them: the degrees and the stack, what is chosen, and what is spilled.
THEOREM EveryRound == SafeSpec => [](SimplifySound /\ ChosenProper /\ SpillJustified)
<1>1. LoopInv => SimplifySound /\ ChosenProper /\ SpillJustified
  <2>. SUFFICES ASSUME LoopInv PROVE SimplifySound /\ ChosenProper /\ SpillJustified
    OBVIOUS
  <2>1. CASE phase \in InPhases
    BY <2>1 DEF LoopInv, IInv, SimplifySound, SelectInv, SpillJustified, Spills, Ended
  <2>2. CASE phase \notin InPhases
    <3>1. phase \notin {"simplify", "select", "coloured"}
      BY <2>2 DEF InPhases, Phases
    <3>. QED
      BY <3>1 DEF LoopInv, DataInv, SimplifySound, StackFaithful, DegreesFaithful, ChosenProper,
                  SpillJustified, Ended
  <2>. QED
    BY <2>1, <2>2
<1>. QED
  BY <1>1, LoopInvariant, PTL

\* When main leaves the loop every register has a place in the register file, and
\* neighbours have one in common only if both were pinned to it.
THEOREM PlacedCorrect == SafeSpec => []Placed
<1>1. LoopInv => Placed
  BY DEF LoopInv
<1>. QED
  BY <1>1, LoopInvariant, PTL

\* Reloads and write-backs go before and behind instructions and never behind the
\* last of a block: the control-flow graph is the one that was lowered.
THEOREM BranchesCorrect == SafeSpec => []BranchesKept
<1>1. LoopInv => BranchesKept
  BY DEF LoopInv
<1>. QED
  BY <1>1, LoopInvariant, PTL

=============================================================================
