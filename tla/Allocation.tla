----------------------------- MODULE Allocation -----------------------------
(***************************************************************************)
(* Register allocation of one function: the interference graph             *)
(* (interference.c), the registers the calling convention imposes          *)
(* (precolor.c) and the colouring of the rest (regalloc.c), on the result  *)
(* of liveness. The loops whose order matters take a step per instruction, *)
(* per argument or per node.                                               *)
(*                                                                         *)
(* Phases 1 and 4 of regalloc_build coalesce the two sides of a COPY;      *)
(* lowering emits no COPY, so alias[] stays the identity and the two are   *)
(* left out, as is the 512-cell buffer neighbours are copied through.      *)
(***************************************************************************)
EXTENDS LiveRanges, Integers

CONSTANTS
  Functions,             \* the functions considered: code, nv, np
  ArgReg,                \* r1 .. r3, the argument registers, result in the first
  PrefNormal,            \* order of preference of a register
  PrefCallee,            \*   and of one that is live across a call
  KFull, KCallee,        \* K_FULL, K_CALLEE
  NoColour, Spilled      \* PHYS_NONE, REGALLOC_SPILL

Cells(s) == {s[k] : k \in DOMAIN s}
PhysReg == Cells(ArgReg) \cup Cells(PrefNormal) \cup Cells(PrefCallee)

ASSUME RegisterFile ==
  /\ \A s \in {ArgReg, PrefNormal, PrefCallee} : s \in Seq(Nat) /\ s # <<>>
  /\ \A j, k \in DOMAIN ArgReg : ArgReg[j] = ArgReg[k] => j = k
  /\ KFull \in Nat /\ KCallee \in Nat
  /\ NoColour # Spilled /\ {NoColour, Spilled} \cap PhysReg = {}
ASSUME VregsAreIds == Vreg \subseteq Nat /\ IsFiniteSet(Vreg)
ASSUME FunctionsAssumption ==
  \A f \in Functions :
    /\ f.code \in Body /\ f.nv \in Nat /\ f.np \in Nat
    /\ \A b \in Block : \A k \in DOMAIN f.code[b] :
         /\ f.code[b][k].op # "COPY"
         /\ InstrDef(f.code[b][k]) \cup InstrUses(f.code[b][k]) \subseteq 0 .. f.nv - 1

(***************************************************************************)
(* What lowering makes sure of. The registers of an expression are written *)
(* where its evaluation starts, before it branches: going back from a      *)
(* block a register is live into one meets its definition. And they are    *)
(* written once: what a call returns is not needed behind an earlier one.  *)
(* A parameter that came in a register is stored before anything is        *)
(* called, and a RET reads what was computed last.                         *)
(***************************************************************************)
Anchored(body, v) ==
  \A S \in SUBSET {b \in Block : v \in LiveInto(body, b)} :
    S # {} => \E b \in S : ~(Preds(body, b) \subseteq S)

Earlier(b, k, c, j) == b < c \/ (b = c /\ k < j)
CallAt(body, b, k) == k \in 1 .. Len(body[b]) /\ body[b][k].op = "CALL"
\* What is live across the call at k of block b.
Across(body, b, k) == LiveAfter(body)[b][k] \ InstrDef(body[b][k])

ResultsFresh(body) ==
  \A b, c \in Block : \A k \in DOMAIN body[b], j \in DOMAIN body[c] :
    CallAt(body, b, k) /\ CallAt(body, c, j) /\ Earlier(b, k, c, j)
      => InstrDef(body[c][j]) \cap Across(body, b, k) = {}

ComesInReg(f, v) == v < f.np /\ v < Len(ArgReg)
ReadByRet(body, v) ==
  \E b \in Block : \E k \in 1 .. Len(body[b]) : body[b][k].op = "RET" /\ v \in InstrUses(body[b][k])

\* The arguments of the call at k of block b that the convention passes in registers.
Handed(body, b, k) == {body[b][k].src[j] : j \in DOMAIN body[b][k].src \cap DOMAIN ArgReg} \ {NoVreg}
Argument(body, v) ==
  \E b \in Block : \E k \in 1 .. Len(body[b]) : CallAt(body, b, k) /\ v \in Handed(body, b, k)

\* The registers the calling convention has a say in.
Bound(f) == {v \in Vreg : ComesInReg(f, v) \/ ReadByRet(f.code, v) \/ Argument(f.code, v)}
CallSites(body) ==
  UNION {{<<b, k>> : k \in {j \in 1 .. Len(body[b]) : CallAt(body, b, j)}} : b \in Block}

\* When the operand of a RET is written nothing waits to be passed on; parameters
\* are stored before an argument is computed; and of two arguments of different
\* calls that are there at once, one is kept across the other's call.
InTurn(f, u, v) ==
  /\ ReadByRet(f.code, u) => v \notin Bound(f)
  /\ ComesInReg(f, u) => ~Argument(f.code, v)
  /\ \A s, t \in CallSites(f.code) :
       /\ s # t
       /\ u \in Handed(f.code, s[1], s[2]) /\ v \in Handed(f.code, t[1], t[2])
       => u \in Across(f.code, t[1], t[2]) \/ v \in Across(f.code, s[1], s[2])

HandedInTurn(f) ==
  \A b \in Block : \A k \in 1 .. Len(f.code[b]) :
    \A u \in InstrDef(f.code[b][k]) \cap Bound(f) :
      \A v \in (LiveAfter(f.code)[b][k] \cap Bound(f)) \ {u} : InTurn(f, u, v) /\ InTurn(f, v, u)

ASSUME LoweringAssumption ==
  \A f \in Functions :
    /\ \A v \in Vreg : f.np <= v /\ v < f.nv => Anchored(f.code, v)
    /\ ResultsFresh(f.code)
    /\ \A v \in Vreg : ComesInReg(f, v) \/ ReadByRet(f.code, v) =>
         \A b \in Block : \A k \in 1 .. Len(f.code[b]) :
           CallAt(f.code, b, k) => v \notin Across(f.code, b, k)
    /\ HandedInTurn(f)

VARIABLES
  code, nv, np,          \* the function: blocks, next_vreg, param_count
  phase,
  after,                 \* live_after of every instruction
  adj,                   \* the interference graph, as neighbour sets
  blk, ins, arg,         \* cursors of the loops of precolor_build
  callLive, pin,         \* precolor_t: call_live and color
  wdeg, removed, stack,  \* working degrees, removed flags, select-stack
  colour, nSpills        \* regalloc_t: color and n_spills

funcVars == <<code, nv, np>>
cursor == <<blk, ins, arg>>
precolor == <<callLive, pin>>
simplify == <<wdeg, removed, stack>>
result == <<colour, nSpills>>
avars == <<funcVars, phase, after, adj, cursor, precolor, simplify, result>>

Node == {v \in Vreg : v < nv}
Colour == PhysReg \cup {NoColour, Spilled}
Blank == [v \in Vreg |-> NoColour]

-----------------------------------------------------------------------------
Init ==
  /\ \E f \in Functions : code = f.code /\ nv = f.nv /\ np = f.np
  /\ phase = "liveness"
  /\ after = [b \in Block |-> [k \in 1 .. Len(code[b]) |-> {}]]
  /\ adj = [v \in Vreg |-> {}]
  /\ blk = 0 /\ ins = 1 /\ arg = 1
  /\ callLive = {} /\ pin = Blank
  /\ wdeg = [v \in Vreg |-> 0] /\ removed = {} /\ stack = <<>>
  /\ colour = Blank /\ nSpills = 0

\* ir_liveness_compute.
Analyse ==
  /\ phase = "liveness"
  /\ after' = LiveAfter(code)
  /\ phase' = "graph"
  /\ UNCHANGED <<funcVars, adj, cursor, precolor, simplify, result>>

(***************************************************************************)
(* ifg_build: the register an instruction defines interferes with whatever *)
(* else is live after it.                                                  *)
(***************************************************************************)
\* Mutant: only registers that have a later definition are joined.
DefinesBesideLater(d, x) ==
  \E b \in Block : \E k \in 1 .. Len(code[b]) :
    d \in InstrDef(code[b][k]) /\ x \in after[b][k] /\ x > d

DefinesBeside(d, x) ==
  \E b \in Block : \E k \in 1 .. Len(code[b]) :
    d \in InstrDef(code[b][k]) /\ x \in after[b][k]

\* Pattern 1 of precolor_build: the parameters that come in registers.
ParamPin(v) == IF v < np /\ v < Len(ArgReg) THEN ArgReg[v + 1] ELSE NoColour

\* Also the first lines of precolor_build, up to its passes.
BuildGraph ==
  /\ phase = "graph"
  /\ adj' = [v \in Vreg |->
               {x \in Node \ {v} : v \in Node /\ (DefinesBeside(v, x) \/ DefinesBeside(x, v))}]
  /\ pin' = [v \in Vreg |-> ParamPin(v)]
  /\ callLive' = {}
  /\ phase' = "scout" /\ blk' = 0 /\ ins' = 1
  /\ UNCHANGED <<funcVars, after, arg, simplify, result>>

-----------------------------------------------------------------------------
(***************************************************************************)
(* precolor_build: both passes visit the instructions in block-list order. *)
(***************************************************************************)
At(p) == phase = p /\ blk < NumBlocks /\ ins \in 1 .. Len(code[blk])
Here == code[blk][ins]
LiveAfterHere == after[blk][ins]

\* The inner loop runs off the end of a block.
NextBlock ==
  /\ phase \in {"scout", "paint"}
  /\ blk < NumBlocks /\ ins \notin 1 .. Len(code[blk])
  /\ blk' = blk + 1 /\ ins' = 1
  /\ UNCHANGED <<funcVars, phase, after, adj, arg, precolor, simplify, result>>

AcrossTo == (callLive \cup LiveAfterHere) \ InstrDef(Here)

\* Pass 1 collects the registers live across some call.
Scout ==
  /\ At("scout")
  /\ callLive' = IF Here.op = "CALL" THEN AcrossTo ELSE callLive
  /\ ins' = ins + 1
  /\ UNCHANGED <<funcVars, phase, after, adj, blk, arg, pin, simplify, result>>

ScoutDone ==
  /\ phase = "scout" /\ blk = NumBlocks
  /\ phase' = "paint" /\ blk' = 0 /\ ins' = 1 /\ arg' = 0
  /\ UNCHANGED <<funcVars, after, adj, precolor, simplify, result>>

\* Patterns 2 and 3: what a RET reads, and what a CALL returns unless it must
\* survive another call, is pinned to the result register.
Imposed(i) ==
  IF i.op = "RET" THEN InstrUses(i)
  ELSE IF i.op = "CALL" THEN InstrDef(i) \ callLive ELSE {}

PaintInstr ==
  /\ At("paint") /\ arg = 0
  /\ pin' = [v \in Vreg |-> IF v \in Imposed(Here) THEN ArgReg[1] ELSE pin[v]]
  /\ IF Here.op = "CALL" THEN arg' = 1 /\ UNCHANGED ins
     ELSE ins' = ins + 1 /\ UNCHANGED arg
  /\ UNCHANGED <<funcVars, phase, after, adj, blk, callLive, simplify, result>>

\* Another register pinned to want is live just before this call.
Conflict(v, want) ==
  \E o \in Node \ {v} :
    pin[o] = want /\ o \in LiveAfterHere \cup InstrUses(Here)

\* Mutant: an argument that must survive a later call is pinned too.
PinnableCallLive(v) == v # NoVreg /\ pin[v] = NoColour /\ ~Conflict(v, ArgReg[arg])
Pinnable(v) ==
  v # NoVreg /\ v \notin callLive /\ pin[v] = NoColour /\ ~Conflict(v, ArgReg[arg])

\* Pattern 4: the first arguments of a call, one at a time.
PaintArg ==
  /\ At("paint") /\ arg > 0
  /\ arg \in DOMAIN Here.src \cap DOMAIN ArgReg
  /\ LET v == Here.src[arg]
     IN  pin' = IF Pinnable(v) THEN [pin EXCEPT ![v] = ArgReg[arg]] ELSE pin
  /\ arg' = arg + 1
  /\ UNCHANGED <<funcVars, phase, after, adj, blk, ins, callLive, simplify, result>>

PaintCallDone ==
  /\ At("paint") /\ arg > 0
  /\ arg \notin DOMAIN Here.src \cap DOMAIN ArgReg
  /\ arg' = 0 /\ ins' = ins + 1
  /\ UNCHANGED <<funcVars, phase, after, adj, blk, precolor, simplify, result>>

-----------------------------------------------------------------------------
(***************************************************************************)
(* regalloc_build. Pinned registers stay in the graph and keep their pin.  *)
(***************************************************************************)
Fixed == {v \in Node : pin[v] # NoColour}

Remaining == Node \ (removed \cup Fixed)

K(v) == IF v \in callLive THEN KCallee ELSE KFull

PaintDone ==
  /\ phase = "paint" /\ blk = NumBlocks
  /\ phase' = "simplify"
  /\ colour' = pin /\ nSpills' = 0
  /\ wdeg' = [v \in Vreg |-> Cardinality(adj[v])]
  /\ removed' = {} /\ stack' = <<>>
  /\ UNCHANGED <<funcVars, after, adj, cursor, precolor>>

\* Mutant: the working degrees of the pinned neighbours stay as they are.
LessOneUnpinned(v, u) == u \in adj[v] \ (removed \cup Fixed)
LessOne(v, u) == u \in adj[v] \ removed

Push(v) ==
  /\ stack' = Append(stack, v)
  /\ removed' = removed \cup {v}
  /\ wdeg' = [u \in Vreg |-> IF LessOne(v, u) THEN wdeg[u] - 1 ELSE wdeg[u]]
  /\ UNCHANGED <<funcVars, phase, after, adj, cursor, precolor, result>>

LowDegree == {v \in Remaining : wdeg[v] < K(v)}

\* (a) the first node of low degree;
PushLow ==
  /\ phase = "simplify"
  /\ \E v \in LowDegree : (\A u \in LowDegree : v <= u) /\ Push(v)

\* (b) with none left, the first of the highest degree.
PushHigh ==
  /\ phase = "simplify" /\ LowDegree = {}
  /\ \E v \in Remaining :
       /\ \A u \in Remaining : wdeg[u] < wdeg[v] \/ (wdeg[u] = wdeg[v] /\ v <= u)
       /\ Push(v)

SimplifyDone ==
  /\ phase = "simplify" /\ Remaining = {}
  /\ phase' = "select"
  /\ UNCHANGED <<funcVars, after, adj, cursor, precolor, simplify, result>>

\* Mutant: r0 is offered after the others.
PrefWithZero(v) == IF v \in callLive THEN PrefCallee ELSE PrefNormal \o <<0>>
Pref(v) == IF v \in callLive THEN PrefCallee ELSE PrefNormal

\* Mutant: only the registers already chosen are forbidden, not the pinned.
ForbiddenUnpinned(v) == {colour[t] : t \in adj[v] \ Fixed}
Forbidden(v) == {colour[t] : t \in adj[v]}

\* Mutant: the last register of the preference is never tried.
FreeButLast(v) == {k \in 1 .. Len(Pref(v)) - 1 : Pref(v)[k] \notin Forbidden(v)}
Free(v) == {k \in DOMAIN Pref(v) : Pref(v)[k] \notin Forbidden(v)}

\* Phase 3 pops a node and gives it the first register of its preference
\* that no neighbour has.
Select ==
  /\ phase = "select" /\ stack # <<>>
  /\ LET v == stack[Len(stack)]
     IN  \/ \E k \in Free(v) :
              /\ \A j \in Free(v) : k <= j
              /\ colour' = [colour EXCEPT ![v] = Pref(v)[k]]
              /\ UNCHANGED nSpills
         \/ /\ Free(v) = {}
            /\ colour' = [colour EXCEPT ![v] = Spilled]
            /\ nSpills' = nSpills + 1
  /\ stack' = SubSeq(stack, 1, Len(stack) - 1)
  /\ UNCHANGED <<funcVars, phase, after, adj, cursor, precolor, wdeg, removed>>

SelectDone ==
  /\ phase = "select" /\ stack = <<>>
  /\ phase' = "coloured"
  /\ UNCHANGED <<funcVars, after, adj, cursor, precolor, simplify, result>>

Graph == Analyse \/ BuildGraph
Precolour ==
  \/ NextBlock \/ Scout \/ ScoutDone
  \/ PaintInstr \/ PaintArg \/ PaintCallDone \/ PaintDone
ColourNodes == PushLow \/ PushHigh \/ SimplifyDone \/ Select \/ SelectDone

Allocate == Graph \/ Precolour \/ ColourNodes

ASpec == Init /\ [][Allocate]_avars

-----------------------------------------------------------------------------
(***************************************************************************)
(* Properties.                                                             *)
(***************************************************************************)
Phases == {"liveness", "graph", "scout", "paint", "simplify", "select", "coloured"}

TypeOK ==
  /\ code \in Body /\ nv \in Nat /\ np \in Nat
  /\ phase \in Phases
  /\ \A b \in Block : after[b] \in [1 .. Len(code[b]) -> SUBSET Vreg]
  /\ adj \in [Vreg -> SUBSET Node]
  /\ blk \in 0 .. NumBlocks /\ ins \in Nat /\ arg \in Nat
  /\ callLive \in SUBSET Vreg
  /\ pin \in [Vreg -> Cells(ArgReg) \cup {NoColour}]
  /\ wdeg \in [Vreg -> Int] /\ removed \in SUBSET Node /\ stack \in Seq(Node)
  /\ colour \in [Vreg -> Colour] /\ nSpills \in Nat

Ended == phase = "coloured"

(***************************************************************************)
(* Two registers are joined exactly when both hold a value at some point   *)
(* (or one is written for nothing while the other holds one): no edge of   *)
(* the definition-based construction is missing, none is superfluous. The  *)
(* parameters, which no instruction defines, are joined to each other by   *)
(* nobody; their pins keep them apart.                                     *)
(***************************************************************************)
LiveTogether(a, b) ==
  \E c \in Block : \E k \in 1 .. Len(code[c]) :
    \/ {a, b} \subseteq after[c][k]
    \/ a \in InstrDef(code[c][k]) /\ b \in after[c][k]
    \/ b \in InstrDef(code[c][k]) /\ a \in after[c][k]

GraphExact ==
  Ended =>
    \A a, b \in Node :
      /\ b \in adj[a] <=> a \in adj[b]
      /\ {a, b} \subseteq 0 .. np - 1 \/ a = b \/ (b \in adj[a] <=> LiveTogether(a, b))

\* The one-pass scan, which takes a call's result out of what it collected
\* from earlier calls too, finds the registers live across a call exactly.
AcrossSomeCall(v) ==
  \E b \in Block : \E k \in 1 .. Len(code[b]) :
    code[b][k].op = "CALL" /\ v \in after[b][k] \ InstrDef(code[b][k])

CallLiveExact == Ended => callLive = {v \in Node : AcrossSomeCall(v)}

\* What the graph and the scan for calls say of the code, together.
InterferenceExact == GraphExact /\ CallLiveExact

\* The working degree of a node in the graph counts its neighbours in it,
\* so K is compared with what is left and not with a stale count.
DegreesFaithful ==
  phase = "simplify" =>
    \A v \in Node \ removed : wdeg[v] = Cardinality(adj[v] \ removed)

\* The select-stack holds every node that is to be coloured, once, and what
\* has left it has a colour or is spilled; nothing is coloured twice.
Pending == Cells(stack)
StackFaithful ==
  /\ \A j, k \in DOMAIN stack : stack[j] = stack[k] => j = k
  /\ phase = "simplify" => Pending = removed /\ removed \cap Fixed = {}
  /\ phase \in {"select", "coloured"} =>
       \A v \in Node : v \in Pending <=> colour[v] = NoColour

\* Simplification works on true degrees and hands over each node, once.
SimplifySound == DegreesFaithful /\ StackFaithful

(***************************************************************************)
(* A register the allocator chose is not that of any neighbour, coloured   *)
(* before, after or by the calling convention.                             *)
(***************************************************************************)
Shares(a, b) == b \in adj[a] /\ colour[a] = colour[b] /\ colour[a] \in PhysReg

ChosenProper ==
  phase \in {"select", "coloured"} =>
    \A a, b \in Node : Shares(a, b) => {a, b} \subseteq Fixed

\* Where two neighbours do share one, both are pinned to the result register
\* and one of them is the result of a call.
CallResult(v) ==
  \E b \in Block : \E k \in 1 .. Len(code[b]) :
    code[b][k].op = "CALL" /\ v \in InstrDef(code[b][k])

ClashOnlyOnResult ==
  Ended => \A a, b \in Node :
    Shares(a, b) =>
      {a, b} \subseteq Fixed /\ colour[a] = ArgReg[1] /\ (CallResult(a) \/ CallResult(b))

\* "Two vregs joined by an edge cannot share a physical register."
ProperColouring == Ended => \A a, b \in Node : ~Shares(a, b)

\* What is live across a call is where the callee preserves it, or spilled.
SurvivesCalls ==
  Ended => \A v \in Node : AcrossSomeCall(v) => colour[v] \in Cells(PrefCallee) \cup {Spilled}

\* Pinning loses no value across a call, and the only register that two
\* neighbours are ever pinned to is that of a result.
PinsSafe == ClashOnlyOnResult /\ SurvivesCalls

\* A node is spilled only for want of a register: neighbours hold all those
\* it may have; and the count main stops on is that of the spilled nodes.
SpillJustified ==
  Ended =>
    /\ nSpills = Cardinality({v \in Node : colour[v] = Spilled})
    /\ \A v \in Node : colour[v] = Spilled => Cells(Pref(v)) \subseteq Forbidden(v)
=============================================================================
