----------------------------- MODULE SpillLoop ------------------------------
(***************************************************************************)
(* The back-end loop of main.c for one function: allocate, and while some  *)
(* register is spilled, rewrite the code so that it lives in a stack slot  *)
(* (spill.c) and allocate again. Registers are taken from Vreg, which      *)
(* bounds how many the rewriting may add.                                  *)
(***************************************************************************)
EXTENDS Allocation, SequencesExt

VARIABLES
  orig,        \* the code as lowered (for the properties only)
  rounds,      \* spill_iter
  entries,     \* the spilled registers in the order of the rewriting
  slotOf       \* the slot each spill pointer addresses: <<round, register>>

lvars == <<orig, rounds, entries, slotOf>>
vars == <<avars, lvars>>

LoopInit ==
  /\ Init
  /\ orig = [code |-> code, nv |-> nv]
  /\ rounds = 0 /\ entries = <<>> /\ slotOf = <<>>

Allocating == Allocate /\ UNCHANGED lvars

-----------------------------------------------------------------------------
(***************************************************************************)
(* spill_rewrite, phase A: the spilled registers, cheapest first. The      *)
(* order qsort leaves equal costs in is not specified.                     *)
(***************************************************************************)
SpilledNodes == {v \in Node : colour[v] = Spilled}

\* count_use_def
UseDefCount(v) ==
  LET sites(i) == Cardinality(InstrDef(i) \cap {v})
                    + Cardinality({j \in DOMAIN i.src : i.src[j] = v})
      inBlock(c) == FoldLeft(LAMBDA n, i : n + sites(i), 0, c)
  IN  FoldLeft(LAMBDA n, c : n + inBlock(c), 0, [b \in 1 .. NumBlocks |-> code[b - 1]])

Degree(v) == Cardinality(adj[v])
\* use_def_count(v) / degree(v), or 1000 * use_def_count(v) for degree 0.
Cheaper(v, w) ==
  LET num(x) == IF Degree(x) > 0 THEN UseDefCount(x) ELSE 1000 * UseDefCount(x)
      den(x) == IF Degree(x) > 0 THEN Degree(x) ELSE 1
  IN  num(v) * den(w) < num(w) * den(v)

Collect ==
  /\ phase = "coloured" /\ nSpills > 0
  /\ \E order \in SetToSeqs(SpilledNodes) :
       /\ \A j, k \in DOMAIN order : j < k => ~Cheaper(order[k], order[j])
       /\ entries' = order
  /\ phase' = "rewrite" /\ blk' = 0 /\ ins' = 1
  /\ UNCHANGED <<funcVars, after, adj, arg, precolor, simplify, result,
                 orig, rounds, slotOf>>

(***************************************************************************)
(* Phase B: before an instruction, an addr_of and a load for every operand *)
(* that is spilled, in the order of the entries and then of the operands;  *)
(* after it, an addr_of and a store for a spilled destination.             *)
(***************************************************************************)
Slot(v) == <<rounds, v>>
Rank(v) == CHOOSE n \in DOMAIN entries : entries[n] = v

\* Mutant: only the first operand is looked at.
HitsOfFirst(i) == {k \in DOMAIN i.src : k = 1 /\ i.src[k] \in Cells(entries)}
Hits(i) == {k \in DOMAIN i.src : i.src[k] \in Cells(entries)}
\* The place of a hit in the order of the reloads, and how many there are.
Precedes(i, j, k) ==
  Rank(i.src[j]) < Rank(i.src[k]) \/ (i.src[j] = i.src[k] /\ j <= k)
Turn(i, k) == Cardinality({j \in Hits(i) : Precedes(i, j, k)})
Reloads(i) == Cardinality(Hits(i))
\* The spilled register an instruction writes.
Written(i) == InstrDef(i) \cap Cells(entries)

AddrOfSlot(p) == [op |-> "ADDR_OF", dst |-> p, src |-> <<NoVreg>>, tgt |-> <<>>]
LoadFrom(v, p) == [op |-> "LOAD", dst |-> v, src |-> <<p>>, tgt |-> <<>>]
StoreTo(p, v) == [op |-> "STORE", dst |-> NoVreg, src |-> <<p, v>>, tgt |-> <<>>]

\* The n-th reload of an instruction takes two fresh registers.
\* Mutant: the second is one too high.
ReloadShifted(n) == nv + 2 * n
Ptr(n) == nv + 2 * n - 2
Reload(n) == nv + 2 * n - 1

Patched(i) ==
  [k \in DOMAIN i.src |-> IF k \in Hits(i) THEN Reload(Turn(i, k)) ELSE i.src[k]]

Before(i) ==
  [m \in 1 .. 2 * Reloads(i) |->
     LET n == (m + 1) \div 2
     IN  IF m % 2 = 1 THEN AddrOfSlot(Ptr(n)) ELSE LoadFrom(Reload(n), Ptr(n))]

LastPtr(i) == Ptr(Reloads(i) + 1)
\* Mutant: a spilled definition is not written back.
NoWriteBack(i) == <<>>
WriteBack(i) ==
  IF Written(i) = {} THEN <<>> ELSE <<AddrOfSlot(LastPtr(i)), StoreTo(LastPtr(i), i.dst)>>

Fresh(i) == 2 * Reloads(i) + (IF Written(i) = {} THEN 0 ELSE 1)

\* Which slot is behind each of the new pointers, and all of them.
Pointers(i) ==
  [p \in {Ptr(Turn(i, k)) : k \in Hits(i)} \cup {LastPtr(i) : v \in Written(i)} |->
     IF p = LastPtr(i) THEN Slot(i.dst)
     ELSE Slot(i.src[CHOOSE k \in Hits(i) : Ptr(Turn(i, k)) = p])]
WithPointers(i) ==
  [p \in DOMAIN slotOf \cup DOMAIN Pointers(i) |->
     IF p \in DOMAIN Pointers(i) THEN Pointers(i)[p] ELSE slotOf[p]]

\* next, fetched before anything was inserted.
\* Mutant: one instruction short, the last one that was inserted.
ResumeShort(new) == ins + Len(new) - 1
Resume(new) == ins + Len(new)

Rewrite ==
  /\ At("rewrite")
  /\ LET i == Here
         new == Before(i) \o <<[i EXCEPT !.src = Patched(i)]>> \o WriteBack(i)
     IN  /\ nv' = nv + Fresh(i)
         /\ nv .. nv' - 1 \subseteq Vreg
         /\ code' = [code EXCEPT ![blk] =
                       SubSeq(@, 1, ins - 1) \o new \o SubSeq(@, ins + 1, Len(@))]
         /\ slotOf' = WithPointers(i)
         /\ ins' = Resume(new)
  /\ UNCHANGED <<np, phase, after, adj, blk, arg, precolor, simplify, result,
                 orig, rounds, entries>>

RewriteNextBlock ==
  /\ phase = "rewrite" /\ blk < NumBlocks /\ ins \notin 1 .. Len(code[blk])
  /\ blk' = blk + 1 /\ ins' = 1
  /\ UNCHANGED <<funcVars, phase, after, adj, arg, precolor, simplify, result, lvars>>

\* The pipeline starts again on the rewritten code.
Restart ==
  /\ phase = "rewrite" /\ blk = NumBlocks
  /\ phase' = "liveness" /\ rounds' = rounds + 1
  /\ UNCHANGED <<funcVars, after, adj, cursor, precolor, simplify, result,
                 orig, entries, slotOf>>

Finished == nSpills = 0
Finish ==
  /\ phase = "coloured" /\ Finished
  /\ phase' = "allocated"
  /\ UNCHANGED <<funcVars, after, adj, cursor, precolor, simplify, result, lvars>>

Next == Allocating \/ Collect \/ Rewrite \/ RewriteNextBlock \/ Restart \/ Finish

SafeSpec == LoopInit /\ [][Next]_vars
\* One thread runs the loop: nothing else is scheduled.
Spec == SafeSpec /\ WF_vars(Next)

-----------------------------------------------------------------------------
(***************************************************************************)
(* Properties.                                                             *)
(***************************************************************************)
LoopTypeOK ==
  /\ code \in Body /\ nv \in Nat
  /\ \A b \in Block : \A k \in DOMAIN code[b] :
       InstrDef(code[b][k]) \cup InstrUses(code[b][k]) \subseteq 0 .. nv - 1
  /\ phase \in Phases \cup {"rewrite", "allocated"}
  /\ rounds \in Nat
  /\ entries \in Seq(Node)
  /\ DOMAIN slotOf \subseteq Node
  /\ \A p \in DOMAIN slotOf : slotOf[p] \in (0 .. rounds) \X Node

(***************************************************************************)
(* Running the code in block-list order, which for the code of one         *)
(* expression visits definitions before reads. A value is named by the     *)
(* register it was computed in (<<v>>), the address of a spill slot by the *)
(* slot. place says where a register is; every call destroys "lost".       *)
(***************************************************************************)
Unknown == <<0, 0, 0>>
Straight(c) == FlattenSeq([b \in 1 .. NumBlocks |-> c[b - 1]])
Accesses(i, op) == i.op = op /\ i.src[1] \in DOMAIN slotOf
OfSlot(i) == i.op = "ADDR_OF" /\ i.dst \in DOMAIN slotOf

\* What the n-th instruction reads in v: what the last instruction before it
\* that wrote v's place left there, which for a reload is what was last
\* written back to the slot.
Reads(s, place(_), entry, lost) ==
  LET writes(m, r) == InstrDef(s[m]) # {} /\ place(s[m].dst) = r
      value[n \in DOMAIN s, v \in Node] ==
        LET r == place(v)
            W == {m \in 1 .. n - 1 : writes(m, r) \/ (s[m].op = "CALL" /\ r \in lost)}
            i == s[Max(W)]
            T == {t \in 1 .. Max(W) - 1 :
                    Accesses(s[t], "STORE") /\ slotOf[s[t].src[1]] = slotOf[i.src[1]]}
        IN  CASE W = {} -> IF r \in DOMAIN entry THEN entry[r] ELSE Unknown
              [] W # {} /\ ~writes(Max(W), r) -> Unknown
              [] W # {} /\ writes(Max(W), r) ->
                   IF OfSlot(i) THEN slotOf[i.dst]
                   ELSE IF ~Accesses(i, "LOAD") THEN <<i.dst>>
                   ELSE IF T = {} THEN Unknown
                   ELSE value[Max(T), s[Max(T)].src[2]]
  IN  [n \in DOMAIN s |->
         [j \in DOMAIN s[n].src |->
            IF s[n].src[j] = NoVreg THEN <<>> ELSE value[n, s[n].src[j]]]]

\* The instructions that were lowered, each with what it reads, provided that
\* every access to a slot is made through the address of that slot.
Run(c, place(_), entry, lost) ==
  LET s == Straight(c)
      in == Reads(s, place, entry, lost)
      slotCode(i) == OfSlot(i) \/ Accesses(i, "LOAD") \/ Accesses(i, "STORE")
      ran == [n \in DOMAIN s |-> [instr |-> s[n], in |-> in[n]]]
      kept == SelectSeq(ran, LAMBDA x : ~slotCode(x.instr))
  IN  [faithful |-> \A n \in DOMAIN s :
                      slotCode(s[n]) /\ ~OfSlot(s[n]) => in[n][1] = slotOf[s[n].src[1]],
       seen |-> [k \in DOMAIN kept |-> [kept[k].instr EXCEPT !.src = kept[k].in]]]

InPlace(v) == v
Lowered == Run(orig.code, InPlace, [v \in 0 .. np - 1 |-> <<v>>], {})

\* Rewriting changes no value that any instruction of the function reads.
ValuesPreserved ==
  phase = "liveness" => Run(code, InPlace, [v \in 0 .. np - 1 |-> <<v>>], {}) = Lowered

(***************************************************************************)
(* The end of it all: with every register replaced by the one it was given *)
(* and every call destroying what the callee need not preserve, each       *)
(* instruction still reads the values it read in the lowered code, unless  *)
(* two neighbours were pinned to one register.                             *)
(***************************************************************************)
ColourOf(v) == colour[v]
InArgReg == [r \in {ArgReg[k] : k \in {j \in DOMAIN ArgReg : j <= np}} |->
               <<(CHOOSE k \in DOMAIN ArgReg : ArgReg[k] = r) - 1>>]
MachineAgrees ==
  phase = "allocated" /\ ~(\E a, b \in Node : Shares(a, b)) =>
    Run(code, ColourOf, InArgReg, PhysReg \ Cells(PrefCallee)) = Lowered

\* The loop stops with a place for every register, and neighbours have one in
\* common only if the calling convention put both there.
Placed ==
  phase = "allocated" =>
    /\ \A v \in Node : colour[v] \in PhysReg
    /\ \A a, b \in Node : Shares(a, b) => {a, b} \subseteq Fixed

\* Through all rounds and in the allocated code every instruction reads what it
\* read in the code that was lowered.
ValuesKept == ValuesPreserved /\ Placed /\ MachineAgrees

\* A register that was given a slot is not spilled again: what is left of
\* its live range fits, whatever the round and the order of the rewriting.
NeverTwice ==
  phase = "coloured" =>
    \A v \in SpilledNodes : \A p \in DOMAIN slotOf : slotOf[p][2] # v

\* The loop ends: every function is allocated.
Converges == <>(phase = "allocated")
=============================================================================
