------------------------------ MODULE Liveness ------------------------------
(***************************************************************************)
(* ir_liveness_compute (src/CodeGen/RegAlloc/liveness.c): depth-first      *)
(* numbering of the blocks, use/def sets, a worklist in a circular array   *)
(* and the backward walk that gives the registers live after every         *)
(* instruction. The steps are those of the C loops: one visit of the       *)
(* recursion, one instruction, one block popped, one predecessor queued.   *)
(* The bitsets are sets of registers; allocation failure is left out.      *)
(***************************************************************************)
EXTENDS LiveRanges

CONSTANTS
  Bodies,                \* the function bodies considered
  NoBlock                \* an array cell that was never written

ASSUME BodiesAssumption == Bodies \subseteq Body
ASSUME NoBlockAssumption == NoBlock \notin Block

VARIABLES
  code,                  \* the body being analysed
  phase,                 \* which loop of the function is running
  stack, visited, post,  \* dfs_postorder: frames <<id, k>>, flags, output
  blk, ins,              \* cursor of the loops over the instructions
  use, def,              \* use[B], def[B]
  wl, head, tail, inWl,  \* circular worklist, its counters, in_wl flags
  todo,                  \* predecessors of the popped block still to visit
  liveIn, liveOut,       \* live_in[B], live_out[B]
  cur, after             \* live_cur; live_after of every instruction

dfsVars == <<stack, visited, post>>
scanVars == <<use, def>>
wlVars == <<wl, head, tail, inWl, todo>>
liveVars == <<liveIn, liveOut>>
afterVars == <<cur, after>>
vars == <<code, phase, dfsVars, blk, ins, scanVars, wlVars, liveVars,
          afterVars>>

Phases == {"dfs", "scan", "iterate", "backward", "done"}

-----------------------------------------------------------------------------
Init ==
  /\ code \in Bodies
  /\ phase = "dfs"
  /\ stack = <<<<Entry, 1>>>> /\ visited = {Entry} /\ post = <<>>
  /\ blk = 0 /\ ins = 1
  /\ use = [b \in Block |-> {}] /\ def = [b \in Block |-> {}]
  /\ wl = [k \in Block |-> NoBlock]
  /\ head = 0 /\ tail = 0 /\ inWl = {} /\ todo = {}
  /\ liveIn = [b \in Block |-> {}] /\ liveOut = [b \in Block |-> {}]
  /\ cur = {} /\ after = [b \in Block |-> [k \in 1 .. Len(code[b]) |-> {}]]

(***************************************************************************)
(* Step 3, dfs_postorder: the top frame looks at its next successor, or,   *)
(* with none left, is appended to post[] and returns.                      *)
(***************************************************************************)
Top == stack[Len(stack)]
TopSuccs == SuccIds(code[Top[1]])

Unseen(s) == s \notin visited

\* Mutant: the loop over the successors does not advance.
SameChild == Top[2]
NextChild == Top[2] + 1

DfsDescend ==
  /\ phase = "dfs" /\ stack # <<>>
  /\ Top[2] \in 1 .. Len(TopSuccs)
  /\ LET s == TopSuccs[Top[2]]
         advanced == [stack EXCEPT ![Len(stack)] = <<Top[1], NextChild>>]
     IN  IF Unseen(s)
         THEN /\ stack' = Append(advanced, <<s, 1>>)
              /\ visited' = visited \cup {s}
         ELSE stack' = advanced /\ UNCHANGED visited
  /\ UNCHANGED <<code, phase, post, blk, ins, scanVars, wlVars, liveVars,
                 afterVars>>

DfsReturn ==
  /\ phase = "dfs" /\ stack # <<>>
  /\ Top[2] \notin 1 .. Len(TopSuccs)
  /\ post' = Append(post, Top[1])
  /\ stack' = SubSeq(stack, 1, Len(stack) - 1)
  /\ UNCHANGED <<code, phase, visited, blk, ins, scanVars, wlVars, liveVars,
                 afterVars>>

DfsDone ==
  /\ phase = "dfs" /\ stack = <<>>
  /\ phase' = "scan"
  /\ UNCHANGED <<code, dfsVars, blk, ins, scanVars, wlVars, liveVars,
                 afterVars>>

(***************************************************************************)
(* Step 5: use[B] and def[B], instruction by instruction; the operands of  *)
(* an instruction are looked at before its destination.                    *)
(***************************************************************************)
\* Mutant: a use counts even after a definition in the block.
ExposedAll(i) == InstrUses(i)
Exposed(i) == InstrUses(i) \ def[blk]

ScanInstr ==
  /\ phase = "scan" /\ blk < NumBlocks /\ ins \in 1 .. Len(code[blk])
  /\ LET i == code[blk][ins]
     IN  /\ use' = [use EXCEPT ![blk] = @ \cup Exposed(i)]
         /\ def' = [def EXCEPT ![blk] = @ \cup InstrDef(i)]
  /\ ins' = ins + 1
  /\ UNCHANGED <<code, phase, dfsVars, blk, wlVars, liveVars, afterVars>>

ScanNextBlock ==
  /\ phase = "scan" /\ blk < NumBlocks /\ ins > Len(code[blk])
  /\ blk' = blk + 1 /\ ins' = 1
  /\ UNCHANGED <<code, phase, dfsVars, scanVars, wlVars, liveVars, afterVars>>

(***************************************************************************)
(* Step 6: the worklist starts with the visited blocks in reverse          *)
(* postorder.                                                              *)
(***************************************************************************)
Seed ==
  /\ phase = "scan" /\ blk = NumBlocks
  /\ phase' = "iterate"
  /\ wl' = [k \in Block |-> IF k < Len(post) THEN post[Len(post) - k]
                            ELSE wl[k]]
  /\ tail' = Len(post)
  /\ inWl' = {post[k] : k \in 1 .. Len(post)}
  /\ UNCHANGED <<code, dfsVars, blk, ins, scanVars, head, todo, liveVars,
                 afterVars>>

NewOut(id) == UNION {liveIn[s] : s \in SuccSet(code[id])}
\* Mutant: kills are dropped.
NewInNoKill(id) == use[id] \cup NewOut(id)
NewIn(id) == use[id] \cup (NewOut(id) \ def[id])
Changed(id) == NewIn(id) # liveIn[id]

\* Both branches of the test store the new live_out.
StoreOut(id) == liveOut' = [liveOut EXCEPT ![id] = NewOut(id)]

\* Pops a block and recomputes its two sets; a changed live-in set makes
\* every predecessor a candidate for the queue.
Pop ==
  /\ phase = "iterate" /\ todo = {} /\ head # tail
  /\ LET id == wl[head % NumBlocks]
     IN  /\ head' = head + 1
         /\ inWl' = inWl \ {id}
         /\ liveIn' = [liveIn EXCEPT ![id] = NewIn(id)]
         /\ StoreOut(id)
         /\ todo' = IF Changed(id) THEN Preds(code, id) ELSE {}
  /\ UNCHANGED <<code, phase, dfsVars, blk, ins, scanVars, wl, tail,
                 afterVars>>

\* Mutant: in_wl is not consulted before queueing.
AbsentAlways(pid) == pid \in Block
Absent(pid) == pid \notin inWl

\* One turn of the loop over pred_ids, which step 2 filled in id order.
EnqueuePred ==
  /\ phase = "iterate"
  /\ \E pid \in todo :
       /\ \A q \in todo : pid <= q
       /\ todo' = todo \ {pid}
       /\ IF Absent(pid)
          THEN /\ wl' = [wl EXCEPT ![tail % NumBlocks] = pid]
               /\ tail' = tail + 1
               /\ inWl' = inWl \cup {pid}
          ELSE UNCHANGED <<wl, tail, inWl>>
  /\ UNCHANGED <<code, phase, dfsVars, blk, ins, scanVars, head, liveVars,
                 afterVars>>

\* while (wl_head != wl_tail) ends; the walk of step 7 enters the first block.
WorklistEmpty ==
  /\ phase = "iterate" /\ todo = {} /\ head = tail
  /\ phase' = "backward"
  /\ blk' = 0 /\ ins' = Len(code[0]) /\ cur' = liveOut[0]
  /\ UNCHANGED <<code, dfsVars, scanVars, wlVars, liveVars, after>>

(***************************************************************************)
(* Step 7: backwards through every block from its live_out.                *)
(***************************************************************************)
\* Mutant: the definition is not removed on the way up.
BeforeNoKill(i) == cur \cup InstrUses(i)
Before(i) == (cur \ InstrDef(i)) \cup InstrUses(i)

BackInstr ==
  /\ phase = "backward" /\ ins > 0
  /\ LET i == code[blk][ins]
     IN  /\ after' = [after EXCEPT ![blk][ins] = cur]
         /\ cur' = Before(i)
  /\ ins' = ins - 1
  /\ UNCHANGED <<code, phase, dfsVars, blk, scanVars, wlVars, liveVars>>

BackNextBlock ==
  /\ phase = "backward" /\ ins = 0 /\ blk + 1 < NumBlocks
  /\ blk' = blk + 1 /\ ins' = Len(code[blk + 1]) /\ cur' = liveOut[blk + 1]
  /\ UNCHANGED <<code, phase, dfsVars, scanVars, wlVars, liveVars, after>>

BackDone ==
  /\ phase = "backward" /\ ins = 0 /\ blk + 1 = NumBlocks
  /\ phase' = "done"
  /\ UNCHANGED <<code, dfsVars, blk, ins, scanVars, wlVars, liveVars,
                 afterVars>>

Dfs == DfsDescend \/ DfsReturn \/ DfsDone
Scan == ScanInstr \/ ScanNextBlock
Iterate == Seed \/ Pop \/ EnqueuePred \/ WorklistEmpty
Backward == BackInstr \/ BackNextBlock \/ BackDone

Next == Dfs \/ Scan \/ Iterate \/ Backward

SafeSpec == Init /\ [][Next]_vars
\* The function runs until it returns: nothing else is scheduled.
Spec == SafeSpec /\ WF_vars(Next)

-----------------------------------------------------------------------------
(***************************************************************************)
(* Properties.                                                             *)
(***************************************************************************)
TypeOK ==
  /\ code \in Body
  /\ phase \in Phases
  /\ stack \in Seq(Block \X (Nat \ {0}))
  /\ visited \in SUBSET Block
  /\ post \in Seq(Block)
  /\ blk \in 0 .. NumBlocks /\ ins \in Nat
  /\ use \in [Block -> SUBSET Vreg] /\ def \in [Block -> SUBSET Vreg]
  /\ wl \in [Block -> Block \cup {NoBlock}]
  /\ head \in Nat /\ tail \in Nat
  /\ inWl \in SUBSET Block /\ todo \in SUBSET Block
  /\ liveIn \in [Block -> SUBSET Vreg] /\ liveOut \in [Block -> SUBSET Vreg]
  /\ cur \in SUBSET Vreg
  /\ after \in [Block -> Seq(SUBSET Vreg)]
  /\ \A b \in Block : Len(after[b]) = Len(code[b])

\* The abstract iteration this pass implements; its "in" is live_in.
A == INSTANCE Dataflow WITH in <- liveIn
Refines == A!SafeSpec
Reachable == A!Reachable

(***************************************************************************)
(* dfs_postorder writes every reachable block once, and only those, so     *)
(* post[] (nb cells) and rpo[] are never overrun and the worklist starts   *)
(* with all the code that can run.                                         *)
(***************************************************************************)
PostorderComplete ==
  phase \notin {"dfs"} =>
    /\ {post[k] : k \in 1 .. Len(post)} = Reachable
    /\ \A j, k \in 1 .. Len(post) : post[j] = post[k] => j = k

\* What makes it inductive: every visited block is either finished, with all
\* its successors visited, or on the stack, with those before its cursor.
DfsInv ==
  /\ Entry \in visited /\ visited \subseteq Reachable
  /\ visited = {post[k] : k \in 1 .. Len(post)}
                 \cup {stack[k][1] : k \in 1 .. Len(stack)}
  /\ \A j, k \in 1 .. Len(post) : post[j] = post[k] => j = k
  /\ \A j, k \in 1 .. Len(stack) : stack[j][1] = stack[k][1] => j = k
  /\ \A j \in 1 .. Len(post), k \in 1 .. Len(stack) : post[j] # stack[k][1]
  /\ \A k \in 1 .. Len(post) : SuccSet(code[post[k]]) \subseteq visited
  /\ \A k \in 1 .. Len(stack) :
       \A j \in 1 .. Len(SuccIds(code[stack[k][1]])) :
         j < stack[k][2] => SuccIds(code[stack[k][1]])[j] \in visited
  /\ phase # "dfs" => stack = <<>>

(***************************************************************************)
(* use[B] and def[B] describe the instructions scanned so far, and only    *)
(* complete sets reach the worklist.                                       *)
(***************************************************************************)
Scanned(b) ==
  IF phase \notin {"dfs", "scan"} \/ b < blk THEN Len(code[b])
  ELSE IF b = blk THEN ins - 1 ELSE 0

ScanInv ==
  /\ phase \in {"dfs", "scan"} /\ blk \in Block => ins \in 1 .. Len(code[blk]) + 1
  /\ \A b \in Block : /\ use[b] = A!ExposedUpTo(code[b], Scanned(b))
                      /\ def[b] = A!KilledUpTo(code[b], Scanned(b))

(***************************************************************************)
(* The circular queue: between head and tail lie exactly the blocks whose  *)
(* in_wl flag is set, each once; so at most nb cells are in use and an     *)
(* enqueue never overwrites a block that is still waiting.                 *)
(***************************************************************************)
Waiting == head .. tail - 1
QueueFaithful ==
  /\ head <= tail /\ tail - head <= NumBlocks
  /\ inWl = {wl[k % NumBlocks] : k \in Waiting}
  /\ \A j, k \in Waiting : wl[j % NumBlocks] = wl[k % NumBlocks] => j = k

(***************************************************************************)
(* A reachable block that is neither queued nor about to be looked at for  *)
(* queueing satisfies its equations with what is stored now: no update is  *)
(* lost between the write of a live-in set and the visit of its readers.   *)
(***************************************************************************)
Settled(b) ==
  /\ liveOut[b] = UNION {liveIn[s] : s \in SuccSet(code[b])}
  /\ liveIn[b] = use[b] \cup (liveOut[b] \ def[b])

NoLostUpdate ==
  phase \in {"iterate", "backward", "done"} =>
    \A b \in Reachable : b \notin inWl \cup todo => Settled(b)

\* The worklist starts with all the code that can run, holds each block it owes
\* a visit, once, and loses no update.
WorklistSound == PostorderComplete /\ QueueFaithful /\ NoLostUpdate

\* What the worklist computes is the least solution of the equations.
LeastSolution ==
  phase \in {"backward", "done"} =>
    A!Solves(liveIn, Reachable) /\ A!BelowEverySolution

\* The result handed to the interference builder is exact, instruction by
\* instruction, in all code that can run.
InstructionsExact ==
  phase = "done" => \A b \in Reachable : after[b] = LiveAfter(code)[b]

\* The pass returns: re-queueing predecessors does not go on forever.
Terminates == <>(phase = "done")
=============================================================================
