--------------------------- MODULE LivenessProofs ---------------------------
(***************************************************************************)
(* Liveness, for every number of blocks, every set of registers and every  *)
(* function body: the depth-first search finds exactly the reachable       *)
(* blocks, the circular queue never overflows or loses a block, the pass   *)
(* implements Dataflow, and what it stores is liveness by paths.           *)
(***************************************************************************)
EXTENDS Liveness, LiveRangesProofs

-----------------------------------------------------------------------------
(***************************************************************************)
(* Arithmetic of the circular array.                                       *)
(***************************************************************************)
LEMMA NoMultipleBelow ==
  ASSUME NEW n \in Nat \ {0}, NEW q \in Int, NEW d \in Int,
         d = n * q, 0 < d, d < n
  PROVE  FALSE
<1>1. CASE q <= 0
  <2>1. n * q <= 0
    BY <1>1
  <2>. QED
    BY <2>1
<1>2. CASE q >= 1
  <2>1. n * q >= n
    BY <1>2
  <2>. QED
    BY <2>1
<1>. QED
  BY <1>1, <1>2

\* Two counters less than n apart index different cells.
LEMMA DistinctCells ==
  ASSUME NEW n \in Nat \ {0}, NEW a \in Nat, NEW b \in Nat, a < b, b < a + n
  PROVE  a % n # b % n
<1>. SUFFICES ASSUME a % n = b % n PROVE FALSE
  OBVIOUS
<1>. DEFINE q == (b \div n) - (a \div n)
<1>1. a = n * (a \div n) + (a % n) /\ b = n * (b \div n) + (b % n)
  OBVIOUS
<1>2. b - a = n * q /\ q \in Int
  BY <1>1
<1>. HIDE DEF q
<1>. QED
  BY <1>2, NoMultipleBelow

LEMMA CellIsBlock ==
  ASSUME NEW k \in Nat PROVE k % NumBlocks \in Block
BY BlocksAssumption DEF Block

(***************************************************************************)
(* Pigeonhole: a run of n counters that index distinct blocks has at most  *)
(* as many members as there are blocks, fewer if some block is left out.   *)
(***************************************************************************)
LEMMA Pigeonhole ==
  ASSUME NEW lo \in Nat, NEW n \in Nat, NEW T \in SUBSET Block,
         NEW g \in [lo .. lo + n - 1 -> T],
         \A j, k \in lo .. lo + n - 1 : g[j] = g[k] => j = k
  PROVE  n <= Cardinality(T)
<1>1. IsFiniteSet(lo .. lo + n - 1) /\ Cardinality(lo .. lo + n - 1) = n
  BY FS_Interval
<1>2. IsFiniteSet(T) /\ Cardinality(T) \in Nat
  BY BlocksFinite, FS_Subset, FS_CardinalityType
<1>. SUFFICES ASSUME Cardinality(T) < n PROVE FALSE
  BY <1>2
<1>3. \E x, y \in lo .. lo + n - 1 : x # y /\ g[x] = g[y]
  BY <1>1, <1>2, FS_PigeonHole
<1>. QED
  BY <1>3

LEMMA AllButOne ==
  ASSUME NEW p \in Block PROVE Cardinality(Block \ {p}) = NumBlocks - 1
BY BlocksFinite, FS_RemoveElement

-----------------------------------------------------------------------------
(***************************************************************************)
(* Types and the queue, together: a popped cell holds a block because the  *)
(* queue is faithful, and the queue is because the search fills it so.     *)
(***************************************************************************)
(***************************************************************************)
(* The operators of the abstract specification are those of this one.      *)
(***************************************************************************)
ClosedSet(S) == Entry \in S /\ \A b \in S : SuccSet(code[b]) \subseteq S

LEMMA ReachableDef ==
  Reachable = {b \in Block : \A S \in SUBSET Block : ClosedSet(S) => b \in S}
BY DEF Reachable, A!Reachable, A!Closed, A!Block, A!Entry, A!SuccSet, A!SuccIds,
       ClosedSet, Block, Entry, SuccSet, SuccIds

\* The queue before the worklist starts.
QueueInv ==
  /\ QueueFaithful
  /\ phase \in {"dfs", "scan"} => head = 0 /\ tail = 0 /\ inWl = {} /\ todo = {}

\* The cursor of the last loop stays inside the function.
BackInv == phase = "backward" => blk \in Block /\ ins \in 0 .. Len(code[blk])

IInv == TypeOK /\ DfsInv /\ QueueInv /\ BackInv

LEMMA InitInv == Init => IInv
<1>. SUFFICES ASSUME Init PROVE IInv
  OBVIOUS
<1>1. TypeOK
  BY BodiesAssumption, BlocksAssumption DEF Init, TypeOK, Phases, Block, Entry, Body
<1>2. DfsInv
  <2>1. Entry \in Reachable
    BY ReachableDef, BlocksAssumption DEF ClosedSet, Block, Entry
  <2>. QED
    BY <2>1 DEF Init, DfsInv
<1>3. QueueInv
  BY BlocksAssumption DEF Init, QueueInv, QueueFaithful, Waiting, Block
<1>4. BackInv
  BY DEF Init, BackInv
<1>. QED
  BY <1>1, <1>2, <1>3, <1>4 DEF IInv

-----------------------------------------------------------------------------
(***************************************************************************)
(* The depth-first search.                                                 *)
(***************************************************************************)
Frame == Block \X (Nat \ {0})

LEMMA TopFacts ==
  ASSUME TypeOK, stack # <<>>
  PROVE  /\ Len(stack) \in Nat \ {0} /\ Top \in Frame /\ Top[1] \in Block
         /\ TopSuccs \in Seq(Block)
<1>1. Len(stack) \in Nat \ {0} /\ Top \in Frame /\ Top[1] \in Block
  BY DEF TypeOK, Top, Frame
<1>. QED
  BY <1>1, SuccsInBlock DEF TypeOK, TopSuccs, Body

LEMMA DescendType == TypeOK /\ DfsDescend => TypeOK'
<1>. SUFFICES ASSUME TypeOK, DfsDescend PROVE TypeOK'
  OBVIOUS
<1>. DEFINE s == TopSuccs[Top[2]]
            advanced == [stack EXCEPT ![Len(stack)] = <<Top[1], NextChild>>]
<1>1. s \in Block /\ <<Top[1], NextChild>> \in Frame
  BY TopFacts DEF DfsDescend, Frame, NextChild
<1>2. advanced \in Seq(Frame)
  BY <1>1, TopFacts, ExceptSeq DEF TypeOK, DfsDescend, Frame
<1>3. Append(advanced, <<s, 1>>) \in Seq(Frame)
  BY <1>1, <1>2 DEF Frame
<1>. HIDE DEF advanced
<1>4. stack' \in Seq(Frame) /\ visited' \in SUBSET Block
  BY <1>1, <1>2, <1>3 DEF DfsDescend, TypeOK, advanced
<1>. QED
  BY <1>4 DEF DfsDescend, TypeOK, Frame, scanVars, wlVars, liveVars, afterVars

LEMMA ReturnType == TypeOK /\ DfsReturn => TypeOK'
<1>. SUFFICES ASSUME TypeOK, DfsReturn PROVE TypeOK'
  OBVIOUS
<1>1. Append(post, Top[1]) \in Seq(Block)
  BY TopFacts DEF TypeOK, DfsReturn
<1>2. SubSeq(stack, 1, Len(stack) - 1) \in Seq(Frame)
  BY TopFacts, SubSeqProperties DEF TypeOK, DfsReturn, Frame
<1>. QED
  BY <1>1, <1>2 DEF DfsReturn, TypeOK, Frame, scanVars, wlVars, liveVars, afterVars

\* The blocks of a list, and those of a stack of frames.
Emitted(p) == {p[k] : k \in 1 .. Len(p)}
OnStack(t) == {t[k][1] : k \in 1 .. Len(t)}

LEMMA DescendDfsInv == TypeOK /\ DfsInv /\ DfsDescend => DfsInv'
<1>. SUFFICES ASSUME TypeOK, DfsInv, DfsDescend PROVE DfsInv'
  OBVIOUS
<1>. DEFINE top == Len(stack)
            s == TopSuccs[Top[2]]
            advanced == [stack EXCEPT ![top] = <<Top[1], Top[2] + 1>>]
<1>1. top \in Nat \ {0} /\ Top = stack[top] /\ Top \in Frame
  BY TopFacts DEF DfsDescend, Top
<1>2. /\ Len(advanced) = top
      /\ \A k \in 1 .. top : advanced[k][1] = stack[k][1]
      /\ \A k \in 1 .. top - 1 : advanced[k] = stack[k]
      /\ advanced[top][2] = stack[top][2] + 1
  BY <1>1 DEF TypeOK, Frame
<1>3. s \in Block /\ s \in SuccSet(code[Top[1]])
  BY <1>1, TopFacts, SMTT(30) DEF DfsDescend, TopSuccs, SuccSet
<1>4. Top[1] \in visited
  BY <1>1 DEF DfsInv
<1>5. s \in Reachable
  BY <1>3, <1>4, ReachableDef DEF DfsInv, ClosedSet
<1>6. code' = code /\ post' = post /\ phase' = phase /\ phase = "dfs"
  BY DEF DfsDescend
<1>7. Reachable' = Reachable
  BY <1>6 DEF Reachable, A!Reachable, A!Closed
<1>8. ASSUME NEW k \in 1 .. top,
             NEW j \in 1 .. Len(SuccIds(code[stack[k][1]])), j < advanced[k][2]
      PROVE  SuccIds(code[stack[k][1]])[j] \in visited \cup {s}
  <2>1. CASE j < stack[k][2]
    BY <1>1, <2>1 DEF DfsInv
  <2>2. CASE ~(j < stack[k][2])
    <3>1. k = top
      <4>1. k \in 1 .. top - 1 => advanced[k] = stack[k]
        BY <1>2
      <4>. QED
        BY <1>1, <1>8, <2>2, <4>1
    <3>2. j = Top[2]
      <4>1. stack[top][2] \in Nat /\ j \in Nat
        BY <1>1 DEF Frame
      <4>. QED
        BY <1>1, <1>2, <1>8, <2>2, <3>1, <4>1
    <3>. QED
      BY <1>1, <3>1, <3>2 DEF TopSuccs
  <2>. QED
    BY <2>1, <2>2
<1>. HIDE DEF advanced, s, top
<1>9. CASE s \in visited
  <2>1. stack' = advanced /\ visited' = visited
    BY <1>9 DEF DfsDescend, Unseen, NextChild, advanced, s, top
  <2>2. \A k \in 1 .. top : \A j \in 1 .. Len(SuccIds(code[advanced[k][1]])) :
          j < advanced[k][2] => SuccIds(code[advanced[k][1]])[j] \in visited
    BY <1>2, <1>8, <1>9
  <2>3. /\ Len(stack') = Len(stack)
        /\ \A k \in 1 .. Len(stack) : stack'[k][1] = stack[k][1]
    BY <1>1, <1>2, <2>1 DEF top
  <2>4. {stack'[k][1] : k \in 1 .. Len(stack')}
          = {stack[k][1] : k \in 1 .. Len(stack)}
    BY <2>3
  <2>5. \A j, k \in 1 .. Len(stack') : stack'[j][1] = stack'[k][1] => j = k
    BY <2>3 DEF DfsInv
  <2>6. \A j \in 1 .. Len(post), k \in 1 .. Len(stack') : post[j] # stack'[k][1]
    BY <2>3 DEF DfsInv
  <2>7. \A k \in 1 .. Len(stack') : \A j \in 1 .. Len(SuccIds(code[stack'[k][1]])) :
          j < stack'[k][2] => SuccIds(code[stack'[k][1]])[j] \in visited
    BY <1>1, <1>2, <2>1, <2>2 DEF top
  <2>8. visited' = {post'[k] : k \in 1 .. Len(post')}
                     \cup {stack'[k][1] : k \in 1 .. Len(stack')}
    <3>1. visited = Emitted(post) \cup OnStack(stack)
      BY DEF DfsInv, Emitted, OnStack
    <3>2. OnStack(stack') = OnStack(stack)
      BY <2>4 DEF OnStack
    <3>3. visited' = Emitted(post') \cup OnStack(stack')
      BY <1>6, <2>1, <3>1, <3>2
    <3>. QED
      BY <3>3 DEF Emitted, OnStack
  <2>9. /\ Entry \in visited' /\ visited' \subseteq Reachable
        /\ \A k \in 1 .. Len(post') : SuccSet(code'[post'[k]]) \subseteq visited'
        /\ \A j, k \in 1 .. Len(post') : post'[j] = post'[k] => j = k
    BY <1>6, <2>1 DEF DfsInv
  <2>10. /\ \A j \in 1 .. Len(post'), k \in 1 .. Len(stack') : post'[j] # stack'[k][1]
         /\ \A k \in 1 .. Len(stack') : \A j \in 1 .. Len(SuccIds(code'[stack'[k][1]])) :
              j < stack'[k][2] => SuccIds(code'[stack'[k][1]])[j] \in visited'
    BY <1>6, <2>1, <2>6, <2>7
  <2>. QED
    BY <1>6, <1>7, <2>5, <2>8, <2>9, <2>10 DEF DfsInv
<1>10. CASE s \notin visited
  <2>. DEFINE pushed == Append(advanced, <<s, 1>>)
  <2>1. stack' = pushed /\ visited' = visited \cup {s}
    BY <1>10 DEF DfsDescend, Unseen, NextChild, advanced, s, top
  <2>2. advanced \in Seq(Frame)
    BY <1>1, <1>3, ExceptSeq DEF advanced, top, TypeOK, Frame
  <2>3. /\ Len(pushed) = top + 1
        /\ \A k \in 1 .. top : pushed[k] = advanced[k]
        /\ pushed[top + 1] = <<s, 1>>
    BY <1>1, <1>2, <2>2
  <2>. HIDE DEF pushed
  <2>4. {pushed[k][1] : k \in 1 .. Len(pushed)}
          = {stack[k][1] : k \in 1 .. Len(stack)} \cup {s}
    BY <1>1, <1>2, <2>3 DEF top
  <2>5. \A k \in 1 .. top : stack[k][1] # s
    BY <1>10 DEF DfsInv, top
  <2>6. \A k \in 1 .. Len(post) : post[k] # s
    BY <1>10 DEF DfsInv
  <2>7. \A j, k \in 1 .. Len(pushed) : pushed[j][1] = pushed[k][1] => j = k
    BY <1>1, <1>2, <2>3, <2>5 DEF DfsInv, top
  <2>8. \A j \in 1 .. Len(post), k \in 1 .. Len(pushed) : post[j] # pushed[k][1]
    BY <1>1, <1>2, <2>3, <2>6 DEF DfsInv, top
  <2>9. \A k \in 1 .. Len(pushed) : \A j \in 1 .. Len(SuccIds(code[pushed[k][1]])) :
          j < pushed[k][2] => SuccIds(code[pushed[k][1]])[j] \in visited \cup {s}
    <3>. SUFFICES ASSUME NEW k \in 1 .. top + 1,
                         NEW j \in 1 .. Len(SuccIds(code[pushed[k][1]])),
                         j < pushed[k][2]
                  PROVE  SuccIds(code[pushed[k][1]])[j] \in visited \cup {s}
      BY <2>3
    <3>1. CASE k \in 1 .. top
      BY <1>2, <1>8, <2>3, <3>1
    <3>2. CASE k = top + 1
      <4>1. pushed[k][2] = 1 /\ j >= 1
        BY <2>3, <3>2
      <4>. QED
        BY <4>1
    <3>. QED
      BY <1>1, <3>1, <3>2
  <2>10. visited' = {post'[k] : k \in 1 .. Len(post')}
                      \cup {stack'[k][1] : k \in 1 .. Len(stack')}
    <3>1. visited = Emitted(post) \cup OnStack(stack)
      BY DEF DfsInv, Emitted, OnStack
    <3>2. OnStack(stack') = OnStack(stack) \cup {s}
      BY <2>1, <2>4 DEF OnStack
    <3>3. visited' = Emitted(post') \cup OnStack(stack')
      BY <1>6, <2>1, <3>1, <3>2
    <3>. QED
      BY <3>3 DEF Emitted, OnStack
  <2>11. Entry \in visited' /\ visited' \subseteq Reachable
    BY <1>5, <2>1 DEF DfsInv
  <2>12. /\ \A k \in 1 .. Len(post') : SuccSet(code'[post'[k]]) \subseteq visited'
         /\ \A j, k \in 1 .. Len(post') : post'[j] = post'[k] => j = k
    BY <1>6, <2>1 DEF DfsInv
  <2>13. /\ \A j, k \in 1 .. Len(stack') : stack'[j][1] = stack'[k][1] => j = k
         /\ \A j \in 1 .. Len(post'), k \in 1 .. Len(stack') : post'[j] # stack'[k][1]
    BY <1>6, <2>1, <2>7, <2>8
  <2>14. \A k \in 1 .. Len(stack') : \A j \in 1 .. Len(SuccIds(code'[stack'[k][1]])) :
           j < stack'[k][2] => SuccIds(code'[stack'[k][1]])[j] \in visited'
    BY <1>6, <2>1, <2>9
  <2>. QED
    BY <1>6, <1>7, <2>10, <2>11, <2>12, <2>13, <2>14 DEF DfsInv
<1>. QED
  BY <1>9, <1>10

LEMMA ReturnDfsInv == TypeOK /\ DfsInv /\ DfsReturn => DfsInv'
<1>. SUFFICES ASSUME TypeOK, DfsInv, DfsReturn PROVE DfsInv'
  OBVIOUS
<1>. DEFINE top == Len(stack)
<1>1. top \in Nat \ {0} /\ Top = stack[top] /\ Top \in Frame
  BY TopFacts DEF DfsReturn, Top
<1>2. /\ stack' = SubSeq(stack, 1, top - 1) /\ Len(stack') = top - 1
      /\ \A k \in 1 .. top - 1 : stack'[k] = stack[k]
  <2>1. stack \in Seq(Frame) /\ top - 1 \in Nat /\ top - 1 <= Len(stack)
    BY <1>1 DEF TypeOK, Frame
  <2>2. stack' = SubSeq(stack, 1, top - 1)
    BY DEF DfsReturn
  <2>. HIDE DEF top
  <2>. QED
    BY <2>1, <2>2
<1>3. /\ Len(post') = Len(post) + 1 /\ Len(post) \in Nat
      /\ \A k \in 1 .. Len(post) : post'[k] = post[k]
      /\ post'[Len(post) + 1] = Top[1]
  BY <1>1 DEF DfsReturn, TypeOK
<1>4. code' = code /\ visited' = visited /\ phase' = phase /\ phase = "dfs"
  BY DEF DfsReturn
<1>5. Reachable' = Reachable
  BY <1>4 DEF Reachable, A!Reachable, A!Closed
<1>6. SuccSet(code[Top[1]]) \subseteq visited
  <2>1. \A j \in 1 .. Len(TopSuccs) : j < Top[2]
    BY <1>1, TopFacts DEF DfsReturn, Frame
  <2>. QED
    BY <1>1, <2>1 DEF DfsInv, TopSuccs, SuccSet
<1>. HIDE DEF top
<1>7. visited = {post'[k] : k \in 1 .. Len(post')}
                  \cup {stack'[k][1] : k \in 1 .. Len(stack')}
  <2>1. visited = Emitted(post) \cup OnStack(stack)
    BY DEF DfsInv, Emitted, OnStack
  <2>2. Emitted(post') = Emitted(post) \cup {Top[1]}
    BY <1>3 DEF Emitted
  <2>3. OnStack(stack) = OnStack(stack') \cup {Top[1]}
    <3>1. \A k \in 1 .. top : k = top \/ k \in 1 .. top - 1
      BY <1>1
    <3>2. 1 .. top - 1 \subseteq 1 .. top /\ top \in 1 .. top
      BY <1>1
    <3>. QED
      BY <1>1, <1>2, <3>1, <3>2 DEF OnStack, top
  <2>4. visited = Emitted(post') \cup OnStack(stack')
    BY <2>1, <2>2, <2>3
  <2>. QED
    BY <2>4 DEF Emitted, OnStack
<1>a. \A k \in 1 .. Len(stack') : k \in 1 .. Len(stack) /\ stack'[k] = stack[k]
  <2>1. 1 .. Len(stack') \subseteq 1 .. Len(stack)
    BY <1>1, <1>2 DEF top
  <2>. QED
    BY <1>2, <2>1
<1>8. \A j, k \in 1 .. Len(post') : post'[j] = post'[k] => j = k
  BY <1>1, <1>3 DEF DfsInv, top
<1>9. \A j \in 1 .. Len(post'), k \in 1 .. Len(stack') : post'[j] # stack'[k][1]
  BY <1>1, <1>2, <1>3 DEF DfsInv, top
<1>10. \A k \in 1 .. Len(post') : SuccSet(code[post'[k]]) \subseteq visited
  BY <1>3, <1>6 DEF DfsInv
<1>11. \A j, k \in 1 .. Len(stack') : stack'[j][1] = stack'[k][1] => j = k
  BY <1>a DEF DfsInv
<1>12. \A k \in 1 .. Len(stack') : \A j \in 1 .. Len(SuccIds(code[stack'[k][1]])) :
         j < stack'[k][2] => SuccIds(code[stack'[k][1]])[j] \in visited
  <2>1. \A k \in 1 .. Len(stack) : \A j \in 1 .. Len(SuccIds(code[stack[k][1]])) :
          j < stack[k][2] => SuccIds(code[stack[k][1]])[j] \in visited
    BY DEF DfsInv
  <2>. QED
    BY <1>a, <2>1
<1>. QED
  BY <1>4, <1>5, <1>7, <1>8, <1>9, <1>10, <1>11, <1>12 DEF DfsInv

\* Every other step leaves the search alone.
LEMMA DfsStays ==
  ASSUME DfsInv, UNCHANGED <<code, dfsVars>>, phase' # "dfs" => stack = <<>>
  PROVE  DfsInv'
<1>1. /\ code' = code /\ stack' = stack /\ visited' = visited /\ post' = post
  BY DEF dfsVars
<1>2. Reachable' = Reachable
  BY <1>1 DEF Reachable, A!Reachable, A!Closed
<1>. QED
  BY <1>1, <1>2 DEF DfsInv

LEMMA DfsStepInv == TypeOK /\ DfsInv /\ QueueInv /\ Next => DfsInv'
<1>. SUFFICES ASSUME TypeOK, DfsInv, QueueInv, Next PROVE DfsInv'
  OBVIOUS
<1>1. CASE DfsDescend
  BY <1>1, DescendDfsInv
<1>2. CASE DfsReturn
  BY <1>2, ReturnDfsInv
<1>3. CASE DfsDone
  BY <1>3, DfsStays DEF DfsDone
<1>4. CASE Scan \/ Iterate \/ Backward
  <2>1. UNCHANGED <<code, dfsVars>> /\ phase # "dfs"
    BY <1>4 DEF Scan, ScanInstr, ScanNextBlock, Iterate, Seed, Pop, EnqueuePred,
                WorklistEmpty, Backward, BackInstr, BackNextBlock, BackDone
  <2>. QED
    BY <2>1, DfsStays DEF DfsInv
<1>. QED
  BY <1>1, <1>2, <1>3, <1>4 DEF Next, Dfs

-----------------------------------------------------------------------------
(***************************************************************************)
(* The queue.                                                              *)
(***************************************************************************)
LEMMA QueueStays ==
  ASSUME QueueInv, UNCHANGED wlVars,
         phase' \in {"dfs", "scan"} => phase \in {"dfs", "scan"}
  PROVE  QueueInv'
BY DEF QueueInv, QueueFaithful, Waiting, wlVars

\* The cell at the head holds a block whose flag is set.
LEMMA HeadIsQueued ==
  ASSUME TypeOK, QueueInv, head # tail
  PROVE  /\ head \in Waiting /\ wl[head % NumBlocks] \in inWl
         /\ wl[head % NumBlocks] \in Block
BY DEF TypeOK, QueueInv, QueueFaithful, Waiting

LEMMA PopQueue == TypeOK /\ QueueInv /\ Pop => QueueInv'
<1>. SUFFICES ASSUME TypeOK, QueueInv, Pop PROVE QueueInv'
  OBVIOUS
<1>. DEFINE id == wl[head % NumBlocks]
<1>1. head \in Waiting /\ id \in inWl
  BY HeadIsQueued DEF Pop
<1>2. /\ head' = head + 1 /\ tail' = tail /\ wl' = wl /\ inWl' = inWl \ {id}
      /\ phase' = phase /\ phase = "iterate" /\ head \in Nat /\ tail \in Nat
  BY DEF Pop, TypeOK
<1>3. Waiting' = Waiting \ {head}
  BY <1>1, <1>2 DEF Waiting
<1>4. head' <= tail' /\ tail' - head' <= NumBlocks
  <2>1. head < tail /\ tail - head <= NumBlocks /\ NumBlocks \in Nat
    BY <1>1, <1>2, BlocksAssumption DEF QueueInv, QueueFaithful, Waiting
  <2>. QED
    BY <1>2, <2>1
<1>5. inWl' = {wl'[k % NumBlocks] : k \in Waiting'}
  BY <1>1, <1>2, <1>3 DEF QueueInv, QueueFaithful
<1>6. \A j, k \in Waiting' : wl'[j % NumBlocks] = wl'[k % NumBlocks] => j = k
  BY <1>2, <1>3 DEF QueueInv, QueueFaithful
<1>7. phase' \notin {"dfs", "scan"}
  BY <1>2
<1>. QED
  BY <1>4, <1>5, <1>6, <1>7 DEF QueueInv, QueueFaithful

LEMMA SeedQueue == TypeOK /\ DfsInv /\ QueueInv /\ Seed => QueueInv'
<1>. SUFFICES ASSUME TypeOK, DfsInv, QueueInv, Seed PROVE QueueInv'
  OBVIOUS
<1>. DEFINE n == Len(post)
<1>1. n \in Nat /\ post \in Seq(Block)
  BY DEF TypeOK
<1>2. n <= NumBlocks
  <2>. DEFINE g == [k \in 0 .. 0 + n - 1 |-> post[k + 1]]
  <2>1. g \in [0 .. 0 + n - 1 -> Block]
    BY <1>1
  <2>2. \A j, k \in 0 .. 0 + n - 1 : g[j] = g[k] => j = k
    BY <1>1 DEF DfsInv
  <2>. HIDE DEF g, n
  <2>3. n <= Cardinality(Block)
    BY <1>1, <2>1, <2>2, Pigeonhole
  <2>. QED
    BY <2>3, BlocksFinite
<1>3. head' = 0 /\ tail' = n /\ inWl' = {post[k] : k \in 1 .. n}
  BY DEF Seed, QueueInv
<1>4. \A k \in 0 .. n - 1 : k % NumBlocks = k /\ wl'[k % NumBlocks] = post[n - k]
  <2>. TAKE k \in 0 .. n - 1
  <2>1. k \in Nat /\ k < n /\ k < NumBlocks /\ NumBlocks \in Nat
    BY <1>1, <1>2, BlocksAssumption
  <2>2. k \in Block /\ k % NumBlocks = k
    BY <2>1 DEF Block
  <2>. QED
    BY <2>1, <2>2 DEF Seed
<1>. HIDE DEF n
<1>5. Waiting' = 0 .. n - 1
  BY <1>3 DEF Waiting
<1>6. inWl' = {wl'[k % NumBlocks] : k \in 0 .. n - 1}
  <2>1. \A k \in 1 .. n : n - k \in 0 .. n - 1 /\ n - (n - k) = k
    BY <1>1
  <2>2. \A k \in 0 .. n - 1 : n - k \in 1 .. n
    BY <1>1
  <2>3. \A k \in 1 .. n : post[k] = wl'[(n - k) % NumBlocks]
    BY <1>4, <2>1
  <2>. QED
    BY <1>3, <1>4, <2>1, <2>2, <2>3
<1>7. \A j, k \in 0 .. n - 1 : wl'[j % NumBlocks] = wl'[k % NumBlocks] => j = k
  <2>1. \A j, k \in 0 .. n - 1 : post[n - j] = post[n - k] => n - j = n - k
    BY <1>1 DEF DfsInv, n
  <2>. QED
    BY <1>1, <1>4, <2>1
<1>8. phase' = "iterate"
  BY DEF Seed
<1>. QED
  <2>1. head' <= tail' /\ tail' - head' <= NumBlocks
    BY <1>1, <1>2, <1>3
  <2>2. /\ inWl' = {wl'[k % NumBlocks] : k \in Waiting'}
        /\ \A j, k \in Waiting' : wl'[j % NumBlocks] = wl'[k % NumBlocks] => j = k
    BY <1>5, <1>6, <1>7
  <2>3. phase' \notin {"dfs", "scan"}
    BY <1>8
  <2>. QED
    BY <2>1, <2>2, <2>3 DEF QueueInv, QueueFaithful

LEMMA EnqueueQueue == TypeOK /\ QueueInv /\ EnqueuePred => QueueInv'
<1>. SUFFICES ASSUME TypeOK, QueueInv, EnqueuePred PROVE QueueInv'
  OBVIOUS
<1>. DEFINE cell == tail % NumBlocks
<1>0. PICK pid \in todo :
         IF Absent(pid)
         THEN /\ wl' = [wl EXCEPT ![tail % NumBlocks] = pid]
              /\ tail' = tail + 1
              /\ inWl' = inWl \cup {pid}
         ELSE UNCHANGED <<wl, tail, inWl>>
  BY DEF EnqueuePred
<1>1. head \in Nat /\ tail \in Nat /\ wl \in [Block -> Block \cup {NoBlock}]
      /\ phase' = phase /\ phase = "iterate" /\ head' = head /\ inWl \subseteq Block
  BY DEF EnqueuePred, TypeOK
<1>2. CASE ~Absent(pid)
  <2>1. UNCHANGED <<wl, tail, inWl>>
    BY <1>0, <1>2
  <2>. QED
    BY <1>1, <2>1 DEF QueueInv, QueueFaithful, Waiting
<1>3. CASE Absent(pid)
  <2>1. /\ wl' = [wl EXCEPT ![cell] = pid] /\ tail' = tail + 1
        /\ inWl' = inWl \cup {pid} /\ pid \notin inWl
    BY <1>0, <1>3 DEF Absent
  <2>2. pid \in Block /\ cell \in Block
    BY <1>1, CellIsBlock DEF TypeOK
  <2>. HIDE DEF cell
  <2>3. tail - head < NumBlocks
    <3>. DEFINE g == [k \in head .. head + (tail - head) - 1 |-> wl[k % NumBlocks]]
    <3>1. tail - head \in Nat /\ head .. head + (tail - head) - 1 = Waiting
      BY <1>1 DEF QueueInv, QueueFaithful, Waiting
    <3>2. g \in [head .. head + (tail - head) - 1 -> Block \ {pid}]
      BY <1>1, <2>1, <3>1 DEF QueueInv, QueueFaithful
    <3>3. \A j, k \in head .. head + (tail - head) - 1 : g[j] = g[k] => j = k
      BY <3>1 DEF QueueInv, QueueFaithful
    <3>. HIDE DEF g
    <3>4. tail - head <= Cardinality(Block \ {pid})
      BY <1>1, <3>1, <3>2, <3>3, Pigeonhole
    <3>. QED
      BY <1>1, <2>2, <3>4, AllButOne, BlocksAssumption
  <2>4. /\ \A k \in Waiting : wl'[k % NumBlocks] = wl[k % NumBlocks]
        /\ wl'[tail % NumBlocks] = pid
    <3>1. ASSUME NEW k \in Waiting PROVE k % NumBlocks # cell
      <4>1. k \in Nat /\ k < tail /\ tail < k + NumBlocks
        BY <1>1, <2>3, BlocksAssumption DEF Waiting
      <4>. QED
        BY <1>1, <4>1, DistinctCells, BlocksAssumption DEF cell
    <3>. QED
      BY <1>1, <2>1, <2>2, <3>1, CellIsBlock DEF Waiting, cell
  <2>5. Waiting' = Waiting \cup {tail} /\ tail \notin Waiting
    BY <1>1, <2>1 DEF Waiting, QueueInv, QueueFaithful
  <2>6. inWl' = {wl'[k % NumBlocks] : k \in Waiting'}
    <3>1. inWl = {wl[k % NumBlocks] : k \in Waiting}
      BY DEF QueueInv, QueueFaithful
    <3>2. {wl[k % NumBlocks] : k \in Waiting} = {wl'[k % NumBlocks] : k \in Waiting}
      BY <2>4
    <3>. QED
      BY <2>1, <2>4, <2>5, <3>1, <3>2
  <2>7. \A j, k \in Waiting' : wl'[j % NumBlocks] = wl'[k % NumBlocks] => j = k
    <3>1. \A k \in Waiting : wl[k % NumBlocks] # pid
      BY <2>1 DEF QueueInv, QueueFaithful
    <3>. QED
      BY <2>4, <2>5, <3>1 DEF QueueInv, QueueFaithful
  <2>8. head' <= tail' /\ tail' - head' <= NumBlocks
    BY <1>1, <2>1, <2>3, BlocksAssumption DEF QueueInv, QueueFaithful
  <2>. QED
    BY <1>1, <2>6, <2>7, <2>8 DEF QueueInv, QueueFaithful
<1>. QED
  BY <1>2, <1>3

LEMMA QueueStepInv == TypeOK /\ DfsInv /\ QueueInv /\ Next => QueueInv'
<1>. SUFFICES ASSUME TypeOK, DfsInv, QueueInv, Next PROVE QueueInv'
  OBVIOUS
<1>1. CASE Seed
  BY <1>1, SeedQueue
<1>2. CASE Pop
  BY <1>2, PopQueue
<1>3. CASE EnqueuePred
  BY <1>3, EnqueueQueue
<1>4. CASE Dfs \/ Scan \/ WorklistEmpty \/ Backward
  <2>1. /\ UNCHANGED wlVars
        /\ phase' \in {"dfs", "scan"} => phase \in {"dfs", "scan"}
    BY <1>4 DEF Dfs, DfsDescend, DfsReturn, DfsDone, Scan, ScanInstr,
                ScanNextBlock, WorklistEmpty, Backward, BackInstr, BackNextBlock,
                BackDone
  <2>. QED
    BY <2>1, QueueStays
<1>. QED
  BY <1>1, <1>2, <1>3, <1>4 DEF Next, Iterate

-----------------------------------------------------------------------------
(***************************************************************************)
(* Types of the steps after the search.                                    *)
(***************************************************************************)
LEMMA CodeTypes ==
  ASSUME TypeOK, NEW b \in Block
  PROVE  /\ code[b] \in Seq(Instr) /\ Len(code[b]) \in Nat
         /\ \A k \in 1 .. Len(code[b]) : code[b][k] \in Instr
         /\ SuccSet(code[b]) \subseteq Block
<1>1. code[b] \in Seq(Instr)
  BY DEF TypeOK, Body
<1>. QED
  BY <1>1, SuccsInBlock

LEMMA ScanInstrType == TypeOK /\ ScanInstr => TypeOK'
<1>. SUFFICES ASSUME TypeOK, ScanInstr PROVE TypeOK'
  OBVIOUS
<1>1. blk \in Block
  BY BlocksAssumption DEF ScanInstr, TypeOK, Block
<1>2. code[blk][ins] \in Instr
  BY <1>1, CodeTypes DEF ScanInstr
<1>3. use' \in [Block -> SUBSET Vreg] /\ def' \in [Block -> SUBSET Vreg]
  BY <1>1, <1>2, OperandsAreRegisters DEF ScanInstr, TypeOK, Exposed
<1>. QED
  BY <1>3 DEF ScanInstr, TypeOK, dfsVars, wlVars, liveVars, afterVars

LEMMA SeedType == TypeOK /\ Seed => TypeOK'
<1>. SUFFICES ASSUME TypeOK, Seed PROVE TypeOK'
  OBVIOUS
<1>1. post \in Seq(Block) /\ Len(post) \in Nat
      /\ \A k \in 1 .. Len(post) : post[k] \in Block
  BY DEF TypeOK
<1>2. \A k \in Block : k < Len(post) => Len(post) - k \in 1 .. Len(post)
  BY <1>1 DEF Block
<1>3. wl' \in [Block -> Block \cup {NoBlock}] /\ inWl' \in SUBSET Block
  BY <1>1, <1>2 DEF Seed, TypeOK
<1>. QED
  BY <1>1, <1>3 DEF Seed, TypeOK, Phases, dfsVars, scanVars, liveVars, afterVars

LEMMA PopType == TypeOK /\ QueueInv /\ Pop => TypeOK'
<1>. SUFFICES ASSUME TypeOK, QueueInv, Pop PROVE TypeOK'
  OBVIOUS
<1>. DEFINE id == wl[head % NumBlocks]
<1>1. id \in Block
  BY HeadIsQueued DEF Pop
<1>. HIDE DEF id
<1>2. NewOut(id) \in SUBSET Vreg
  BY <1>1, CodeTypes DEF NewOut, TypeOK
<1>3. NewIn(id) \in SUBSET Vreg
  BY <1>1, <1>2 DEF NewIn, TypeOK
<1>4. liveIn' \in [Block -> SUBSET Vreg] /\ liveOut' \in [Block -> SUBSET Vreg]
  BY <1>2, <1>3 DEF Pop, StoreOut, TypeOK, id
<1>5. todo' \in SUBSET Block /\ inWl' \in SUBSET Block /\ head' \in Nat
  BY DEF Pop, Preds, TypeOK
<1>. QED
  BY <1>4, <1>5 DEF Pop, TypeOK, dfsVars, scanVars, afterVars

LEMMA EnqueueType == TypeOK /\ EnqueuePred => TypeOK'
<1>. SUFFICES ASSUME TypeOK, EnqueuePred PROVE TypeOK'
  OBVIOUS
<1>1. /\ wl' \in [Block -> Block \cup {NoBlock}] /\ tail' \in Nat
      /\ inWl' \in SUBSET Block /\ todo' \in SUBSET Block
  <2>0. PICK pid \in todo :
           /\ todo' = todo \ {pid}
           /\ IF Absent(pid)
              THEN /\ wl' = [wl EXCEPT ![tail % NumBlocks] = pid]
                   /\ tail' = tail + 1
                   /\ inWl' = inWl \cup {pid}
              ELSE UNCHANGED <<wl, tail, inWl>>
    BY DEF EnqueuePred
  <2>1. pid \in Block /\ tail % NumBlocks \in Block /\ tail \in Nat
    BY CellIsBlock DEF TypeOK
  <2>2. /\ wl \in [Block -> Block \cup {NoBlock}]
        /\ inWl \in SUBSET Block /\ todo \in SUBSET Block
    BY DEF TypeOK
  <2>3. CASE Absent(pid)
    <3>. DEFINE cell == tail % NumBlocks
    <3>1. wl' = [wl EXCEPT ![cell] = pid] /\ cell \in Block
      BY <2>0, <2>1, <2>3
    <3>. HIDE DEF cell
    <3>2. wl' \in [Block -> Block \cup {NoBlock}]
      BY <2>1, <2>2, <3>1
    <3>. QED
      BY <2>0, <2>1, <2>2, <2>3, <3>2
  <2>4. CASE ~Absent(pid)
    BY <2>0, <2>1, <2>2, <2>4
  <2>. QED
    BY <2>3, <2>4
<1>. QED
  BY <1>1 DEF EnqueuePred, TypeOK, dfsVars, scanVars, liveVars, afterVars

LEMMA BackInstrType == TypeOK /\ BackInv /\ BackInstr => TypeOK'
<1>. SUFFICES ASSUME TypeOK, BackInv, BackInstr PROVE TypeOK'
  OBVIOUS
<1>1. blk \in Block /\ ins \in 1 .. Len(code[blk]) /\ ins - 1 \in Nat
  BY CodeTypes DEF BackInv, BackInstr, TypeOK
<1>2. code[blk][ins] \in Instr
  BY <1>1, CodeTypes
<1>3. cur' \in SUBSET Vreg
  BY <1>2, OperandsAreRegisters DEF BackInstr, Before, TypeOK
<1>4. [after[blk] EXCEPT ![ins] = cur] \in Seq(SUBSET Vreg)
      /\ Len([after[blk] EXCEPT ![ins] = cur]) = Len(code[blk])
  BY <1>1 DEF TypeOK
<1>5. after' = [after EXCEPT ![blk] = [after[blk] EXCEPT ![ins] = cur]]
  BY DEF BackInstr
<1>6. after' \in [Block -> Seq(SUBSET Vreg)]
      /\ \A b \in Block : Len(after'[b]) = Len(code[b])
  BY <1>1, <1>4, <1>5 DEF TypeOK
<1>7. code' = code /\ ins' = ins - 1
  BY DEF BackInstr
<1>. QED
  BY <1>1, <1>3, <1>6, <1>7 DEF BackInstr, TypeOK, dfsVars, scanVars, wlVars, liveVars

LEMMA TypeStepInv == TypeOK /\ QueueInv /\ BackInv /\ Next => TypeOK'
<1>. SUFFICES ASSUME TypeOK, QueueInv, BackInv, Next PROVE TypeOK'
  OBVIOUS
<1>. USE DEF dfsVars, scanVars, wlVars, liveVars, afterVars
<1>1. CASE DfsDescend
  BY <1>1, DescendType
<1>2. CASE DfsReturn
  BY <1>2, ReturnType
<1>3. CASE DfsDone
  BY <1>3 DEF DfsDone, TypeOK, Phases
<1>4. CASE ScanInstr
  BY <1>4, ScanInstrType
<1>5. CASE ScanNextBlock
  BY <1>5, BlocksAssumption DEF ScanNextBlock, TypeOK
<1>6. CASE Seed
  BY <1>6, SeedType
<1>7. CASE Pop
  BY <1>7, PopType
<1>8. CASE EnqueuePred
  BY <1>8, EnqueueType
<1>9. CASE WorklistEmpty
  <2>1. 0 \in Block /\ 0 \in 0 .. NumBlocks
    BY BlocksAssumption DEF Block
  <2>2. Len(code[0]) \in Nat /\ liveOut[0] \in SUBSET Vreg
    BY <2>1, CodeTypes DEF TypeOK
  <2>. QED
    BY <1>9, <2>1, <2>2 DEF WorklistEmpty, TypeOK, Phases
<1>10. CASE BackInstr
  BY <1>10, BackInstrType
<1>11. CASE BackNextBlock
  <2>1. blk + 1 \in Block /\ blk + 1 \in 0 .. NumBlocks
    BY <1>11, BlocksAssumption DEF BackNextBlock, TypeOK, Block
  <2>2. Len(code[blk + 1]) \in Nat /\ liveOut[blk + 1] \in SUBSET Vreg
    BY <2>1, CodeTypes DEF TypeOK
  <2>. QED
    BY <1>11, <2>1, <2>2 DEF BackNextBlock, TypeOK
<1>12. CASE BackDone
  BY <1>12 DEF BackDone, TypeOK, Phases
<1>. QED
  BY <1>1, <1>2, <1>3, <1>4, <1>5, <1>6, <1>7, <1>8, <1>9, <1>10, <1>11, <1>12
     DEF Next, Dfs, Scan, Iterate, Backward

LEMMA BackStepInv == TypeOK /\ BackInv /\ Next => BackInv'
<1>. SUFFICES ASSUME TypeOK, BackInv, Next PROVE BackInv'
  OBVIOUS
<1>1. CASE WorklistEmpty
  <2>1. 0 \in Block
    BY BlocksAssumption DEF Block
  <2>2. Len(code[0]) \in Nat
    BY <2>1, CodeTypes
  <2>. QED
    BY <1>1, <2>1, <2>2 DEF WorklistEmpty, BackInv
<1>2. CASE BackInstr
  <2>1. blk \in Block /\ Len(code[blk]) \in Nat /\ ins \in 0 .. Len(code[blk])
    BY <1>2, CodeTypes DEF BackInv, BackInstr
  <2>. QED
    BY <1>2, <2>1 DEF BackInstr, BackInv
<1>3. CASE BackNextBlock
  <2>1. blk + 1 \in Block
    BY <1>3, BlocksAssumption DEF BackNextBlock, TypeOK, Block
  <2>2. Len(code[blk + 1]) \in Nat
    BY <2>1, CodeTypes
  <2>. QED
    BY <1>3, <2>1, <2>2 DEF BackNextBlock, BackInv
<1>4. CASE Dfs \/ Scan \/ Seed \/ Pop \/ EnqueuePred \/ BackDone
  <2>1. phase' # "backward"
    BY <1>4 DEF Dfs, DfsDescend, DfsReturn, DfsDone, Scan, ScanInstr,
                ScanNextBlock, Seed, Pop, EnqueuePred, BackDone
  <2>. QED
    BY <2>1 DEF BackInv
<1>. QED
  BY <1>1, <1>2, <1>3, <1>4 DEF Next, Iterate, Backward

-----------------------------------------------------------------------------
(***************************************************************************)
(* The invariant and what follows from it.                                 *)
(***************************************************************************)
LEMMA StepInv == IInv /\ [Next]_vars => IInv'
<1>. SUFFICES ASSUME IInv, [Next]_vars PROVE IInv'
  OBVIOUS
<1>1. CASE Next
  BY <1>1, TypeStepInv, DfsStepInv, QueueStepInv, BackStepInv DEF IInv
<1>2. CASE UNCHANGED vars
  <2>1. DfsInv'
    BY <1>2, DfsStays DEF vars, IInv, DfsInv
  <2>2. QueueInv'
    BY <1>2, QueueStays DEF vars, IInv
  <2>. QED
    BY <1>2, <2>1, <2>2 DEF vars, dfsVars, scanVars, wlVars, liveVars, afterVars,
                            IInv, TypeOK, BackInv
<1>. QED
  BY <1>1, <1>2

THEOREM Invariant == SafeSpec => []IInv
BY InitInv, StepInv, PTL DEF SafeSpec

(***************************************************************************)
(* Every variable of the pass keeps its type; in particular every popped   *)
(* cell of the circular array holds a block that was written to it.        *)
(***************************************************************************)
THEOREM TypeCorrect == SafeSpec => []TypeOK
<1>1. IInv => TypeOK
  BY DEF IInv
<1>. QED
  BY <1>1, Invariant, PTL

(***************************************************************************)
(* The nb cells of the worklist are enough, whatever the control flow: no  *)
(* enqueue overwrites a block still waiting, and in_wl never disagrees     *)
(* with what is in the queue.                                              *)
(***************************************************************************)
THEOREM QueueCorrect == SafeSpec => []QueueFaithful
<1>1. IInv => QueueFaithful
  BY DEF IInv, QueueInv
<1>. QED
  BY <1>1, Invariant, PTL

(***************************************************************************)
(* The search numbers the reachable blocks, all of them, each once.        *)
(***************************************************************************)
THEOREM SearchComplete == SafeSpec => []PostorderComplete
<1>1. IInv => PostorderComplete
  <2>. SUFFICES ASSUME IInv, phase # "dfs"
                PROVE  /\ {post[k] : k \in 1 .. Len(post)} = Reachable
                       /\ \A j, k \in 1 .. Len(post) : post[j] = post[k] => j = k
    BY DEF PostorderComplete
  <2>1. visited = {post[k] : k \in 1 .. Len(post)}
    BY DEF IInv, DfsInv
  <2>2. ClosedSet(visited) /\ visited \in SUBSET Block
    BY <2>1 DEF ClosedSet, IInv, DfsInv, TypeOK
  <2>3. Reachable \subseteq visited
    BY <2>2, ReachableDef
  <2>. QED
    BY <2>1, <2>3 DEF IInv, DfsInv
<1>. QED
  BY <1>1, Invariant, PTL

-----------------------------------------------------------------------------
(***************************************************************************)
(* The worklist is an implementation of the chaotic iteration of Dataflow, *)
(* and loses no update; hence it stops at the least solution, which is     *)
(* liveness by paths, and so is what the walk of step 7 stores.            *)
(***************************************************************************)

-----------------------------------------------------------------------------
(***************************************************************************)
(* The operators of Dataflow in terms of those of Liveness.                *)
(***************************************************************************)
LEMMA SameOperators ==
  /\ A!Body = Body /\ A!Block = Block
  /\ \A c : A!SuccSet(c) = SuccSet(c)
  /\ \A i : A!InstrDef(i) = InstrDef(i) /\ A!InstrUses(i) = InstrUses(i)
BY DEF A!Body, Body, A!Block, Block, A!SuccSet, SuccSet, A!SuccIds, SuccIds,
       A!InstrDef, InstrDef, A!InstrUses, InstrUses, A!Terminators, Terminators,
       A!Instr, Instr, A!Opcodes, Opcodes, A!Operand, Operand

LEMMA ExposedDef ==
  ASSUME NEW c, NEW n
  PROVE  /\ A!ExposedUpTo(c, n) =
              {v \in Vreg : \E k \in 1 .. n :
                  v \in InstrUses(c[k]) /\ \A j \in 1 .. k - 1 : v \notin InstrDef(c[j])}
         /\ A!KilledUpTo(c, n) =
              {v \in Vreg : \E k \in 1 .. n : v \in InstrDef(c[k])}
BY SameOperators DEF A!ExposedUpTo, A!KilledUpTo

\* One more instruction: what ScanInstr adds to the two sets.
LEMMA OneMore ==
  ASSUME NEW c \in Seq(Instr), NEW n \in Nat, n + 1 <= Len(c)
  PROVE  /\ A!ExposedUpTo(c, n + 1) =
              A!ExposedUpTo(c, n) \cup (InstrUses(c[n + 1]) \ A!KilledUpTo(c, n))
         /\ A!KilledUpTo(c, n + 1) = A!KilledUpTo(c, n) \cup InstrDef(c[n + 1])
<1>1. c[n + 1] \in Instr
  OBVIOUS
<1>2. InstrDef(c[n + 1]) \subseteq Vreg /\ InstrUses(c[n + 1]) \subseteq Vreg
  BY <1>1, OperandsAreRegisters
<1>3. \A k : k \in 1 .. n + 1 <=> k \in 1 .. n \/ k = n + 1
  OBVIOUS
<1>4. (n + 1) - 1 = n
  OBVIOUS
<1>5. A!KilledUpTo(c, n + 1) = A!KilledUpTo(c, n) \cup InstrDef(c[n + 1])
  BY <1>2, <1>3, ExposedDef
<1>6. A!ExposedUpTo(c, n + 1) =
        A!ExposedUpTo(c, n) \cup (InstrUses(c[n + 1]) \ A!KilledUpTo(c, n))
  BY <1>2, <1>3, <1>4, ExposedDef
<1>. QED
  BY <1>5, <1>6

-----------------------------------------------------------------------------
(***************************************************************************)
(* The scan of step 5.                                                     *)
(***************************************************************************)
LEMMA InitScan == Init => ScanInv
<1>. SUFFICES ASSUME Init PROVE ScanInv
  OBVIOUS
<1>1. code \in Body /\ \A b \in Block : Len(code[b]) \in Nat
  BY BodiesAssumption DEF Init, Body
<1>2. \A b \in Block : Scanned(b) = 0
  BY <1>1, BlocksAssumption DEF Init, Scanned, Block
<1>3. \A c : A!ExposedUpTo(c, 0) = {} /\ A!KilledUpTo(c, 0) = {}
  BY ExposedDef
<1>4. \A b \in Block : use[b] = {} /\ def[b] = {}
  BY DEF Init
<1>5. blk \in Block => ins \in 1 .. Len(code[blk]) + 1
  BY <1>1 DEF Init
<1>. QED
  BY <1>2, <1>3, <1>4, <1>5 DEF ScanInv

\* The sets of a block are unchanged as long as its scanned prefix is.
LEMMA ScanStays ==
  ASSUME ScanInv, code' = code, UNCHANGED scanVars,
         \A b \in Block : Scanned(b)' = Scanned(b),
         (phase \in {"dfs", "scan"} /\ blk \in Block => ins \in 1 .. Len(code[blk]) + 1)'
  PROVE  ScanInv'
<1>1. use' = use /\ def' = def
  BY DEF scanVars
<1>2. \A c, n : A!ExposedUpTo(c, n)' = A!ExposedUpTo(c, n)
  BY DEF A!ExposedUpTo
<1>. QED
  BY <1>1 DEF ScanInv

\* An instruction of the block at the cursor is scanned.
LEMMA ScanInstrInv == TypeOK /\ ScanInv /\ ScanInstr => ScanInv'
<1>. SUFFICES ASSUME TypeOK, ScanInv, ScanInstr PROVE ScanInv'
  OBVIOUS
<1>1. /\ phase = "scan" /\ phase' = phase /\ code' = code /\ blk' = blk
      /\ ins' = ins + 1 /\ ins \in 1 .. Len(code[blk]) /\ blk \in Block
  BY BlocksAssumption DEF ScanInstr, TypeOK, Block
<1>2. code[blk] \in Seq(Instr) /\ Len(code[blk]) \in Nat /\ ins - 1 \in Nat
      /\ (ins - 1) + 1 = ins
  BY <1>1, CodeTypes
<1>3. Scanned(blk) = ins - 1 /\ Scanned(blk)' = ins
  BY <1>1, <1>2 DEF Scanned, Block
<1>4. \A b \in Block : b # blk => Scanned(b)' = Scanned(b)
  BY <1>1 DEF Scanned
<1>5. /\ use' = [use EXCEPT ![blk] = @ \cup (InstrUses(code[blk][ins]) \ def[blk])]
      /\ def' = [def EXCEPT ![blk] = @ \cup InstrDef(code[blk][ins])]
  BY DEF ScanInstr, Exposed
<1>6. /\ use[blk] = A!ExposedUpTo(code[blk], ins - 1)
      /\ def[blk] = A!KilledUpTo(code[blk], ins - 1)
  BY <1>1, <1>3 DEF ScanInv
<1>7. /\ A!ExposedUpTo(code[blk], ins) = use[blk] \cup (InstrUses(code[blk][ins]) \ def[blk])
      /\ A!KilledUpTo(code[blk], ins) = def[blk] \cup InstrDef(code[blk][ins])
  <2>1. (ins - 1) + 1 <= Len(code[blk])
    BY <1>1, <1>2
  <2>2. /\ A!ExposedUpTo(code[blk], (ins - 1) + 1) =
             A!ExposedUpTo(code[blk], ins - 1)
               \cup (InstrUses(code[blk][(ins - 1) + 1]) \ A!KilledUpTo(code[blk], ins - 1))
        /\ A!KilledUpTo(code[blk], (ins - 1) + 1) =
             A!KilledUpTo(code[blk], ins - 1) \cup InstrDef(code[blk][(ins - 1) + 1])
    BY <1>2, <2>1, OneMore
  <2>. QED
    BY <1>2, <1>6, <2>2
<1>8. ASSUME NEW b \in Block
      PROVE  /\ use'[b] = A!ExposedUpTo(code[b], Scanned(b)')
             /\ def'[b] = A!KilledUpTo(code[b], Scanned(b)')
  <2>1. CASE b = blk
    BY <1>1, <1>3, <1>5, <1>7, <2>1 DEF TypeOK
  <2>2. CASE b # blk
    <3>1. use'[b] = use[b] /\ def'[b] = def[b]
      BY <1>5, <2>2 DEF TypeOK
    <3>. QED
      BY <1>4, <2>2, <3>1 DEF ScanInv
  <2>. QED
    BY <2>1, <2>2
<1>9. ins' \in 1 .. Len(code[blk]) + 1
  BY <1>1, <1>2
<1>10. \A c, n : /\ A!ExposedUpTo(c, n)' = A!ExposedUpTo(c', n')
                 /\ A!KilledUpTo(c, n)' = A!KilledUpTo(c', n')
  BY DEF A!ExposedUpTo, A!KilledUpTo
<1>. QED
  BY <1>1, <1>8, <1>9, <1>10 DEF ScanInv

LEMMA ScanNextInv == TypeOK /\ ScanInv /\ ScanNextBlock => ScanInv'
<1>. SUFFICES ASSUME TypeOK, ScanInv, ScanNextBlock PROVE ScanInv'
  OBVIOUS
<1>1. /\ phase = "scan" /\ phase' = phase /\ code' = code /\ blk' = blk + 1
      /\ ins' = 1 /\ ins > Len(code[blk]) /\ blk \in Block /\ UNCHANGED scanVars
  BY BlocksAssumption DEF ScanNextBlock, TypeOK, Block
<1>2. \A b \in Block : Len(code[b]) \in Nat
  BY CodeTypes
<1>3. ins = Len(code[blk]) + 1
  BY <1>1, <1>2 DEF ScanInv, TypeOK
<1>4. \A b \in Block : Scanned(b)' = Scanned(b)
  BY <1>1, <1>2, <1>3 DEF Scanned, Block
<1>5. (phase \in {"dfs", "scan"} /\ blk \in Block => ins \in 1 .. Len(code[blk]) + 1)'
  BY <1>1, <1>2
<1>. QED
  BY <1>1, <1>4, <1>5, ScanStays

LEMMA ScanStepInv == TypeOK /\ ScanInv /\ Next => ScanInv'
<1>. SUFFICES ASSUME TypeOK, ScanInv, Next PROVE ScanInv'
  OBVIOUS
<1>1. CASE ScanInstr
  BY <1>1, ScanInstrInv
<1>2. CASE ScanNextBlock
  BY <1>2, ScanNextInv
<1>3. CASE Dfs
  <2>1. UNCHANGED <<code, blk, ins, scanVars>>
        /\ phase = "dfs" /\ phase' \in {"dfs", "scan"}
    BY <1>3 DEF Dfs, DfsDescend, DfsReturn, DfsDone
  <2>2. \A b \in Block : Scanned(b)' = Scanned(b)
    BY <2>1 DEF Scanned
  <2>. QED
    BY <2>1, <2>2, ScanStays DEF ScanInv
<1>4. CASE Seed
  <2>1. UNCHANGED <<code, blk, ins, scanVars>>
        /\ phase = "scan" /\ phase' = "iterate" /\ blk = NumBlocks
    BY <1>4 DEF Seed
  <2>2. \A b \in Block : Scanned(b)' = Scanned(b)
    BY <2>1, BlocksAssumption DEF Scanned, Block
  <2>. QED
    BY <2>1, <2>2, ScanStays
<1>5. CASE Pop \/ EnqueuePred \/ WorklistEmpty \/ Backward
  <2>1. UNCHANGED <<code, scanVars>>
        /\ phase \in {"iterate", "backward"} /\ phase' \notin {"dfs", "scan"}
    BY <1>5 DEF Pop, EnqueuePred, WorklistEmpty, Backward, BackInstr,
                BackNextBlock, BackDone
  <2>2. \A b \in Block : Scanned(b)' = Scanned(b)
    BY <2>1 DEF Scanned
  <2>. QED
    BY <2>1, <2>2, ScanStays
<1>. QED
  BY <1>1, <1>2, <1>3, <1>4, <1>5 DEF Next, Scan, Iterate

(***************************************************************************)
(* use[B] and def[B] are at every moment those of the instructions         *)
(* scanned, and complete before the first block is popped.                 *)
(***************************************************************************)
THEOREM ScanCorrect == SafeSpec => []ScanInv
<1>1. TypeOK /\ ScanInv /\ [Next]_vars => ScanInv'
  <2>. SUFFICES ASSUME TypeOK, ScanInv, UNCHANGED vars PROVE ScanInv'
    BY ScanStepInv
  <2>1. UNCHANGED <<code, phase, blk, ins, scanVars>>
    BY DEF vars
  <2>2. \A b \in Block : Scanned(b)' = Scanned(b)
    BY <2>1 DEF Scanned
  <2>. QED
    BY <2>1, <2>2, ScanStays DEF ScanInv
<1>. QED
  BY <1>1, InitScan, TypeCorrect, PTL DEF SafeSpec

-----------------------------------------------------------------------------
(***************************************************************************)
(* Refinement.                                                             *)
(***************************************************************************)
\* Once the scan is over, a pop applies the transfer function of the block.
LEMMA NewInIsTransfer ==
  ASSUME TypeOK, ScanInv, phase \notin {"dfs", "scan"}, NEW b \in Block
  PROVE  /\ NewIn(b) = A!Transfer(liveIn, b)
         /\ use[b] = A!UpwardExposed(code[b]) /\ def[b] = A!Killed(code[b])
<1>1. use[b] = A!UpwardExposed(code[b]) /\ def[b] = A!Killed(code[b])
  BY DEF ScanInv, Scanned, A!UpwardExposed, A!Killed
<1>2. NewOut(b) = A!Out(liveIn, b)
  BY SameOperators DEF NewOut, A!Out
<1>. QED
  BY <1>1, <1>2 DEF NewIn, A!Transfer

LEMMA StepRefines ==
  TypeOK /\ ScanInv /\ QueueInv /\ [Next]_vars => [A!Next]_(A!dvars)
<1>. SUFFICES ASSUME TypeOK, ScanInv, QueueInv, [Next]_vars
              PROVE  A!Next \/ UNCHANGED A!dvars
  OBVIOUS
<1>1. CASE Pop
  <2>. DEFINE id == wl[head % NumBlocks]
  <2>1. id \in Block
    BY <1>1, HeadIsQueued DEF Pop
  <2>2. NewIn(id) = A!Transfer(liveIn, id)
    BY <1>1, <2>1, NewInIsTransfer DEF Pop
  <2>3. A!Recompute(id)
    BY <1>1, <2>2 DEF Pop, A!Recompute
  <2>. QED
    BY <2>1, <2>3, SameOperators DEF A!Next
<1>2. CASE Dfs \/ Scan \/ Seed \/ EnqueuePred \/ WorklistEmpty \/ Backward \/ UNCHANGED vars
  BY <1>2 DEF Dfs, DfsDescend, DfsReturn, DfsDone, Scan, ScanInstr,
              ScanNextBlock, Seed, EnqueuePred, WorklistEmpty, Backward,
              BackInstr, BackNextBlock, BackDone, vars, liveVars, A!dvars
<1>. QED
  BY <1>1, <1>2 DEF Next, Iterate

(***************************************************************************)
(* ir_liveness_compute implements the chaotic iteration: a pop is a        *)
(* recomputation of the popped block, every other step stutters.           *)
(***************************************************************************)
THEOREM Implements == SafeSpec => Refines
<1>1. Init => A!Init
  BY BodiesAssumption, SameOperators DEF Init, A!Init
<1>2. IInv => TypeOK /\ QueueInv
  BY DEF IInv
<1>. QED
  BY <1>1, <1>2, StepRefines, Invariant, ScanCorrect, PTL
     DEF SafeSpec, Refines, A!SafeSpec

-----------------------------------------------------------------------------
(***************************************************************************)
(* No update is lost.                                                      *)
(***************************************************************************)
LEMMA ReachableIsBlocks == Reachable \subseteq Block
BY ReachableDef

LEMMA PopSettles ==
  ASSUME TypeOK, QueueInv, NoLostUpdate, Pop PROVE NoLostUpdate'
<1>. DEFINE id == wl[head % NumBlocks]
<1>1. id \in Block
  BY HeadIsQueued DEF Pop
<1>2. /\ liveIn' = [liveIn EXCEPT ![id] = NewIn(id)]
      /\ liveOut' = [liveOut EXCEPT ![id] = NewOut(id)]
      /\ inWl' = inWl \ {id} /\ todo = {} /\ phase = "iterate"
      /\ todo' = IF Changed(id) THEN Preds(code, id) ELSE {}
      /\ code' = code /\ use' = use /\ def' = def
  BY DEF Pop, StoreOut, scanVars
<1>. HIDE DEF id
<1>3. Reachable' = Reachable
  BY <1>2 DEF Reachable, A!Reachable, A!Closed
<1>4. ASSUME NEW b \in Reachable, b \notin inWl' \cup todo'
      PROVE  Settled(b)'
  <2>1. b \in Block
    BY ReachableIsBlocks
  <2>2. \A s \in SuccSet(code[b]) : s \in Block /\ liveIn'[s] = liveIn[s]
    <3>. TAKE s \in SuccSet(code[b])
    <3>1. s \in Block
      BY <2>1, CodeTypes
    <3>2. CASE s = id
      <4>1. ~Changed(id)
        BY <1>2, <1>4, <2>1, <3>2 DEF Preds
      <4>. QED
        BY <1>1, <1>2, <3>1, <3>2, <4>1 DEF Changed, TypeOK
    <3>3. CASE s # id
      BY <1>2, <3>1, <3>3 DEF TypeOK
    <3>. QED
      BY <3>1, <3>2, <3>3
  <2>3. UNION {liveIn'[s] : s \in SuccSet(code[b])}
          = UNION {liveIn[s] : s \in SuccSet(code[b])}
    BY <2>2
  <2>4. CASE b = id
    <3>1. liveOut'[b] = NewOut(b) /\ liveIn'[b] = NewIn(b)
      BY <1>1, <1>2, <2>4 DEF TypeOK
    <3>. QED
      BY <1>2, <2>3, <3>1 DEF Settled, NewOut, NewIn
  <2>5. CASE b # id
    <3>1. liveOut'[b] = liveOut[b] /\ liveIn'[b] = liveIn[b]
      BY <1>2, <2>1, <2>5 DEF TypeOK
    <3>2. Settled(b)
      BY <1>2, <1>4, <2>5 DEF NoLostUpdate
    <3>. QED
      BY <1>2, <2>3, <3>1, <3>2 DEF Settled
  <2>. QED
    BY <2>4, <2>5
<1>. QED
  BY <1>3, <1>4 DEF NoLostUpdate

\* A step that keeps the sets and loses no candidate keeps what is settled.
LEMMA SettledStays ==
  ASSUME NoLostUpdate, code' = code, UNCHANGED <<scanVars, liveVars>>,
         phase \in {"iterate", "backward", "done"},
         inWl \cup todo \subseteq inWl' \cup todo'
  PROVE  NoLostUpdate'
<1>1. Reachable' = Reachable
  BY DEF Reachable, A!Reachable, A!Closed
<1>2. \A b \in Reachable : Settled(b) => Settled(b)'
  BY DEF Settled, scanVars, liveVars
<1>. QED
  BY <1>1, <1>2 DEF NoLostUpdate

LEMMA NoLostUpdateStep ==
  ASSUME IInv, PostorderComplete, NoLostUpdate, Next PROVE NoLostUpdate'
<1>. USE DEF IInv
<1>1. CASE Pop
  BY <1>1, PopSettles
<1>2. CASE Seed
  <2>1. inWl' = {post[k] : k \in 1 .. Len(post)} /\ phase = "scan" /\ code' = code
    BY <1>2 DEF Seed
  <2>2. Reachable' = Reachable
    BY <2>1 DEF Reachable, A!Reachable, A!Closed
  <2>3. Reachable' = inWl'
    BY <2>1, <2>2 DEF PostorderComplete
  <2>. QED
    BY <2>3 DEF NoLostUpdate
<1>3. CASE Dfs \/ Scan
  <2>1. phase' \notin {"iterate", "backward", "done"}
    BY <1>3 DEF Dfs, DfsDescend, DfsReturn, DfsDone, Scan, ScanInstr, ScanNextBlock
  <2>. QED
    BY <2>1 DEF NoLostUpdate
<1>4. CASE EnqueuePred
  <2>1. PICK pid \in todo : /\ todo' = todo \ {pid}
                            /\ IF Absent(pid) THEN inWl' = inWl \cup {pid}
                                              ELSE inWl' = inWl
    BY <1>4 DEF EnqueuePred
  <2>2. inWl \cup todo \subseteq inWl' \cup todo'
    BY <2>1 DEF Absent
  <2>. QED
    BY <1>4, <2>2, SettledStays DEF EnqueuePred
<1>5. CASE WorklistEmpty \/ Backward
  BY <1>5, SettledStays DEF WorklistEmpty, Backward, BackInstr, BackNextBlock,
                            BackDone, wlVars
<1>. QED
  BY <1>1, <1>2, <1>3, <1>4, <1>5 DEF Next, Iterate

(***************************************************************************)
(* Between the write of a live-in set and the visit of its predecessors    *)
(* nothing is lost: a block not waiting satisfies its equations.           *)
(***************************************************************************)
THEOREM UpdatesKept == SafeSpec => []NoLostUpdate
<1>1. Init => NoLostUpdate
  BY DEF Init, NoLostUpdate
<1>2. IInv /\ PostorderComplete /\ NoLostUpdate /\ [Next]_vars => NoLostUpdate'
  <2>. SUFFICES ASSUME IInv, NoLostUpdate, UNCHANGED vars PROVE NoLostUpdate'
    BY NoLostUpdateStep
  <2>1. CASE phase \in {"iterate", "backward", "done"}
    BY <2>1, SettledStays DEF vars, wlVars
  <2>2. CASE phase \notin {"iterate", "backward", "done"}
    BY <2>2 DEF vars, NoLostUpdate
  <2>. QED
    BY <2>1, <2>2
<1>. QED
  BY <1>1, <1>2, Invariant, SearchComplete, PTL DEF SafeSpec

\* The worklist of ir_liveness_compute, for every control-flow graph.
THEOREM WorklistCorrect == SafeSpec => []WorklistSound
BY SearchComplete, QueueCorrect, UpdatesKept, PTL DEF WorklistSound

-----------------------------------------------------------------------------
(***************************************************************************)
(* The result.                                                             *)
(***************************************************************************)
\* The queue and the candidates are empty once the walk of step 7 begins.
EmptyInv ==
  phase \in {"backward", "done"} => head = tail /\ todo = {}

LEMMA EmptyStep == EmptyInv /\ [Next]_vars => EmptyInv'
<1>. SUFFICES ASSUME EmptyInv, [Next]_vars PROVE EmptyInv'
  OBVIOUS
<1>1. CASE Dfs \/ Scan \/ Seed \/ Pop \/ EnqueuePred
  <2>1. phase' \notin {"backward", "done"}
    BY <1>1 DEF Dfs, DfsDescend, DfsReturn, DfsDone, Scan, ScanInstr,
                ScanNextBlock, Seed, Pop, EnqueuePred
  <2>. QED
    BY <2>1 DEF EmptyInv
<1>2. CASE WorklistEmpty \/ Backward \/ UNCHANGED vars
  BY <1>2 DEF WorklistEmpty, Backward, BackInstr, BackNextBlock, BackDone,
              vars, wlVars, EmptyInv
<1>. QED
  BY <1>1, <1>2 DEF Next, Iterate

LEMMA SettledSolves ==
  ASSUME IInv, ScanInv, EmptyInv, NoLostUpdate, phase \in {"backward", "done"}
  PROVE  A!Solves(liveIn, Reachable)
<1>. USE DEF IInv
<1>1. inWl = {} /\ todo = {}
  <2>1. Waiting = {}
    BY DEF EmptyInv, Waiting, TypeOK
  <2>. QED
    BY <2>1 DEF EmptyInv, QueueInv, QueueFaithful
<1>2. ASSUME NEW b \in Reachable PROVE liveIn[b] = A!Transfer(liveIn, b)
  <2>1. b \in Block /\ Settled(b)
    BY <1>1, ReachableIsBlocks DEF NoLostUpdate
  <2>2. NewIn(b) = A!Transfer(liveIn, b)
    BY <2>1, NewInIsTransfer
  <2>. QED
    BY <2>1, <2>2 DEF Settled, NewIn, NewOut
<1>. QED
  BY <1>2 DEF A!Solves

(***************************************************************************)
(* The abstract iteration, for every order in which blocks are recomputed: *)
(* it only grows and never passes a solution of the equations.             *)
(***************************************************************************)

\* More registers live into the successors, at least as many into the block.
LEMMA TransferMonotone ==
  ASSUME NEW f, NEW g, NEW b \in Block,
         \A s \in SuccSet(code[b]) : f[s] \subseteq g[s]
  PROVE  A!Transfer(f, b) \subseteq A!Transfer(g, b)
BY SameOperators DEF A!Transfer, A!Out

\* A transfer function yields registers.
LEMMA TransferType ==
  ASSUME code \in Body, NEW f \in [Block -> SUBSET Vreg], NEW b \in Block
  PROVE  A!Transfer(f, b) \in SUBSET Vreg
<1>1. SuccSet(code[b]) \subseteq Block
  BY SuccsInBlock DEF Body
<1>. QED
  BY <1>1, SameOperators DEF A!Transfer, A!Out, A!UpwardExposed, A!ExposedUpTo

\* The iteration keeps a body and a set of registers per block.
LEMMA IterationType == A!SafeSpec => []A!TypeOK
<1>1. A!Init => A!TypeOK
  BY DEF A!Init, A!TypeOK
<1>2. A!TypeOK /\ [A!Next]_(A!dvars) => A!TypeOK'
  <2> SUFFICES ASSUME A!TypeOK, [A!Next]_(A!dvars) PROVE A!TypeOK'
    OBVIOUS
  <2>1. ASSUME NEW b \in Block, A!Recompute(b) PROVE A!TypeOK'
    <3>1. A!Transfer(liveIn, b) \in SUBSET Vreg
      BY TransferType, SameOperators DEF A!TypeOK
    <3>. QED
      BY <2>1, <3>1, SameOperators DEF A!TypeOK, A!Recompute
  <2>2. CASE UNCHANGED <<code, liveIn>>
    BY <2>2 DEF A!TypeOK
  <2>. QED
    BY <2>1, <2>2, SameOperators DEF A!Next, A!dvars
<1>. QED
  BY <1>1, <1>2, PTL DEF A!SafeSpec

(***************************************************************************)
(* The live-in sets stay below every solution of the equations, whatever   *)
(* the order of recomputation: what the iteration stops at is least.       *)
(***************************************************************************)
THEOREM IterationBelow == A!SafeSpec => []A!BelowEverySolution
<1>1. A!Init => A!BelowEverySolution
  BY SameOperators DEF A!Init, A!BelowEverySolution
<1>2. A!TypeOK /\ A!BelowEverySolution /\ [A!Next]_(A!dvars) => A!BelowEverySolution'
  <2> SUFFICES ASSUME A!TypeOK, A!BelowEverySolution, [A!Next]_(A!dvars)
               PROVE  A!BelowEverySolution'
    OBVIOUS
  <2>0. code \in Body /\ liveIn \in [Block -> SUBSET Vreg]
    BY SameOperators DEF A!TypeOK
  <2>1. ASSUME NEW b \in Block, A!Recompute(b),
               NEW f \in [Block -> SUBSET Vreg], A!Solves(f, Block)',
               NEW c \in Block
        PROVE  liveIn'[c] \subseteq f[c]
    <3>1. code' = code
      BY <2>1 DEF A!Recompute
    <3>2. A!Solves(f, Block)
      BY <2>1, <3>1 DEF A!Solves, A!Transfer, A!Out
    <3>3. \A d \in Block : liveIn[d] \subseteq f[d]
      BY <3>2, SameOperators DEF A!BelowEverySolution
    <3>4. SuccSet(code[b]) \subseteq Block
      BY <2>0, SuccsInBlock DEF Body
    <3>5. A!Transfer(liveIn, b) \subseteq A!Transfer(f, b)
      BY <3>3, <3>4, TransferMonotone
    <3>6. A!Transfer(liveIn, b) \subseteq f[b]
      BY <3>2, <3>5 DEF A!Solves
    <3>. QED
      BY <2>0, <2>1, <3>3, <3>6 DEF A!Recompute
  <2>2. CASE UNCHANGED <<code, liveIn>>
    BY <2>2 DEF A!BelowEverySolution, A!Solves, A!Transfer, A!Out
  <2>. QED
    BY <2>1, <2>2, SameOperators DEF A!Next, A!BelowEverySolution, A!dvars
<1>. QED
  BY <1>1, <1>2, IterationType, PTL DEF A!SafeSpec

\* What is stored for a block is never more than recomputing it would give.
LEMMA IterationInflationary == A!SafeSpec => []A!Inflationary
<1>1. A!Init => A!Inflationary
  BY SameOperators DEF A!Init, A!Inflationary
<1>2. A!TypeOK /\ A!Inflationary /\ [A!Next]_(A!dvars) => A!Inflationary'
  <2> SUFFICES ASSUME A!TypeOK, A!Inflationary, [A!Next]_(A!dvars)
               PROVE  A!Inflationary'
    OBVIOUS
  <2>0. code \in Body /\ liveIn \in [Block -> SUBSET Vreg]
    BY SameOperators DEF A!TypeOK
  <2>a. \A c \in Block : liveIn[c] \subseteq A!Transfer(liveIn, c)
    BY SameOperators DEF A!Inflationary
  <2>1. ASSUME NEW b \in Block, A!Recompute(b), NEW c \in Block
        PROVE  liveIn'[c] \subseteq A!Transfer(liveIn, c)'
    <3>1. \A d \in Block : liveIn[d] \subseteq liveIn'[d]
      BY <2>0, <2>a, <2>1 DEF A!Recompute
    <3>2. SuccSet(code[c]) \subseteq Block
      BY <2>0, SuccsInBlock DEF Body
    <3>3. A!Transfer(liveIn, c) \subseteq A!Transfer(liveIn', c)
      BY <3>1, <3>2, TransferMonotone
    <3>4. liveIn'[c] \subseteq A!Transfer(liveIn, c)
      BY <2>0, <2>a, <2>1 DEF A!Recompute
    <3>5. A!Transfer(liveIn, c)' = A!Transfer(liveIn', c)
      BY <2>1 DEF A!Recompute, A!Transfer, A!Out
    <3>. QED
      BY <3>3, <3>4, <3>5
  <2>2. CASE UNCHANGED <<code, liveIn>>
    BY <2>2 DEF A!Inflationary, A!Transfer, A!Out
  <2>. QED
    BY <2>1, <2>2, SameOperators DEF A!Next, A!Inflationary, A!dvars
<1>. QED
  BY <1>1, <1>2, IterationType, PTL DEF A!SafeSpec

\* No step of the iteration ever takes a register out of a live-in set.
THEOREM IterationGrows == A!SafeSpec => A!Grows
<1>1. A!TypeOK /\ A!Inflationary /\ [A!Next]_(A!dvars)
        => [\A b \in A!Block : liveIn[b] \subseteq liveIn'[b]]_(A!dvars)
  BY SameOperators DEF A!Next, A!Recompute, A!Inflationary, A!TypeOK, A!dvars
<1>. QED
  BY <1>1, IterationType, IterationInflationary, PTL DEF A!SafeSpec, A!Grows

(***************************************************************************)
(* When the worklist runs dry the live-in sets solve the liveness          *)
(* equations of all the code that can run, and no solution is smaller:     *)
(* every register is kept live for a read that can happen, and no other.   *)
(***************************************************************************)
THEOREM LeastSolutionReached == SafeSpec => []LeastSolution
<1>1. SafeSpec => []A!BelowEverySolution
  BY Implements, IterationBelow, PTL DEF Refines
<1>2. Init => EmptyInv
  BY DEF Init, EmptyInv
<1>3. SafeSpec => []EmptyInv
  BY <1>2, EmptyStep, PTL DEF SafeSpec
<1>4. IInv /\ ScanInv /\ EmptyInv /\ NoLostUpdate /\ A!BelowEverySolution
        => LeastSolution
  BY SettledSolves DEF LeastSolution
<1>. QED
  BY <1>1, <1>3, <1>4, Invariant, ScanCorrect, UpdatesKept, PTL

-----------------------------------------------------------------------------
(***************************************************************************)
(* The solution the worklist stops at is liveness as it is defined, by     *)
(* paths, in the blocks that can run.                                      *)
(***************************************************************************)
\* The sets of a block, by positions and by instructions.
LEMMA BlockSets ==
  ASSUME code \in Body, NEW b \in Block
  PROVE  ReadIn(code, b) = A!UpwardExposed(code[b]) /\ KilledIn(code, b) = A!Killed(code[b])
<1>1. code[b] \in Seq(Instr) /\ Len(code[b]) \in Nat
  BY DEF Body
<1>2. \A k \in 1 .. Len(code[b]) :
        InstrUses(code[b][k]) \subseteq Vreg /\ InstrDef(code[b][k]) \subseteq Vreg
  BY <1>1, OperandsAreRegisters
<1>3. \A k \in 1 .. Len(code[b]) : 1 .. k - 1 \subseteq 1 .. Len(code[b])
  BY <1>1
<1>. QED
  BY <1>2, <1>3, ExposedDef
     DEF ReadIn, KilledIn, ReadFrom, WrittenIn, A!UpwardExposed, A!Killed

\* The equations of Dataflow, in terms of paths.
LEMMA TransferIs ==
  ASSUME code \in Body, NEW f, NEW b \in Block
  PROVE  A!Transfer(f, b) =
           ReadIn(code, b) \cup ((UNION {f[s] : s \in SuccSet(code[b])}) \ KilledIn(code, b))
BY BlockSets, SameOperators DEF A!Transfer, A!Out

LEMMA ReachableClosed ==
  ASSUME code \in Body
  PROVE  \A b \in Reachable : b \in Block /\ SuccSet(code[b]) \subseteq Reachable
<1>. SUFFICES ASSUME NEW b \in Reachable, NEW s \in SuccSet(code[b]) PROVE s \in Reachable
  BY ReachableIsBlocks
<1>1. b \in Block /\ s \in Block
  BY ReachableIsBlocks, SuccsInBlock DEF Body
<1>. QED
  BY <1>1, ReachableDef DEF ClosedSet

LEMMA LiveInExact ==
  ASSUME TypeOK, A!Solves(liveIn, Reachable), A!BelowEverySolution
  PROVE  \A b \in Reachable : liveIn[b] = LiveInto(code, b)
<1>1. code \in Body
  BY DEF TypeOK
<1>2. \A b \in Block : liveIn[b] \subseteq LiveInto(code, b)
  <2>. DEFINE f == [b \in Block |-> LiveInto(code, b)]
  <2>1. f \in [Block -> SUBSET Vreg]
    BY <1>1, LiveIntoEquation
  <2>2. \A b \in Block : f[b] = LiveInto(code, b)
    OBVIOUS
  <2>. HIDE DEF f
  <2>3. ASSUME NEW b \in Block PROVE f[b] = A!Transfer(f, b)
    <3>1. SuccSet(code[b]) \subseteq Block
      BY <1>1, SuccsInBlock DEF Body
    <3>2. UNION {f[s] : s \in SuccSet(code[b])} = LiveOutOf(code, b)
      BY <2>2, <3>1 DEF LiveOutOf
    <3>. QED
      BY <1>1, <2>2, <3>2, LiveIntoEquation, TransferIs
  <2>4. A!Solves(f, Block)
    BY <2>3 DEF A!Solves
  <2>. QED
    BY <2>1, <2>2, <2>4, SameOperators DEF A!BelowEverySolution
<1>3. \A b \in Reachable : LiveInto(code, b) \subseteq liveIn[b]
  <2>1. Reachable \in SUBSET Block /\ \A b \in Reachable : SuccSet(code[b]) \subseteq Reachable
    BY <1>1, ReachableClosed
  <2>2. \A b \in Reachable :
          liveIn[b] = ReadIn(code, b)
                        \cup ((UNION {liveIn[s] : s \in SuccSet(code[b])}) \ KilledIn(code, b))
    BY <1>1, <2>1, TransferIs DEF A!Solves
  <2>. QED
    BY <1>1, <2>1, <2>2, LiveIntoLeast, ZenonT(30)
<1>. QED
  BY <1>2, <1>3, ReachableIsBlocks

-----------------------------------------------------------------------------
(***************************************************************************)
(* The walk of step 7. Below the cursor, and in the blocks before, what is *)
(* stored is live after the instruction, given what is live out of the     *)
(* block; live_cur is what is live at the cursor.                          *)
(***************************************************************************)
WalkedFrom(b, first) ==
  \A k \in first .. Len(code[b]) : after[b][k] = LiveAfterIn(code[b], liveOut[b], k)

WalkInv ==
  /\ phase = "backward" =>
       /\ cur = LiveAfterIn(code[blk], liveOut[blk], ins)
       /\ WalkedFrom(blk, ins + 1)
       /\ \A b \in Block : b < blk => WalkedFrom(b, 1)
  /\ phase = "done" => \A b \in Block : WalkedFrom(b, 1)

LEMMA EnterBlock ==
  ASSUME TypeOK, NEW b \in Block
  PROVE  LiveAfterIn(code[b], liveOut[b], Len(code[b])) = liveOut[b]
<1>1. code[b] \in Seq(Instr) /\ liveOut[b] \in SUBSET Vreg
  BY DEF TypeOK, Body
<1>. QED
  BY <1>1, AfterLast

LEMMA BackInstrWalk == TypeOK /\ BackInv /\ WalkInv /\ BackInstr => WalkInv'
<1>. SUFFICES ASSUME TypeOK, BackInv, WalkInv, BackInstr PROVE WalkInv'
  OBVIOUS
<1>1. /\ phase = "backward" /\ phase' = "backward" /\ code' = code /\ liveOut' = liveOut
      /\ blk' = blk /\ ins' = ins - 1
      /\ after' = [after EXCEPT ![blk][ins] = cur]
      /\ cur' = (cur \ InstrDef(code[blk][ins])) \cup InstrUses(code[blk][ins])
  BY DEF BackInstr, Before, liveVars
<1>2. blk \in Block /\ ins \in 1 .. Len(code[blk]) /\ Len(code[blk]) \in Nat
  BY CodeTypes DEF BackInv, BackInstr
<1>3. code[blk] \in Seq(Instr) /\ liveOut[blk] \in SUBSET Vreg
  BY <1>2 DEF TypeOK, Body
<1>4. cur = LiveAfterIn(code[blk], liveOut[blk], ins) /\ WalkedFrom(blk, ins + 1)
  BY <1>1 DEF WalkInv
<1>5. cur' = LiveAfterIn(code[blk], liveOut[blk], ins - 1)
  BY <1>1, <1>2, <1>3, <1>4, AfterOneUp
<1>6. /\ after \in [Block -> Seq(SUBSET Vreg)] /\ Len(after[blk]) = Len(code[blk])
  BY <1>2 DEF TypeOK
<1>7. \A k \in 1 .. Len(code[blk]) :
        after'[blk][k] = IF k = ins THEN cur ELSE after[blk][k]
  BY <1>1, <1>2, <1>6
<1>8. \A b \in Block : b # blk => after'[b] = after[b]
  BY <1>1, <1>6
<1>9. \A k \in ins .. Len(code[blk]) : after'[blk][k] = LiveAfterIn(code[blk], liveOut[blk], k)
  <2>. SUFFICES ASSUME NEW k \in ins .. Len(code[blk])
                PROVE  after'[blk][k] = LiveAfterIn(code[blk], liveOut[blk], k)
    OBVIOUS
  <2>1. k \in 1 .. Len(code[blk]) /\ (k = ins \/ k \in ins + 1 .. Len(code[blk]))
    BY <1>2
  <2>. QED
    BY <1>4, <1>7, <2>1 DEF WalkedFrom
<1>10. ASSUME NEW b \in Block, b < blk
       PROVE  \A k \in 1 .. Len(code[b]) : after'[b][k] = LiveAfterIn(code[b], liveOut[b], k)
  <2>1. after'[b] = after[b]
    BY <1>2, <1>8, <1>10 DEF Block
  <2>2. WalkedFrom(b, 1)
    BY <1>1, <1>10 DEF WalkInv
  <2>. QED
    BY <2>1, <2>2 DEF WalkedFrom
<1>11. ins' + 1 = ins
  BY <1>1, <1>2
<1>. QED
  BY <1>1, <1>5, <1>9, <1>10, <1>11 DEF WalkInv, WalkedFrom

LEMMA WalkStep == IInv /\ WalkInv /\ [Next]_vars => WalkInv'
<1>. SUFFICES ASSUME TypeOK, BackInv, WalkInv, [Next]_vars PROVE WalkInv'
  BY DEF IInv
<1>1. CASE Dfs \/ Scan \/ Seed \/ Pop \/ EnqueuePred
  <2>1. phase' \notin {"backward", "done"}
    BY <1>1 DEF Dfs, DfsDescend, DfsReturn, DfsDone, Scan, ScanInstr,
                ScanNextBlock, Seed, Pop, EnqueuePred
  <2>. QED
    BY <2>1 DEF WalkInv
<1>2. CASE WorklistEmpty
  <2>1. /\ phase' = "backward" /\ code' = code /\ liveOut' = liveOut /\ after' = after
        /\ blk' = 0 /\ ins' = Len(code[0]) /\ cur' = liveOut[0]
    BY <1>2 DEF WorklistEmpty, liveVars
  <2>2. 0 \in Block /\ Len(code[0]) \in Nat
    BY BlocksAssumption, CodeTypes DEF Block
  <2>3. cur' = LiveAfterIn(code[0], liveOut[0], Len(code[0]))
    BY <2>1, <2>2, EnterBlock
  <2>. QED
    BY <2>1, <2>2, <2>3 DEF WalkInv, WalkedFrom, Block
<1>3. CASE BackInstr
  BY <1>3, BackInstrWalk
<1>4. CASE BackNextBlock
  <2>1. /\ phase = "backward" /\ phase' = "backward" /\ code' = code /\ liveOut' = liveOut
        /\ after' = after /\ ins = 0
        /\ blk' = blk + 1 /\ ins' = Len(code[blk + 1]) /\ cur' = liveOut[blk + 1]
    BY <1>4 DEF BackNextBlock, liveVars
  <2>2. blk \in Block /\ blk + 1 \in Block /\ Len(code[blk + 1]) \in Nat
    BY <1>4, <2>1, BlocksAssumption, CodeTypes DEF BackNextBlock, BackInv, Block
  <2>3. cur' = LiveAfterIn(code[blk + 1], liveOut[blk + 1], Len(code[blk + 1]))
    BY <2>1, <2>2, EnterBlock
  <2>4. \A b \in Block : b < blk + 1 => WalkedFrom(b, 1)
    BY <2>1, <2>2 DEF WalkInv, Block
  <2>5. \A b \in Block : b < blk' => WalkedFrom(b, 1)'
    BY <2>1, <2>4 DEF WalkedFrom
  <2>6. ~\E k \in ins' + 1 .. Len(code[blk']) : TRUE
    BY <2>1, <2>2
  <2>. QED
    BY <2>1, <2>3, <2>5, <2>6 DEF WalkInv, WalkedFrom
<1>5. CASE BackDone
  <2>1. /\ phase = "backward" /\ phase' = "done" /\ code' = code /\ liveOut' = liveOut
        /\ after' = after /\ ins = 0 /\ blk + 1 = NumBlocks
    BY <1>5 DEF BackDone, liveVars, afterVars
  <2>2. \A b \in Block : WalkedFrom(b, 1)
    BY <2>1, BlocksAssumption DEF WalkInv, BackInv, Block
  <2>. QED
    BY <2>1, <2>2 DEF WalkInv, WalkedFrom
<1>6. CASE UNCHANGED vars
  BY <1>6 DEF vars, liveVars, afterVars, WalkInv, WalkedFrom
<1>. QED
  BY <1>1, <1>2, <1>3, <1>4, <1>5, <1>6 DEF Next, Iterate, Backward

(***************************************************************************)
(* The live_after sets of ir_liveness_compute are those of liveness by     *)
(* paths, instruction by instruction, in all the code that can run: the    *)
(* interference builder misses no conflict and sees no false one.          *)
(***************************************************************************)
THEOREM InstructionsCorrect == SafeSpec => []InstructionsExact
<1>1. Init => WalkInv
  BY DEF Init, WalkInv
<1>2. SafeSpec => []WalkInv
  BY <1>1, WalkStep, Invariant, PTL DEF SafeSpec
<1>3. Init => EmptyInv
  BY DEF Init, EmptyInv
<1>4. SafeSpec => []EmptyInv
  BY <1>3, EmptyStep, PTL DEF SafeSpec
<1>5. ASSUME IInv, WalkInv, EmptyInv, NoLostUpdate, LeastSolution
      PROVE  InstructionsExact
  <2>. SUFFICES ASSUME phase = "done", NEW b \in Reachable
                PROVE  after[b] = LiveAfter(code)[b]
    BY DEF InstructionsExact
  <2>1. TypeOK /\ A!Solves(liveIn, Reachable) /\ A!BelowEverySolution
    BY <1>5 DEF IInv, LeastSolution
  <2>2. b \in Block /\ SuccSet(code[b]) \subseteq Reachable
    BY <2>1, ReachableClosed DEF TypeOK
  <2>3. inWl = {} /\ todo = {}
    <3>1. Waiting = {}
      BY <1>5, <2>1 DEF EmptyInv, Waiting, TypeOK
    <3>. QED
      BY <1>5, <3>1 DEF EmptyInv, IInv, QueueInv, QueueFaithful
  <2>4. liveOut[b] = UNION {liveIn[s] : s \in SuccSet(code[b])}
    BY <1>5, <2>3 DEF NoLostUpdate, Settled
  <2>5. liveOut[b] = LiveOutOf(code, b)
    BY <2>1, <2>2, <2>4, LiveInExact DEF LiveOutOf
  <2>6. LiveAfter(code)[b] =
          [k \in 1 .. Len(code[b]) |-> LiveAfterIn(code[b], liveOut[b], k)]
    BY <2>2, <2>5 DEF LiveAfter
  <2>7. after[b] \in [1 .. Len(code[b]) -> SUBSET Vreg]
    <3>1. after[b] \in Seq(SUBSET Vreg) /\ Len(after[b]) = Len(code[b])
      BY <2>1, <2>2 DEF TypeOK
    <3>. QED
      BY <3>1, LenProperties
  <2>8. \A k \in 1 .. Len(code[b]) : after[b][k] = LiveAfterIn(code[b], liveOut[b], k)
    BY <1>5, <2>2 DEF WalkInv, WalkedFrom
  <2>. QED
    BY <2>6, <2>7, <2>8
<1>. QED
  BY <1>2, <1>4, <1>5, Invariant, UpdatesKept, LeastSolutionReached, PTL
=============================================================================
