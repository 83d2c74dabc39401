----------------------------- MODULE Statements -----------------------------
(***************************************************************************)
(* Lowering of a function body (src/IR/ir_lower_stmt.c and the block and   *)
(* control-stack helpers of src/IR/ir_lower.c), and then the lowered       *)
(* function run beside the C program it came from.                         *)
(*                                                                         *)
(* The walk of the tree is recursive in the code; "todo" is its call       *)
(* stack: what is left to do, the next on top. A block is a sequence of    *)
(* items: an expression evaluated ("eval", or "pick" for the value of a    *)
(* switch) and the terminators. A block the code freed is no longer in the *)
(* domain of "code" nor in "list", the order in which blocks are emitted.  *)
(***************************************************************************)
EXTENDS CSemantics, FiniteSetsExt

CONSTANTS
  Programs,    \* function bodies: source statements of kind "block"
  MaxCtrl,     \* IR_CTRL_STACK_MAX
  MaxCases,    \* IR_MAX_SWITCH_CASES
  Values       \* what the value of a switch can be

VARIABLES
  prog,        \* the body
  phase,       \* "lower", "rejected", "run" or "done"
  todo,        \* what the walk has left to do
  list,        \* func->entry .. func->block_tail: block ids in order
  code,        \* the instructions of every block
  cur,         \* lctx->cur_block
  nextId,      \* func->next_block_id
  ctrl,        \* lctx->ctrl_stack[0 .. ctrl_depth-1]
  errors,      \* lctx->error_count
  c,           \* running: the state of the C program
  pc           \* running: [b, i], the item next to run; i = 0 when lost

lowering == <<todo, list, code, cur, nextId, ctrl, errors>>
vars == <<prog, phase, lowering, c, pc>>

Body == Ast(prog, <<>>)[1]

-----------------------------------------------------------------------------
(* Items and blocks.                                                       *)

Item(op, id, tgt) == [op |-> op, id |-> id, tgt |-> tgt]
Eval(id) == Item("eval", id, <<>>)
Goto(t) == Item("GOTO", <<>>, <<t>>)
Branch(id, t, f) == Item("BRANCH", id, <<t, f>>)
Ret(e, id) == Item(e, id, <<>>)
\* SWITCH: tgt[1] is the default, tgt[n + 1] the block of case value id[n].
SwitchTo(values, tgt) == Item("SWITCH", values, tgt)

Closing == {"GOTO", "BRANCH", "EQ", "return", "end"}

\* ir_block_terminated: SWITCH is not among the terminators it asks for.
Terminated(cd, b) == cd[b] # <<>> /\ cd[b][Len(cd[b])].op \in Closing
\* The block ends in an instruction that leaves it.
Sealed(cd, b) == cd[b] # <<>> /\ cd[b][Len(cd[b])].op \in Closing \cup {"SWITCH"}

\* ir_instr_push
Push(cd, b, i) == [cd EXCEPT ![b] = Append(@, i)]
\* ir_seal_goto, ir_seal_branch, ir_seal_switch
Seal(cd, b, i) == IF Terminated(cd, b) THEN cd ELSE Push(cd, b, i)

\* The blocks nextId .. nextId+n-1, added behind the last.
Fresh(n) == [k \in 1 .. n |-> nextId + k - 1]
NewBlocks(cd, n) == [b \in nextId .. nextId + n - 1 |-> <<>>] @@ cd

\* n blocks made by one handler (ir_new_block), cd being the code without them.
Make(n, cd) ==
  /\ list' = list \o Fresh(n)
  /\ nextId' = nextId + n
  /\ code' = cd

-----------------------------------------------------------------------------
(* The walk. A task is a node or the rest of a handler that was left to    *)
(* lower a part of its statement.                                          *)

Task(t, n, b) == [t |-> t, n |-> n, b |-> b]
One(n) == Task("one", n, <<>>)
Chain(ns) == Task("chain", ns, <<>>)

Init ==
  /\ prog \in Programs
  /\ phase = "lower"
  /\ todo = <<Chain(<<Body>>), Task("end", <<>>, <<>>)>>
  /\ list = <<0>> /\ code = (0 :> <<>>) /\ cur = 0 /\ nextId = 1
  /\ ctrl = <<>> /\ errors = 0
  /\ c = <<>> /\ pc = [b |-> 0, i |-> 1]


\* The task on top is a node of this type, with so many children or more.
AtAny(ks) == todo # <<>> /\ Head(todo).t = "one" /\ Head(todo).n.k \in ks
At(k) == AtAny({k})
Top == Head(todo).n
Kid(n) == Top.kid[n]
Then(tasks) == todo' = tasks \o Tail(todo)
Rest(t) == todo # <<>> /\ Head(todo).t = t
Blk(n) == Head(todo).b[n]

Diag == errors' = errors + 1
Quiet == UNCHANGED <<prog, phase, c, pc>>

\* ir_lower_stmt, and the children of a NODE_BLOCK: an error stops the chain.
Walk ==
  /\ Rest("chain")
  /\ Then(IF Top = <<>> \/ errors > 0 THEN <<>> ELSE <<One(Head(Top)), Chain(Tail(Top))>>)
  /\ UNCHANGED <<list, code, cur, nextId, ctrl, errors>>
  /\ Quiet

Compound ==
  /\ At("BLOCK")
  /\ Then(<<Chain(Top.kid)>>)
  /\ UNCHANGED <<list, code, cur, nextId, ctrl, errors>>
  /\ Quiet

\* A declaration binds a slot, a NODE_NULL does nothing: no code here.
Nothing ==
  /\ AtAny({"VAR", "NULL"})
  /\ Then(<<>>)
  /\ UNCHANGED <<list, code, cur, nextId, ctrl, errors>>
  /\ Quiet

\* What an expression leaves in a block: one with ?: goes on in a third one.
Lowered(cd, b, n) ==
  IF n.a THEN
    LET f == Fresh(3)  merge == f[3]
        split == Push(NewBlocks(cd, 3), b, Branch(n.id, f[1], f[2]))
    IN  Push(Push(Push(split, f[1], Goto(merge)), f[2], Goto(merge)), merge, Eval(n.id))
  ELSE Push(cd, b, Eval(n.id))

Expression ==
  /\ At("EXPR")
  /\ Make(IF Top.a THEN 3 ELSE 0, Lowered(code, cur, Top))
  /\ cur' = IF Top.a THEN nextId + 2 ELSE cur
  /\ Then(<<>>)
  /\ UNCHANGED <<ctrl, errors>>
  /\ Quiet

\* Mutant: what follows the return is put into the same block.
ReturnHere ==
  /\ At("RETURN")
  /\ Make(1, NewBlocks(Push(code, cur, Ret("return", Top.id)), 1))
  /\ Then(<<>>)
  /\ UNCHANGED <<cur, ctrl, errors>>
  /\ Quiet

Return ==
  /\ At("RETURN")
  /\ Make(1, NewBlocks(Push(code, cur, Ret("return", Top.id)), 1))
  /\ cur' = nextId
  /\ Then(<<>>)
  /\ UNCHANGED <<ctrl, errors>>
  /\ Quiet

\* ir_ctrl_top, for a break or a continue: the target, or none.
NoTarget == 0
Target(k) ==
  IF ctrl = <<>> THEN NoTarget
  ELSE IF k = "BREAK" THEN ctrl[Len(ctrl)].brk ELSE ctrl[Len(ctrl)].cont

\* break and continue with a frame to go to: goto, then a fresh block.
Jump ==
  /\ AtAny({"BREAK", "CONTINUE"})
  /\ Target(Top.k) # NoTarget
  /\ Make(1, NewBlocks(Seal(code, cur, Goto(Target(Top.k))), 1))
  /\ cur' = nextId
  /\ Then(<<>>)
  /\ UNCHANGED <<ctrl, errors>>
  /\ Quiet

\* IR004. The top frame of a continue may be that of a switch, with none.
JumpNowhere ==
  /\ AtAny({"BREAK", "CONTINUE"})
  /\ Target(Top.k) = NoTarget
  /\ Diag /\ Then(<<>>)
  /\ UNCHANGED <<list, code, cur, nextId, ctrl>>
  /\ Quiet

\* IR001: a loop or an if whose body was an empty statement.
Malformed ==
  /\ AtAny({"IF", "WHILE", "DO"}) /\ Len(Top.kid) < 2
  /\ Diag /\ Then(<<>>)
  /\ UNCHANGED <<list, code, cur, nextId, ctrl>>
  /\ Quiet

\* ir_ctrl_push, ir_ctrl_pop.
CtrlPush(brk, cont) ==
  IF Len(ctrl) >= MaxCtrl THEN Diag /\ UNCHANGED ctrl
  ELSE ctrl' = Append(ctrl, [brk |-> brk, cont |-> cont]) /\ UNCHANGED errors
\* Mutant: the frame stays.
CtrlKeep == ctrl
CtrlPop == IF ctrl = <<>> THEN ctrl ELSE SubSeq(ctrl, 1, Len(ctrl) - 1)

If ==
  /\ At("IF") /\ Len(Top.kid) >= 2
  /\ LET else == Len(Top.kid) > 2
         n == IF else THEN 3 ELSE 2
         f == Fresh(n)
         no == IF else THEN f[3] ELSE f[2]
     IN  /\ Make(n, Seal(NewBlocks(code, n), cur, Branch(Kid(1).id, f[1], no)))
         /\ cur' = f[1]
         /\ Then(<<One(Kid(2)),
                   IF else THEN Task("else", Kid(3), <<f[3], f[2]>>)
                   ELSE Task("merge", <<>>, <<f[2]>>)>>)
  /\ UNCHANGED <<ctrl, errors>>
  /\ Quiet

\* The then arm is lowered: join, and go on with the else arm.
Else ==
  /\ Rest("else")
  /\ code' = Seal(code, cur, Goto(Blk(2)))
  /\ cur' = Blk(1)
  /\ Then(<<One(Top), Task("merge", <<>>, <<Blk(2)>>)>>)
  /\ UNCHANGED <<list, nextId, ctrl, errors>>
  /\ Quiet

Merge ==
  /\ Rest("merge")
  /\ code' = Seal(code, cur, Goto(Blk(1)))
  /\ cur' = Blk(1)
  /\ Then(<<>>)
  /\ UNCHANGED <<list, nextId, ctrl, errors>>
  /\ Quiet

\* cond, body, exit. The body is lowered with break -> exit, continue -> cond.
While ==
  /\ At("WHILE") /\ Len(Top.kid) >= 2
  /\ LET f == Fresh(3)
         entered == Seal(NewBlocks(code, 3), cur, Goto(f[1]))
     IN  /\ Make(3, Seal(entered, f[1], Branch(Kid(1).id, f[2], f[3])))
         /\ cur' = f[2]
         /\ CtrlPush(f[3], f[1])
         /\ Then(<<One(Kid(2)), Task("loop", <<>>, <<f[1], f[3]>>)>>)
  /\ Quiet

\* The body is lowered: back to the condition.
Loop ==
  /\ Rest("loop")
  /\ ctrl' = CtrlPop
  /\ code' = Seal(code, cur, Goto(Blk(1)))
  /\ cur' = Blk(2)
  /\ Then(<<>>)
  /\ UNCHANGED <<list, nextId, errors>>
  /\ Quiet

\* body, cond, exit.
DoWhile ==
  /\ At("DO") /\ Len(Top.kid) >= 2
  /\ LET f == Fresh(3)
     IN  /\ Make(3, Seal(NewBlocks(code, 3), cur, Goto(f[1])))
         /\ cur' = f[1]
         /\ CtrlPush(f[3], f[2])
         /\ Then(<<One(Kid(1)), Task("test", Kid(2), f)>>)
  /\ Quiet

Test ==
  /\ Rest("test")
  /\ ctrl' = CtrlPop
  /\ code' = Seal(Seal(code, cur, Goto(Blk(2))), Blk(2), Branch(Top.id, Blk(1), Blk(3)))
  /\ cur' = Blk(3)
  /\ Then(<<>>)
  /\ UNCHANGED <<list, nextId, errors>>
  /\ Quiet

\* The parts of a for: the declarations in front count as the first clause.
InitEnd(kid) ==
  IF kid[1].k # "VAR" THEN 1
  ELSE Max({n \in 1 .. Len(kid) : \A m \in 1 .. n : kid[m].k = "VAR"})

\* The first clause into the current block; cond, body, update, exit.
For ==
  /\ At("FOR")
  /\ LET e == InitEnd(Top.kid)
         cond == Kid(e + 1)  update == Kid(e + 2)  body == Kid(e + 3)
         begun == IF Kid(1).k = "EXPR" THEN Push(code, cur, Eval(Kid(1).id)) ELSE code
         f == Fresh(4)
         entered == Seal(NewBlocks(begun, 4), cur, Goto(f[1]))
     IN  /\ e + 3 <= Len(Top.kid)
         /\ Make(4, Seal(entered, f[1], IF cond.k = "NULL" THEN Goto(f[2])
                                       ELSE Branch(cond.id, f[2], f[4])))
         /\ cur' = f[2]
         /\ CtrlPush(f[4], f[3])
         /\ Then(<<One(body), Task("update", update, f)>>)
  /\ Quiet

Update ==
  /\ Rest("update")
  /\ ctrl' = CtrlPop
  /\ LET joined == Seal(code, cur, Goto(Blk(3)))
         stepped == IF Top.k = "NULL" THEN joined ELSE Push(joined, Blk(3), Eval(Top.id))
     IN  code' = Seal(stepped, Blk(3), Goto(Blk(1)))
  /\ cur' = Blk(4)
  /\ Then(<<>>)
  /\ UNCHANGED <<list, nextId, errors>>
  /\ Quiet

-----------------------------------------------------------------------------
(* switch: the exit block, one block per clause, the dispatch, then the    *)
(* clauses in order.                                                       *)

\* collect_cases: an enumeration constant keeps the placeholder 0.
LabelValue(n) == IF n.a.enum THEN 0 ELSE n.a.value
Cases(n) == SelectSeq([i \in 1 .. Len(n.kid) |-> i],
                      LAMBDA i : n.kid[i].k = "case")
DefaultOf(n, f) ==
  LET ds == {i \in 1 .. Len(n.kid) : n.kid[i].k = "default"}
  IN  IF ds = {} THEN f[1] ELSE f[1 + Min(ds)]

Table(n, f) ==
  SwitchTo([j \in 1 .. Len(Cases(n)) |-> LabelValue(n.kid[Cases(n)[j]])],
           <<DefaultOf(n, f)>> \o [j \in 1 .. Len(Cases(n)) |-> f[1 + Cases(n)[j]]])

\* The compare chain: case j is tested in the j-th block of the chain.
Compare(cd, n, f, k) ==
  LET tests == [j \in 1 .. Len(Cases(n)) |->
                  Item("EQ", <<LabelValue(n.kid[Cases(n)[j]])>>,
                       <<f[1 + Cases(n)[j]], f[k + j]>>)]
      at(j) == IF j = 1 THEN cur ELSE f[k + j - 1]
      m == Len(Cases(n))
      chain == [b \in DOMAIN cd |->
                  IF \E j \in 1 .. m : at(j) = b
                  THEN Append(cd[b], tests[CHOOSE j \in 1 .. m : at(j) = b]) ELSE cd[b]]
  IN  Push(chain, f[k + m], Goto(DefaultOf(n, f)))

Switch ==
  /\ At("SWITCH")
  /\ LET k == Len(Top.kid) + 1
         m == Len(Cases(Top))
         n == IF m > MaxCases THEN k + m ELSE k
         f == Fresh(n)
         valued == Push(NewBlocks(code, n), cur, Item("pick", Top.id, <<>>))
     IN  /\ Make(n, IF m = 0 THEN Seal(valued, cur, Goto(DefaultOf(Top, f)))
                    ELSE IF m <= MaxCases THEN Seal(valued, cur, Table(Top, f))
                    ELSE Compare(valued, Top, f, k))
         /\ cur' = IF m > MaxCases THEN f[n] ELSE cur
         /\ CtrlPush(f[1], NoTarget)
         /\ Then(<<Task("clauses", Top.kid, f)>>)
  /\ Quiet

\* The next clause, into its block; an empty one leaves the cursor there.
Clause ==
  /\ Rest("clauses") /\ Top # <<>>
  /\ cur' = Blk(2)
  /\ LET left == Task("clauses", Tail(Top), <<Blk(1)>> \o SubSeq(Head(todo).b, 3, Len(Head(todo).b)))
         n == Head(Top)
     IN  Then(IF n.kid = <<>> THEN <<left>>
              ELSE <<Chain(n.kid), Task("prune", <<>>, <<>>), left>>)
  /\ UNCHANGED <<list, code, nextId, ctrl, errors>>
  /\ Quiet


\* prune_empty_tail_block: nobody asks whether a terminator names the block.
Prunable == cur = list[Len(list)] /\ code[cur] = <<>> /\ cur # 0

\* Mutant: the cursor stays on the block that was freed.
PruneUnderCursor ==
  /\ Rest("prune") /\ Prunable
  /\ list' = SelectSeq(list, LAMBDA b : b # cur)
  /\ code' = [b \in DOMAIN code \ {cur} |-> code[b]]
  /\ Then(<<>>)
  /\ UNCHANGED <<cur, nextId, ctrl, errors>>
  /\ Quiet

Prune ==
  /\ Rest("prune") /\ Prunable
  /\ list' = SelectSeq(list, LAMBDA b : b # cur)
  /\ code' = [b \in DOMAIN code \ {cur} |-> code[b]]
  /\ cur' = list[Len(list) - 1]
  /\ Then(<<>>)
  /\ UNCHANGED <<nextId, ctrl, errors>>
  /\ Quiet

KeepTail ==
  /\ Rest("prune") /\ ~Prunable
  /\ Then(<<>>)
  /\ UNCHANGED <<list, code, cur, nextId, ctrl, errors>>
  /\ Quiet

LeaveSwitch ==
  /\ Rest("clauses") /\ Top = <<>>
  /\ ctrl' = CtrlPop
  /\ code' = Seal(code, cur, Goto(Blk(1)))
  /\ cur' = Blk(1)
  /\ Then(<<>>)
  /\ UNCHANGED <<list, nextId, errors>>
  /\ Quiet

-----------------------------------------------------------------------------
(* The lowered function runs: blocks in the order of the list, an open one *)
(* into the next, as the code generator lays them out.                     *)

RECURSIVE Reach(_, _, _, _, _)
\* The next item but gotos from block b, position i, on; a walk that leaves
\* the code, or takes more than "fuel" blocks, is lost.
Reach(cd, ls, b, i, fuel) ==
  IF fuel = 0 \/ b \notin DOMAIN cd \/ (i > Len(cd[b]) /\ ls[Len(ls)] = b)
    THEN [b |-> b, i |-> 0]
  ELSE IF i > Len(cd[b])
    THEN LET k == CHOOSE n \in 1 .. Len(ls) : ls[n] = b
         IN  Reach(cd, ls, ls[k + 1], 1, fuel - 1)
  ELSE IF cd[b][i].op = "GOTO" THEN Reach(cd, ls, cd[b][i].tgt[1], 1, fuel - 1)
  ELSE [b |-> b, i |-> i]

Onward(b, i) == Reach(code, list, b, i, nextId + 1)

RECURSIVE Dispatch(_, _)
\* SWITCH and the compare chain, silent too, for the value v.
Dispatch(at, v) ==
  IF at.i = 0 THEN at
  ELSE LET it == code[at.b][at.i]
           hits == {n \in 1 .. Len(it.id) : it.id[n] = v}
    IN CASE it.op = "SWITCH" ->
              Dispatch(Onward(it.tgt[IF hits = {} THEN 1 ELSE 1 + Min(hits)], 1), v)
         [] it.op = "EQ" -> Dispatch(Onward(it.tgt[IF hits = {} THEN 2 ELSE 1], 1), v)
         [] OTHER -> at

\* The event at the place the machine has come to.
MEvent ==
  IF pc.i = 0 THEN Event("lost", <<>>)
  ELSE LET it == code[pc.b][pc.i]
       IN  Event(IF it.op = "BRANCH" THEN "test" ELSE it.op, it.id)

\* The end of ir_lower_function: an open last block returns. A unit with an
\* error has no module.
Finish ==
  /\ Rest("end")
  /\ code' = Seal(code, cur, Ret("end", <<>>))
  /\ Then(<<>>)
  /\ UNCHANGED <<list, cur, nextId, ctrl, errors, prog>>
  /\ IF errors > 0 THEN phase' = "rejected" /\ UNCHANGED <<c, pc>>
     ELSE /\ phase' = "run"
          /\ c' = Settled(<<Do(prog, <<>>)>>)
          /\ pc' = Reach(code', list, 0, 1, nextId + 1)

\* One event of both, with the same outcome.
Run ==
  /\ phase = "run" /\ MEvent = CEvent(c) /\ CEvent(c).e \notin {"return", "end"}
  /\ LET it == code[pc.b][pc.i]
     IN  \E o \in (CASE it.op = "BRANCH" -> {0, 1} [] it.op = "pick" -> Values
                      [] OTHER -> {0}) :
           /\ c' = CStep(c, o)
           /\ pc' = CASE it.op = "BRANCH" -> Onward(it.tgt[2 - o], 1)
                      [] it.op = "pick" -> Dispatch(Onward(pc.b, pc.i + 1), o)
                      [] OTHER -> Onward(pc.b, pc.i + 1)
  /\ UNCHANGED <<prog, phase, lowering>>

Stop ==
  /\ phase = "run" /\ (CEvent(c).e \in {"return", "end"} \/ MEvent # CEvent(c))
  /\ phase' = "done"
  /\ UNCHANGED <<prog, lowering, c, pc>>

Lowering ==
  \/ Walk \/ Compound \/ Nothing \/ Expression \/ Return \/ Jump \/ JumpNowhere
  \/ Malformed \/ If \/ Else \/ Merge \/ While \/ Loop \/ DoWhile \/ Test \/ For
  \/ Update \/ Switch \/ Clause \/ Prune \/ KeepTail \/ LeaveSwitch \/ Finish

\* The lowering ends, and both programs have ended or will not.
Over == phase \in {"rejected", "done"} /\ UNCHANGED vars

Next == Lowering \/ Run \/ Stop \/ Over

Spec == Init /\ [][Next]_vars

-----------------------------------------------------------------------------
(* Properties.                                                             *)

\* The block list holds the blocks there are, once each; the cursor is one of
\* them; the control stack keeps its limit.
TypeOK ==
  /\ phase \in {"lower", "rejected", "run", "done"}
  /\ Range(list) = DOMAIN code /\ Len(list) = Cardinality(DOMAIN code)
  /\ cur \in DOMAIN code /\ DOMAIN code \subseteq 0 .. nextId - 1
  /\ Len(ctrl) <= MaxCtrl /\ errors \in Nat

\* A node with this property somewhere in the tree.
RECURSIVE Somewhere(_, _)
Somewhere(P(_), n) == P(n) \/ \E i \in 1 .. Len(n.kid) : Somewhere(P, n.kid[i])

\* The code departs from C, first: an enumeration constant as a case label is
\* dispatched as 0. The comment in collect_cases has "semantic resolves" it,
\* but pass 2 only looks its name up (semantic_pass2.c:746).
EnumMisread(n) == n.k = "case" /\ n.a.enum /\ n.a.value # 0

\* What a chain of statements leaves code for, in order.
RECURSIVE Flat(_)
Flat(ns) ==
  IF ns = <<>> THEN <<>>
  ELSE (CASE Head(ns).k = "BLOCK" -> Flat(Head(ns).kid)
          [] Head(ns).k \in {"VAR", "NULL"} -> <<>>
          [] OTHER -> <<Head(ns)>>) \o Flat(Tail(ns))

\* A statement never gets to its end.
RECURSIVE Leaves(_)
Leaves(n) ==
  \/ n.k \in {"RETURN", "BREAK", "CONTINUE"}
  \/ n.k = "BLOCK" /\ \E i \in 1 .. Len(n.kid) : Leaves(n.kid[i])
  \/ n.k = "IF" /\ Len(n.kid) > 2 /\ Leaves(n.kid[2]) /\ Leaves(n.kid[3])

\* A statement makes blocks.
Joins == {"IF", "WHILE", "DO", "FOR"}
MakesBlock(n) ==
  n.k \in Joins \cup {"SWITCH", "RETURN", "BREAK", "CONTINUE"} \/ (n.k = "EXPR" /\ n.a)

\* Second: a clause that gets to its end in another block than it began in
\* falls into whatever block comes next, in any clause but the last. At the
\* end of the last one the block a statement joins in is pruned when it is the
\* last block there is: none was made for the statement's parts.
OpenClause(n) ==
  n.k = "SWITCH" /\ \E i \in 1 .. Len(n.kid) :
    LET ns == Flat(n.kid[i].kid)
        last == ns[Len(ns)]
    IN  /\ ns # <<>> /\ ~Leaves(last)
        /\ IF i < Len(n.kid) THEN \E j \in 1 .. Len(ns) : Somewhere(MakesBlock, ns[j])
           ELSE /\ last.k \in Joins /\ ~(last.k = "IF" /\ Len(last.kid) > 2)
                /\ \A j \in 1 .. Len(last.kid) : ~Somewhere(MakesBlock, last.kid[j])

\* The lowered function shows the events of the C program, in its order: no
\* expression, test, switch or return too many, too few or elsewhere, in any
\* body without a misread label or an open clause.
SameBehaviour ==
  phase = "run" /\ ~Somewhere(EnumMisread, Body) /\ ~Somewhere(OpenClause, Body)
    => MEvent = CEvent(c)

\* A block that has its terminator is never written to again: what the walk
\* emits goes where control can come.
SealedStaysSealed ==
  [][\A b \in DOMAIN code \cap DOMAIN code' : Sealed(code, b) => code'[b] = code[b]]_vars

\* The blocks a terminator of the code names.
Named(cd) == UNION {Range(i.tgt) : i \in UNION {Range(cd[b]) : b \in DOMAIN cd}}

\* A block taken out was the dead one behind a jump: no terminator names it
\* (with an error the code is thrown away; of an open clause, see above).
OnlyDeadBlocksPruned ==
  [][errors = 0 /\ ~Somewhere(OpenClause, Body)
       => (DOMAIN code \ DOMAIN code') \cap Named(code) = {}]_vars


\* What the lowering has no code for: a body that is the empty statement, a
\* continue whose nearest enclosing statement of the kind is a switch, and
\* control statements nested deeper than the stack.
RECURSIVE Lowerable(_, _)
Lowerable(n, encl) ==
  LET opens == n.k \in {"WHILE", "DO", "FOR", "SWITCH"}
      e == IF opens THEN Append(encl, n.k) ELSE encl
  IN  /\ n.k \in {"IF", "WHILE", "DO"} => Len(n.kid) >= 2
      /\ n.k = "CONTINUE" => encl # <<>> /\ encl[Len(encl)] # "SWITCH"
      /\ Len(e) <= MaxCtrl
      /\ \A i \in 1 .. Len(n.kid) : Lowerable(n.kid[i], e)

\* A function is rejected for one of these reasons and for no other.
RejectedForCause == phase # "lower" => (phase = "rejected" <=> ~Lowerable(Body, <<>>))

\* A jump out of the body n of a do-while to its test or its end, before
\* anything in front of it has returned. A continue in a switch is rejected.
RECURSIVE Escapes(_)
Escapes(n) ==
  \/ n.k \in {"BREAK", "CONTINUE"}
  \/ n.k \in {"BLOCK", "IF"} /\ \E i \in 1 .. Len(n.kid) :
       /\ Escapes(n.kid[i])
       /\ n.k = "BLOCK" => \A j \in 1 .. i - 1 : ~GuaranteesReturn(n.kid[j])

\* The analysis is not what its comment says, "non-zero only when ALL paths
\* through the statement provably return" (semantic_pass2.c:925): it takes a
\* do-while for its body, whatever jumps lead out of it.
LeftDo(n) == n.k = "DO" /\ Len(n.kid) > 1 /\ GuaranteesReturn(n.kid[1]) /\ Escapes(n.kid[1])

\* A body the return analysis passes never runs into its end, unless it is for
\* a do-while that a break or a continue leaves before its return.
ReturnsWhenGuaranteed ==
  phase = "run" /\ GuaranteesReturn(Body) /\ ~Somewhere(LeftDo, Body)
    => CEvent(c).e # "end"
=============================================================================
