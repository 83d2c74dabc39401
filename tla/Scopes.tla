------------------------------- MODULE Scopes -------------------------------
(***************************************************************************)
(* Names, from their declaration to their storage: the scope stack         *)
(* (src/Semantic/symbol.c), pass 1 that fills it (semantic_pass1.c), pass 2 *)
(* that enters the scopes of a function again and binds the uses           *)
(* (semantic_pass2.c), and the slots lowering gives the variables          *)
(* (ir_lower_decl.c, resolve_symbol_ref). The three walk the tree in the   *)
(* same order; a unit is therefore a sequence of the nodes they meet.      *)
(*                                                                         *)
(* A node is [t, n, w]: what it is, its name, its size in words (of an     *)
(* object) or its signature (of a function).                               *)
(*   obj, param, enum   a declaration; enum declares one constant          *)
(*   use                an expression statement with an identifier         *)
(*   fun, proto         a function: its parameters, its body, end          *)
(*   block, for, switch opened here, closed by an end of their own; a for  *)
(*                      has its declarations or null, null, null, its body *)
(***************************************************************************)
EXTENDS Naturals, Sequences, FiniteSetsExt

CONSTANT Programs      \* the units considered

Node(t, n, w) == [t |-> t, n |-> n, w |-> w]

-----------------------------------------------------------------------------
(* The shape of a unit.                                                    *)

Opens == {"fun", "proto", "block", "for", "switch"}
Declares == {"obj", "param", "enum", "fun", "proto"}
Kinds == Opens \cup Declares \cup {"use", "null", "end"}
Kind(p, i, ts) == i \in 1 .. Len(p) /\ p[i].t \in ts

\* The end that closes the node at k.
EndOf(p, k) ==
  Min({j \in k + 1 .. Len(p) :
         Cardinality({m \in k .. j : Kind(p, m, Opens)})
           = Cardinality({m \in k .. j : Kind(p, m, {"end"})})})
Ends(p) == [k \in {i \in 1 .. Len(p) : Kind(p, i, Opens)} |-> EndOf(p, k)]
\* The node that opened what i is in, and that an end closes; 0 for the file.
Parents(p, closes) ==
  [i \in 1 .. Len(p) |-> Max({0} \cup {k \in 1 .. i - 1 : k \in DOMAIN closes /\ closes[k] > i})]

(***************************************************************************)
(* A unit comes from a tree, and the grammar says what may be in what: the *)
(* declarations of the file, the parameters of a function or a prototype,  *)
(* and statements and declarations in the body of a function, its last.    *)
(***************************************************************************)
Shaped(p) ==
  LET closes == Ends(p)
      in == Parents(p, closes)
      Those(ts) == {k \in DOMAIN closes : p[k].t \in ts}
  IN  /\ \A k \in DOMAIN closes : closes[k] \in k + 1 .. Len(p) /\ p[closes[k]].t = "end"
      /\ \A j, k \in DOMAIN closes : j < k => closes[j] < k \/ closes[k] < closes[j]
      /\ \A i \in 1 .. Len(p) :
           /\ p[i].t \in {"fun", "proto"} => in[i] = 0
           /\ p[i].t \in {"obj", "enum"} => in[i] \in {0} \cup Those({"block", "for", "switch"})
           /\ p[i].t = "param" => in[i] \in Those({"fun", "proto"})
           /\ p[i].t = "block" => in[i] \in Those({"fun", "block", "for", "switch"})
           /\ p[i].t \in {"for", "switch", "use", "null"} => in[i] \in Those({"block", "for", "switch"})
           /\ p[i].t = "end" => \E k \in DOMAIN closes : closes[k] = i
      /\ \A i, j \in 1 .. Len(p) :
           p[j].t = "block" /\ in[j] \in Those({"fun"}) /\ in[i] = in[j] /\ p[i].t # "end" => i <= j

ASSUME UnitsAssumption ==
  \A p \in Programs :
    /\ p \in Seq([t : Kinds, n : STRING, w : Nat])
    /\ Shaped(p)

-----------------------------------------------------------------------------
VARIABLES
  prog,      \* the unit
  ends, up,  \* the shape of its tree: where a node closes, what a node is in
  phase,     \* "pass1", "pass2", "lower", "done"
  pos,       \* the node the walk has come to
  scopes,    \* scope_stack, the file's scope first: name -> symbol
  errors,    \* the codes diagnosed
  info,      \* semantic_set_node_info: node -> the symbol it is annotated with
  slots,     \* func->slots: name -> slot id
  nextSlot,  \* func->next_slot_id
  place,     \* node of a variable -> its slot; of a use -> what is addressed
  module     \* the globals and functions the module holds

vars == <<prog, ends, up, phase, pos, scopes, errors, info, slots, nextSlot, place, module>>

Places == 1 .. Len(prog)
Is(i, ts) == Kind(prog, i, ts)
Close(k) == ends[k]
Encl(i) == up[i]
Opener(i) == CHOOSE k \in DOMAIN ends : Close(k) = i
\* The number of i among the children of the node it is in.
Child(i) == Cardinality({k \in 1 .. i : Encl(k) = Encl(i) /\ ~Is(k, {"end"})})

\* f with y at x.
Put(f, x, y) == [z \in DOMAIN f \cup {x} |-> IF z = x THEN y ELSE f[z]]

-----------------------------------------------------------------------------
(* symbol.c                                                                *)

Here == Len(scopes)
Pushed(sc) == Append(sc, <<>>)
\* Mutant: the scope stays.
PoppedNever(sc) == sc
Popped(sc) == SubSeq(sc, 1, Len(sc) - 1)
Insert(sc, n, sym) == [sc EXCEPT ![Len(sc)] = Put(@, n, sym)]

\* symbol_lookup_current
Current(n) == n \in DOMAIN scopes[Here]
Levels(n) == {k \in 1 .. Here : n \in DOMAIN scopes[k]}
\* Mutant: the outermost declaration is found first.
VisibleOutermost(n) == scopes[Min(Levels(n))][n]
\* symbol_lookup_visible, for a name that is visible
Visible(n) == scopes[Max(Levels(n))][n]

-----------------------------------------------------------------------------
(* Pass 1.                                                                 *)

Step == pos <= Len(prog) /\ pos' = pos + 1
In(p, ts) == phase = p /\ Is(pos, ts) /\ Step
The == prog[pos]
KeepLowering == UNCHANGED <<slots, nextSlot, place, module>>
Keep == UNCHANGED <<prog, ends, up, phase>>

\* Mutant: the class of a local variable is left as it was.
ClassForgotten(t, depth) ==
  CASE t = "param" -> "parameter"
    [] t \in {"fun", "proto"} \/ (t = "obj" /\ depth = 1) -> "global"
    [] t = "enum" \/ (t = "obj" /\ depth # 1) -> "none"
\* memory_class, of register_symbol and register_local_decl
Class(t, depth) ==
  CASE t = "param" -> "parameter"
    [] t \in {"fun", "proto"} \/ (t = "obj" /\ depth = 1) -> "global"
    [] t = "obj" /\ depth # 1 -> "stack"
    [] t = "enum" -> "none"
Symbol(i, depth) ==
  [at |-> i, class |-> Class(prog[i].t, depth), defined |-> prog[i].t = "fun"]

\* Mutant: a name must be new among all the visible ones.
ClashVisible(n) == Levels(n) # {}
Clash(n) == Current(n)
IsFunction(i) == Is(i, {"fun", "proto"})

\* register_symbol: what it diagnoses ...
Diagnosed ==
  LET old == scopes[Here][The.n]
  IN IF ~Clash(The.n) THEN {}
     ELSE IF ~(IsFunction(pos) /\ Current(The.n) /\ IsFunction(old.at)) THEN {"SEM002"}
     ELSE IF prog[old.at].w # The.w THEN {"SEM004"}
     ELSE IF The.t = "fun" /\ old.defined THEN {"SEM005"} ELSE {}
\* ... and the scopes it leaves: a prototype is marked when it is defined.
Registered ==
  IF ~Clash(The.n) THEN Insert(scopes, The.n, Symbol(pos, Here))
  ELSE IF Diagnosed = {} /\ The.t = "fun"
    THEN [scopes EXCEPT ![Here][The.n].defined = TRUE]
  ELSE scopes

\* pass1_cache_decl_node: the symbol the name has in the current scope.
Cached == IF Current(The.n) THEN scopes[Here][The.n] ELSE Symbol(pos, Here)

Declare1 ==
  /\ In("pass1", {"obj", "param", "enum"})
  /\ scopes' = Registered /\ errors' = errors \cup Diagnosed
  /\ info' = IF The.t = "enum" THEN info ELSE Put(info, pos, Cached)
  /\ KeepLowering /\ Keep

\* handle_function_node: the name outside, the parameters inside.
Function1 ==
  /\ In("pass1", {"fun", "proto"})
  /\ scopes' = Pushed(Registered) /\ errors' = errors \cup Diagnosed
  /\ info' = Put(info, pos, Cached)
  /\ KeepLowering /\ Keep

\* No scope for the statements of a switch; a null is walked over.
Open(p) ==
  /\ In(p, {"block", "for", "switch", "null"})
  /\ scopes' = IF The.t \in {"switch", "null"} THEN scopes ELSE Pushed(scopes)
  /\ UNCHANGED <<errors, info>> /\ KeepLowering /\ Keep

Leave(p) ==
  /\ In(p, {"end"})
  /\ scopes' = IF Is(Opener(pos), {"switch"}) THEN scopes ELSE Popped(scopes)
  /\ UNCHANGED <<errors, info>> /\ KeepLowering /\ Keep

\* check_expression_identifier_uses: not visible yet, and declared behind.
Early ==
  Levels(The.n) = {} /\ \E k \in pos + 1 .. Len(prog) :
    Encl(k) = Encl(pos) /\ Is(k, {"obj"}) /\ prog[k].n = The.n
Use1 ==
  /\ In("pass1", {"use"}) /\ ~Early
  /\ UNCHANGED <<scopes, errors, info>> /\ KeepLowering /\ Keep

\* SEM006 ends the walk, and with it the analysis.
EarlyUse ==
  /\ phase = "pass1" /\ Is(pos, {"use"}) /\ Early
  /\ errors' = errors \cup {"SEM006"} /\ phase' = "done"
  /\ UNCHANGED <<prog, ends, up, pos, scopes, info>> /\ KeepLowering

-----------------------------------------------------------------------------
(* Pass 2: the file's scope is as pass 1 left it.                          *)

\* Of the parts of a for, the first is declared, the next two are taken for
\* the condition and the step, and are evaluated.
Skipped(i) == Is(Encl(i), {"for"}) /\ Child(i) \in {2, 3}

\* register_local_decl
Declare2 ==
  /\ In("pass2", {"obj", "param"})
  /\ IF Here = 1 \/ Skipped(pos) THEN UNCHANGED <<scopes, info>>
     ELSE /\ scopes' = IF Current(The.n) THEN scopes
                       ELSE Insert(scopes, The.n, Symbol(pos, Here))
          /\ info' = Put(info, pos, Cached)
  /\ UNCHANGED errors /\ KeepLowering /\ Keep

\* Tags and enumeration constants are not declared again.
Enum2 ==
  /\ In("pass2", {"enum"})
  /\ UNCHANGED <<scopes, info, errors>> /\ KeepLowering /\ Keep

Function2 ==
  /\ In("pass2", {"fun", "proto"})
  /\ scopes' = Pushed(scopes)
  /\ UNCHANGED <<info, errors>> /\ KeepLowering /\ Keep

\* infer_expr_type of an identifier
Use2 ==
  /\ In("pass2", {"use"})
  /\ IF Levels(The.n) = {} THEN errors' = errors \cup {"SEM001"} /\ UNCHANGED info
     ELSE info' = Put(info, pos, Visible(The.n)) /\ UNCHANGED errors
  /\ UNCHANGED scopes /\ KeepLowering /\ Keep

-----------------------------------------------------------------------------
(* Lowering.                                                               *)

KeepNames == UNCHANGED <<scopes, errors, info>>
Slot(s) == [kind |-> "slot", id |-> s]
Global(n) == [kind |-> "global", id |-> n]

\* Mutant: a variable takes one word, whatever its size.
NewSlotOfOne(n, w) ==
  slots' = Put(slots, n, nextSlot) /\ nextSlot' = nextSlot + 1
\* ir_new_slot, with the words ir_lower_local_decl adds for an aggregate.
NewSlot(n, w) ==
  slots' = Put(slots, n, nextSlot) /\ nextSlot' = nextSlot + w

\* ir_lower_local_decl, the parameters of ir_lower_function: a slot of the
\* name, if there is one, is taken again.
LowerLocal ==
  /\ In("lower", {"obj", "param"}) /\ Encl(pos) # 0 /\ ~Is(Encl(pos), {"proto"})
  /\ IF The.t = "obj" /\ The.n \in DOMAIN slots
       THEN place' = Put(place, pos, Slot(slots[The.n])) /\ UNCHANGED <<slots, nextSlot>>
       ELSE place' = Put(place, pos, Slot(nextSlot)) /\ NewSlot(The.n, The.w)
  /\ UNCHANGED module /\ KeepNames /\ Keep

\* ir_lower_global_decl, and the extern global a prototype becomes.
LowerGlobal ==
  /\ In("lower", {"obj", "proto"}) /\ Encl(pos) = 0
  /\ module' = module \cup {The.n}
  /\ UNCHANGED <<slots, nextSlot, place>> /\ KeepNames /\ Keep

\* ir_lower_function: a new function, without slots.
LowerFunction ==
  /\ In("lower", {"fun"})
  /\ module' = module \cup {The.n}
  /\ slots' = <<>> /\ nextSlot' = 0
  /\ UNCHANGED place /\ KeepNames /\ Keep

\* resolve_symbol_ref; a variable without a slot would be given one.
LowerUse ==
  /\ In("lower", {"use"})
  /\ LET local == info[pos].class \in {"stack", "parameter"}
     IN  IF ~local
           THEN place' = Put(place, pos, Global(The.n)) /\ UNCHANGED <<slots, nextSlot>>
         ELSE IF The.n \in DOMAIN slots
           THEN place' = Put(place, pos, Slot(slots[The.n])) /\ UNCHANGED <<slots, nextSlot>>
           ELSE place' = Put(place, pos, Slot(nextSlot)) /\ NewSlot(The.n, 1)
  /\ UNCHANGED module /\ KeepNames /\ Keep

\* What has no code of its own; the parameters of a prototype are not lowered.
LowerNothing ==
  /\ phase = "lower" /\ Step
  /\ \/ Is(pos, {"block", "for", "switch", "null", "end", "enum"})
     \/ Is(pos, {"param"}) /\ Is(Encl(pos), {"proto"})
  /\ UNCHANGED <<slots, nextSlot, place, module>> /\ KeepNames /\ Keep

-----------------------------------------------------------------------------
Init ==
  /\ prog \in Programs /\ ends = Ends(prog) /\ up = Parents(prog, ends) /\ phase = "pass1" /\ pos = 1
  /\ scopes = <<<<>>>> /\ errors = {} /\ info = <<>>
  /\ slots = <<>> /\ nextSlot = 0 /\ place = <<>> /\ module = {}

\* semantic_analyze, main: each stage if the one before has no error.
NextPass ==
  /\ phase # "done" /\ pos > Len(prog)
  /\ phase' = IF errors # {} \/ phase = "lower" THEN "done"
              ELSE IF phase = "pass1" THEN "pass2" ELSE "lower"
  /\ pos' = 1
  /\ UNCHANGED <<prog, ends, up, scopes, errors, info>> /\ KeepLowering

Over == phase = "done" /\ UNCHANGED vars

Next ==
  \/ Declare1 \/ Function1 \/ Open("pass1") \/ Leave("pass1") \/ Use1 \/ EarlyUse
  \/ Declare2 \/ Enum2 \/ Function2 \/ Open("pass2") \/ Leave("pass2") \/ Use2
  \/ LowerLocal \/ LowerGlobal \/ LowerFunction \/ LowerUse \/ LowerNothing
  \/ NextPass \/ Over

Spec == Init /\ [][Next]_vars

-----------------------------------------------------------------------------
(* Scopes by the rules of C: the parameters and the outermost block of a   *)
(* function are one scope, a for and a switch are scopes of their own.     *)

CEncl(i) ==
  LET k == Encl(i) IN IF Is(k, {"block"}) /\ Is(Encl(k), {"fun"}) THEN Encl(k) ELSE k
\* The node i is where a declaration at d is in scope.
InScope(i, d) == d < i /\ (CEncl(d) = 0 \/ (CEncl(d) < i /\ i < Close(CEncl(d))))
Declarations(n) == {d \in Places : Is(d, Declares) /\ prog[d].n = n}
Uses == {u \in Places : Is(u, {"use"})}

\* The scope whose declaration of the name a use refers to; NoScope: none.
NoScope == Len(prog) + 1
CScope(u) ==
  LET ds == {d \in Declarations(prog[u].n) : InScope(u, d)}
  IN  IF ds = {} THEN NoScope ELSE Max({CEncl(d) : d \in ds})
CDeclarations(u) == {d \in Declarations(prog[u].n) : d < u /\ CEncl(d) = CScope(u)}

\* Two declarations of one name in one scope that C allows.
Compatible(d, e) ==
  /\ prog[d].w = prog[e].w
  /\ \/ IsFunction(d) /\ IsFunction(e) /\ {prog[d].t, prog[e].t} # {"fun"}
     \/ Is(d, {"obj"}) /\ Is(e, {"obj"}) /\ CEncl(d) = 0

CLegal ==
  /\ \A u \in Uses : CScope(u) # NoScope
  /\ \A d, e \in {i \in Places : Is(i, Declares)} :
       d < e /\ prog[d].n = prog[e].n /\ CEncl(d) = CEncl(e) => Compatible(d, e)

(***************************************************************************)
(* Where the compiler's language is not C, each for a reason of its own.   *)
(***************************************************************************)
Departs ==
  \* A file-level object is declared once.
  \/ \E d, e \in Places : d < e /\ Is(d, {"obj"}) /\ Is(e, {"obj"})
                           /\ Encl(d) = 0 /\ Encl(e) = 0 /\ prog[d].n = prog[e].n
  \* The body of a function is a scope inside that of its parameters.
  \/ \E d, e \in Places : d < e /\ Is(d, {"param"}) /\ Is(e, {"obj", "enum"})
                           /\ prog[d].n = prog[e].n /\ CEncl(d) = CEncl(e)
  \* A switch is no scope: what it declares is known behind it.
  \/ \E d, i \in Places : Is(d, {"obj", "enum"}) /\ Is(Encl(d), {"switch"})
       /\ prog[i].n = prog[d].n /\ Encl(i) # 0 /\ Is(i, Declares \cup {"use"})
       /\ (Is(i, {"use"}) => i > d) /\ ~(Encl(d) < i /\ i < Close(Encl(d)))
  \* Bodies know every name of the file, also those declared behind them.
  \/ \E u \in Uses : CScope(u) = NoScope
                      /\ \E d \in Declarations(prog[u].n) : Encl(d) = 0
  \* Pass 2 has not the enumeration constants of a function, nor the second
  \* declarator of a for.
  \/ \E u \in Uses : CScope(u) # NoScope /\ \E d \in CDeclarations(u) :
       \/ Is(d, {"enum"}) /\ Encl(d) # 0
       \/ Skipped(d)

-----------------------------------------------------------------------------
(* Properties.                                                             *)

Done == phase = "done"
Accepted == Done /\ errors = {}

\* The walks keep the scopes of the nodes they are in, the file's always; a
\* symbol is that of a declaration, and annotations are of nodes walked over.
TypeOK ==
  /\ phase \in {"pass1", "pass2", "lower", "done"} /\ pos \in 1 .. Len(prog) + 1
  /\ Here >= 1
  /\ pos = Len(prog) + 1 => Here = 1
  /\ \A k \in 1 .. Here : \A n \in DOMAIN scopes[k] : scopes[k][n].at \in Declarations(n)
  /\ errors \subseteq {"SEM001", "SEM002", "SEM004", "SEM005", "SEM006"}
  /\ nextSlot \in Nat

\* Away from the listed departures the two passes accept what C accepts: what
\* pass 2 finds is what pass 1 saw, in spite of the scopes built twice.
AcceptsExactlyC == Done /\ ~Departs => (errors = {} <=> CLegal)

\* A use is bound to the declaration C binds it to.
BindsAsC ==
  Accepted /\ ~Departs =>
    \A u \in Uses : CEncl(info[u].at) = CScope(u) /\ prog[info[u].at].n = prog[u].n

\* What the code addresses is the storage of that declaration: the slot of
\* the variable, or a name the module holds (enumeration constants have none).
UsesReachStorage ==
  Accepted /\ ~Departs =>
    \A u \in Uses : \A d \in CDeclarations(u) :
      IF Encl(d) # 0 THEN place[u] = place[d]
      ELSE place[u] = Global(prog[u].n) /\ (Is(d, {"enum"}) \/ prog[u].n \in module)

\* The variables of functions, and the slots their words take.
Variables == {d \in Places : d \in DOMAIN place /\ Is(d, {"obj", "param"})}
Words(d) == place[d].id .. place[d].id + prog[d].w - 1
\* Two variables of a function that live at the same time.
Together(d, e) == d < e /\ InScope(e, d) /\ CEncl(d) # 0

\* Variables that live together share no word.
ObjectsApart ==
  Accepted => \A d, e \in Variables : Together(d, e) => Words(d) \cap Words(e) = {}

\* The same for functions that declare no name twice: a second variable of a name
\* takes the slot of the first (ir_lower_decl.c:297).
DistinctNamesApart ==
  Accepted /\ (\A d, e \in Variables : d # e => prog[d].n # prog[e].n) =>
    ObjectsApart
=============================================================================
