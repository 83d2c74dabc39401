------------------------------ MODULE MCBackend -----------------------------
EXTENDS Backend

\* Four of the allocatable registers: those the generator takes as scratch
\* registers, and one that it does not.
Few == {"a0", "t0", "t1", "t2"}
Targets == Few
Vregs == {V(r) : r \in Few}
Operands == Vregs \cup {N(n) : n \in {0, 5, -3, 300}} \cup {G(512)}
MCGlobals == {512, 513}
MCRegisters ==
  {[a0 |-> 3, a1 |-> 40, a2 |-> 50, t0 |-> 65534, t1 |-> 70, t2 |-> 4],
   [a0 |-> 40000, a1 |-> 40, a2 |-> 50, t0 |-> 2, t1 |-> 70, t2 |-> 0]}

Binaries ==
  {"ADD", "SUB", "AND", "OR", "XOR", "SHL", "SHRU", "SHRS"} \cup Comparisons
IsConst(o) == o.k \in {"imm", "global"} /\ o # N(0)

\* The instructions whose code the README lists as wrong: they are not in the
\* inputs of the passing run.
Misexpanded(i) ==
  \/ i.op = "OR" /\ i.d # "t0"
  \/ i.op = "OR" /\ i.a.r = i.d /\ i.b.r = "t0"
  \/ i.op \in {"SHRU", "SHRS"} /\ IsConst(i.a) /\ i.b.r = i.d
  \/ i.op = "SHL" /\ ~IsImm(i.b) /\ (IsConst(i.a) \/ IsConst(i.b) \/ (i.b.r = i.d /\ i.a.r # i.d))
  \/ i.op = "GEP" /\ i.w # 1 /\ i.a.r = i.d
  \/ IsConst(i.a) /\ IsConst(i.b)
  \/ i.op = "SEXT" /\ i.w = 8 /\ ~IsImm(i.a)
\* C does not define a shift by less than none; those by more take long.
Shifts == {"SHL", "SHRU", "SHRS"}
Undefined(i) == i.op \in Shifts /\ ~(i.b = V("t2") \/ (IsImm(i.b) /\ i.b.n >= 0))

\* An instruction alone, and the end of its function.
Alone(i) == [blocks |-> <<<<i, Ir("RET", "", V(i.d), None, 0)>>>>, slots |-> 0, params |-> 0]

Pure ==
  {Ir(op, d, a, b, 0) : op \in Binaries, d \in Targets, a \in Operands, b \in Operands}
  \cup {Ir("GEP", d, a, b, w) : d \in Targets, a \in Vregs, b \in Operands, w \in {1, 2, 4}}
  \cup {Ir(op, d, a, None, w) : op \in {"ZEXT", "SEXT"}, d \in Targets, a \in Operands, w \in {8, 16}}
  \cup {Ir(op, d, a, None, 0) : op \in {"COPY", "TRUNC", "NEG", "NOT"}, d \in Targets, a \in Operands}
\* Sums with a constant at the borders of the immediate field.
Borders ==
  {Ir(op, d, V("t0"), N(n), 0) : op \in {"ADD", "SUB"}, d \in {"a0", "t0"},
                                 n \in {-16, -9, -8, 7, 8, 15, 16}}
MCAlone == {Alone(i) : i \in Borders \cup {j \in Pure : ~Misexpanded(j) /\ ~Undefined(j)}}

-----------------------------------------------------------------------------
(* Frames: with and without a call, saved registers, slots and parameters  *)
(* on the stack.                                                           *)

Frame(calls, saved, slots, params) ==
  LET If(c, is) == IF c THEN is ELSE <<>>
      body ==
        FlattenSeq([k \in DOMAIN saved |-> <<Ir("CONST", saved[k], N(20 + k), None, 0)>>])
        \o If(slots > 0, <<Ir("ADDR_OF", "t2", Slot(slots - 1), None, 0),
                           Ir("STORE", "", V("t2"), V("a0"), 16)>>)
        \o If(calls, <<Ir("CALL", "a1", None, None, 0)>>)
        \o If(params > 3, <<Ir("ADDR_OF", "t0", Slot(params - 1), None, 0),
                            Ir("LOAD", "a1", V("t0"), None, 16)>>)
  IN  [blocks |-> <<body \o <<Ir("RET", "", IF calls \/ params > 3 THEN V("a1") ELSE None, None, 0)>>>>,
       slots |-> slots, params |-> params]
MCFrames ==
  {Frame(c, s, n, p) : c \in BOOLEAN, s \in {<<>>, <<"s0">>, <<"s0", "s3">>},
                       n \in {6, 7, 12}, p \in {3, 4, 5}}
  \cup {Frame(c, s, n, 3) : c \in BOOLEAN, s \in {<<>>, <<"s1">>}, n \in {0, 1}}

\* Memory other than slots, and an element of an array of three-word elements.
MCMemory ==
  {[blocks |-> <<<<Ir("STORE", "", G(512), o, w), Ir("LOAD", "a1", G(512), None, w),
                   Ir("COPY", "a1", G(513), None, 0), Ir("STORE", "", V("a1"), v, w),
                   Ir("LOAD", "a0", V("a1"), None, w), Ir("RET", "", r, None, 0)>>>>,
    slots |-> 0, params |-> 1] : o \in {V("a0"), V("t2")}, w \in {8, 16},
     v \in {V("t0"), N(-3), G(513)}, r \in {N(300), G(512)}}
\* An element of an array of three-word elements, in a function that calls another.
Element(d, a, b) ==
  [blocks |-> <<<<Ir("CALL", "a0", None, None, 0), Ir("GEP", d, a, b, 3),
                  Ir("RET", "", V(d), None, 0)>>>>,
   slots |-> 0, params |-> 0]
MCElements ==
  {Element(d, a, b) : d \in {"a0", "s0"}, a \in {V("a0"), V("s1"), G(512)},
                      b \in {V("a0"), V("s1"), N(5)}}
  \ {Element(d, G(512), N(5)) : d \in {"a0", "s0"}}

\* A call without a result, between a register and a word that survive it.
MCVoids ==
  {[blocks |-> <<<<Ir("COPY", "s0", V("a0"), None, 0), Ir("STORE", "", G(512), V("t1"), 16),
                   Ir("CALL", "", None, None, 0), Ir("LOAD", d, G(512), None, 16),
                   Ir("ADD", d, V(d), V("s0"), 0), Ir("RET", "", r, None, 0)>>>>,
    slots |-> n, params |-> 1] : d \in {"a0", "s1"}, r \in {None, V("s0")}, n \in {0, 2}}

-----------------------------------------------------------------------------
(* Control flow: a loop over a test and a switch, with f, g and h          *)
(* instructions between them.                                              *)

Filler(n) == Ir("SHL", "a1", V("a1"), N(n), 0)
Looping(f, g, h) ==
  [blocks |->
     <<<<Ir("CONST", "t1", N(2), None, 0), Ir("GOTO", "", None, None, 2)>>,
       <<Filler(f), Ir("BRANCH", "", V("t1"), N(4), 3)>>,
       <<Filler(g), Ir("SUB", "t1", V("t1"), N(1), 0), Ir("GOTO", "", None, None, 2)>>,
       <<Filler(h), Ir("RET", "", V("a1"), None, 0)>>>>,
   slots |-> 0, params |-> 0]
Switching(v, fs) ==
  LET cases == Len(fs)
      onward(n) == <<Filler(n), Ir("GOTO", "", None, None, cases + 3)>>
  IN  [blocks |->
         <<<<Ir("CONST", "a0", v, None, 0), Ir("SWITCH", "", V("a0"), N(-1), cases)>>>>
           \o [k \in 1 .. cases |-> onward(fs[k])]
           \o <<onward(1), <<Ir("RET", "", V("a1"), None, 0)>>>>,
       slots |-> 0, params |-> 0]
\* Among the switches of four cases are those in which the second round makes
\* so many branches long that one before them is out of reach.
MCFlow ==
  {Looping(f, g, h) : f \in {0, 3, 6, 9}, g \in {0, 3, 6, 9}, h \in {0, 4}}
  \cup {Switching(v, <<f, g, h>>) : v \in {N(-1), N(0), N(1), N(2)},
          f \in {0, 2, 3, 4}, g \in {0, 3, 4}, h \in {0, 4, 9}}
  \cup {Switching(v, <<f, g, h, 0>>) : v \in {N(-1), N(2), N(3)},
          f \in {0, 2}, g \in {1, 3}, h \in {0, 1}}
MCFunctions == MCAlone \cup MCElements \cup MCFrames \cup MCMemory \cup MCVoids \cup MCFlow
=============================================================================
