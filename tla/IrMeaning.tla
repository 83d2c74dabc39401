----------------------------- MODULE IrMeaning ------------------------------
(***************************************************************************)
(* What the instructions of the intermediate representation mean (src/IR/  *)
(* ir.h), on words of sixteen bits, for the code generator to be compared  *)
(* with. A state is [r, mem, next, ret]: the virtual registers, under the  *)
(* names of their homes, and the words of memory that are known; the block *)
(* a terminator chose; the value returned, in a sequence of at most one.   *)
(***************************************************************************)
EXTENDS Codegen

Bit(p) == IF p THEN 1 ELSE 0

Meaning(op, v, w, width) ==
  CASE op \in {"CONST", "COPY", "TRUNC", "BITCAST", "ADDR_OF"} -> v
    [] op = "ADD" -> Wrap(v + w)
    [] op = "SUB" -> Wrap(v - w)
    [] op = "AND" -> And(v, w)
    [] op = "OR" -> v + w - And(v, w)
    [] op = "XOR" -> v + w - 2 * And(v, w)
    [] op = "NEG" -> Wrap(-v)
    [] op = "NOT" -> 65535 - v
    [] op = "SHL" -> IF w > 15 THEN 0 ELSE Wrap((v % 2 ^ (16 - w)) * 2 ^ w)
    [] op = "SHRU" -> IF w > 15 THEN 0 ELSE v \div 2 ^ w
    [] op = "SHRS" -> IF w > 15 THEN Wrap(-Bit(v > 32767)) ELSE Wrap(SignedWord(v) \div 2 ^ w)
    [] op = "GEP" -> Wrap(v + w * width)
    [] op = "ZEXT" -> IF width = 1 THEN v % 2 ELSE IF width = 8 THEN v % 256 ELSE v
    [] op = "SEXT" -> Wrap(Extended(v, width))
    [] op = "EQ" -> Bit(v = w)
    [] op = "NEQ" -> Bit(v # w)
    [] op = "LTS" -> Bit(SignedWord(v) < SignedWord(w))
    [] op = "LES" -> Bit(SignedWord(v) <= SignedWord(w))
    [] op = "GTS" -> Bit(SignedWord(v) > SignedWord(w))
    [] op = "GES" -> Bit(SignedWord(v) >= SignedWord(w))
    [] op = "LTU" -> Bit(v < w)
    [] op = "LEU" -> Bit(v <= w)
    [] op = "GTU" -> Bit(v > w)
    [] op = "GEU" -> Bit(v >= w)

\* A slot is where base says.
Known(o, s, base(_)) ==
  CASE o.k = "vreg" -> s.r[o.r]
    [] o.k \in {"imm", "global"} -> Wrap(o.n)
    [] o.k = "slot" -> base(o.n)
    [] o.k = "none" -> 0

CallerSaved == {"a0", "a1", "a2", "t0", "t1", "t2"}
\* What the function that is called returns.
CallResult == 77

\* A byte is the low half of a word; the other half is that of old.
Narrow(old, v, width) == IF width = 8 THEN (old - (old % 256)) + (v % 256) ELSE v
Set(s, d, v) == [s EXCEPT !.r = (d :> v) @@ @]
\* The registers a callee may change hold nothing any more.
Called(s) == [s EXCEPT !.r = Restrict(@, DOMAIN @ \ CallerSaved)]
Stepped(i, s, base(_)) ==
  LET v == Known(i.a, s, base)
      w == Known(i.b, s, base)
  IN  CASE i.op = "LOAD" -> Set(s, i.d, Narrow(0, s.mem[v], i.w))
        [] i.op = "STORE" -> [s EXCEPT !.mem = (v :> Narrow(IF v \in DOMAIN s.mem THEN s.mem[v] ELSE 0, w, i.w)) @@ @]
        [] i.op = "GOTO" -> [s EXCEPT !.next = i.w]
        [] i.op = "BRANCH" -> [s EXCEPT !.next = IF v = 0 THEN i.b.n ELSE i.w]
        [] i.op = "SWITCH" ->
             [s EXCEPT !.next = IF \E k \in 1 .. i.w : v = Wrap(i.b.n + k - 1)
                                THEN CHOOSE k \in 2 .. i.w + 1 : v = Wrap(i.b.n + k - 2)
                                ELSE i.w + 2]
        [] i.op = "RET" -> [s EXCEPT !.ret = IF i.a.k = "none" THEN <<>> ELSE <<v>>]
        [] i.op = "CALL" -> IF i.d = "" THEN Called(s) ELSE Set(Called(s), i.d, CallResult)
        \* These call __mul.
        [] i.op = "GEP" /\ i.w \notin {1, 2, 4} -> Set(Called(s), i.d, Wrap(v + w * i.w))
        [] OTHER -> Set(s, i.d, Meaning(i.op, v, w, i.w))
=============================================================================
