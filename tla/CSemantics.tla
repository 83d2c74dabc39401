----------------------------- MODULE CSemantics -----------------------------
(***************************************************************************)
(* What a statement of the source language does, by the rules of C: the    *)
(* reference the lowering is compared with. The state is a stack of        *)
(* frames, the next thing to do on top; Settled takes the silent steps up  *)
(* to the next event: an expression evaluated ("eval"), a condition tested *)
(* ("test"), a switch value computed ("pick"), a return, the end.          *)
(***************************************************************************)
EXTENDS Syntax, SequencesExt

Frame(at, s, p, n) == [at |-> at, s |-> s, p |-> p, n |-> n]
Do(s, p) == Frame("stmt", s, p, 0)
Event(e, id) == [e |-> e, id |-> id]

\* The stack from the first mark of one of these kinds on.
From(st, marks) ==
  LET i == CHOOSE k \in 1 .. Len(st) :
             /\ st[k].at \in marks
             /\ \A j \in 1 .. k - 1 : st[j].at \notin marks
  IN  SubSeq(st, i, Len(st))

RECURSIVE Settled(_)
Settled(st) ==
  IF st = <<>> THEN st
  ELSE LET f == Head(st)  rest == Tail(st)  s == f.s  p == f.p
           kid(n) == Do(s.kid[n], Append(p, n))
           test == Frame("test", s, p, 0)
    IN CASE f.at = "stmt" /\ (s.s = "empty" \/ (s.s = "decl" /\ ~s.a)) -> Settled(rest)
         [] f.at = "stmt" /\ s.s = "block" -> Settled(<<Frame("seq", s, p, 1)>> \o rest)
         [] f.at = "stmt" /\ s.s = "while" -> Settled(<<test>> \o rest)
         [] f.at = "stmt" /\ s.s = "for" -> Settled(<<kid(1), test>> \o rest)
         [] f.at = "stmt" /\ s.s = "do" ->
              Settled(<<kid(1), Frame("loop", s, p, 0)>> \o rest)
         [] f.at = "stmt" /\ s.s = "break" ->
              Settled(Tail(From(rest, {"loop", "switch"})))
         [] f.at = "stmt" /\ s.s = "continue" -> Settled(From(rest, {"loop"}))
         [] f.at = "seq" /\ f.n > Len(s.kid) -> Settled(rest)
         [] f.at = "seq" /\ f.n <= Len(s.kid) ->
              Settled(<<kid(f.n), Frame("seq", s, p, f.n + 1)>> \o rest)
         [] f.at = "clauses" /\ f.n > Len(s.kid) -> Settled(rest)
         [] f.at = "clauses" /\ f.n <= Len(s.kid) ->
              Settled(<<Frame("seq", s.kid[f.n], Append(p, f.n), 1),
                        Frame("clauses", s, p, f.n + 1)>> \o rest)
         [] f.at = "switch" -> Settled(rest)
         [] f.at = "loop" /\ ~(s.s = "for" /\ s.a.step) -> Settled(<<test>> \o rest)
         [] f.at = "test" /\ s.s = "for" /\ ~s.a.cond ->
              Settled(<<kid(2), Frame("loop", s, p, 0)>> \o rest)
         [] OTHER -> st

\* The event a settled state is about to show.
CEvent(st) ==
  IF st = <<>> THEN Event("end", <<>>)
  ELSE LET f == Head(st)
    IN CASE f.at = "test" -> Event("test", CondAt(f.p))
         [] f.at = "loop" -> Event("eval", StepAt(f.p))
         [] f.at = "value" -> Event("eval", f.p)
         [] OTHER ->
              CASE f.s.s = "if" \/ (f.s.s = "expr" /\ f.s.a) -> Event("test", f.p)
                [] f.s.s = "switch" -> Event("pick", f.p)
                [] f.s.s = "return" -> Event("return", f.p)
                [] OTHER -> Event("eval", f.p)

\* The clause a switch enters for a value: 0 when there is none.
Entered(s, v) ==
  LET match == {k \in 1 .. Len(s.kid) : s.kid[k].s = "case" /\ s.kid[k].a.value = v}
      other == {k \in 1 .. Len(s.kid) : s.kid[k].s = "default"}
  IN  IF match # {} THEN CHOOSE k \in match : TRUE
      ELSE IF other # {} THEN CHOOSE k \in other : TRUE ELSE 0

\* The state after the event, o being the value of what was evaluated.
CStep(st, o) ==
  LET f == Head(st)  rest == Tail(st)  s == f.s
      kid(n) == Do(s.kid[n], Append(f.p, n))
      body == IF s.s = "for" THEN 2 ELSE 1
  IN Settled(
      CASE f.at = "test" ->
             IF o = 0 THEN rest ELSE <<kid(body), Frame("loop", s, f.p, 0)>> \o rest
        [] f.at = "loop" -> <<Frame("test", s, f.p, 0)>> \o rest
        [] f.at = "value" -> rest
        [] OTHER ->
             CASE s.s = "if" ->
                    IF o = 1 THEN <<kid(1)>> \o rest
                    ELSE IF Len(s.kid) = 2 THEN <<kid(2)>> \o rest ELSE rest
               [] s.s = "expr" -> IF s.a THEN <<Frame("value", s, f.p, 0)>> \o rest ELSE rest
               [] s.s = "switch" ->
                    LET k == Entered(s, o)
                    IN  IF k = 0 THEN rest
                        ELSE <<Frame("clauses", s, f.p, k), Frame("switch", s, f.p, 0)>> \o rest
               [] s.s = "return" -> <<>>
               [] OTHER -> rest)
=============================================================================
