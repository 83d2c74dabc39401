------------------------------ MODULE MCScopes ------------------------------
(***************************************************************************)
(* The units of the runs: a function f between two file-level              *)
(* declarations, its body a statement with declarations or uses around it. *)
(***************************************************************************)
EXTENDS Scopes

Obj(n, w) == <<Node("obj", n, w)>>
Enum(n) == <<Node("enum", n, 0)>>
Use(n) == <<Node("use", n, 0)>>
Null == <<Node("null", "", 0)>>
End == <<Node("end", "", 0)>>
In1(t, inner) == <<Node(t, "", 0)>> \o inner \o End
Param(n) == <<Node("param", n, 1)>>
Proto(n, sig, ps) == <<Node("proto", n, sig)>> \o ps \o End
Fun(n, sig, ps, body) == <<Node("fun", n, sig)>> \o ps \o In1("block", body) \o End

Atoms == {Obj("x", 1), Obj("y", 2), Use("x"), Enum("x")}
Short == {<<>>} \cup Atoms
Inner == {a \o b : a \in Short, b \in Short}
For(ds, inner) == In1("for", ds \o Null \o Null \o In1("block", inner))

Nested(ss) ==
  UNION {{In1("block", s), In1("switch", s), For(Null, s), For(Obj("x", 1), s),
          For(Obj("y", 2) \o Obj("x", 1), s)} : s \in ss}
Deep == {In1("block", s) : s \in Nested({Use("x"), Obj("x", 1) \o Use("x")})}

Bodies == {a \o n \o b : a \in Short, n \in Nested(Inner) \cup Deep, b \in Short}

Before == {<<>>, Obj("x", 1), Enum("x"), Proto("f", 1, Param("x")), Proto("x", 1, <<>>),
           Obj("f", 1)}
Behind == {<<>>, Obj("x", 1), Proto("f", 2, <<>>), Fun("f", 1, <<>>, <<>>)}
Around == {<<b, <<>>, c>> : b \in Before, c \in Behind} \cup {<<b, Param("x"), <<>>>> : b \in Before}

\* Every body in four settings, a few in every setting.
Few == {n \o b : n \in Nested({<<>>, Use("x"), Obj("x", 1)}), b \in {<<>>, Use("x")}}
Settings == {<<<<>>, <<>>, <<>>>>, <<Obj("x", 1), <<>>, <<>>>>, <<Enum("x"), Param("x"), <<>>>>,
             <<<<>>, <<>>, Obj("x", 1)>>}
Unit(s, body) == s[1] \o Fun("f", 1, s[2], body) \o s[3]
Units == {Unit(s, b) : s \in Settings, b \in Bodies} \cup {Unit(s, b) : s \in Around, b \in Few}
=============================================================================
