----------------------------- MODULE MCLiveness -----------------------------
(* Every graph whose entry does not return at once, every placement. *)
EXTENDS Liveness, LivenessInputs

MCBodies ==
  BodiesOver({t \in [Block -> OneOrder \cup {Open}] : t[Entry] \notin {Ret, Open}},
             Places)
=============================================================================
