------------------------------ MODULE MCSpeeds ------------------------------
(***************************************************************************)
(* A locomotive and a multiple unit that it is a slave of.                   *)
(***************************************************************************)
EXTENDS Speeds, TLC

TheLocomotives == <<"a">>
TheUnits == <<"u">>
TheSlaves == [v \in {"a", "u"} |-> IF v = "u" THEN <<"a">> ELSE <<>>]
\* Threads that call are alike.
Alike == Permutations(Callers)
=============================================================================
