---------------------------- MODULE MCLockOrder ----------------------------
(***************************************************************************)
(* Two tracks and a route from one to the other.                             *)
(***************************************************************************)
EXTENDS LockOrder

ShuttleFrom == [out |-> "a"]
ShuttleTo == [out |-> "b"]
=============================================================================
