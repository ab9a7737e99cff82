----------------------------- MODULE MCAutoMode -----------------------------
(***************************************************************************)
(* A ring of three tracks for AutoMode.  Route 1 has all feedbacks and a     *)
(* delayed stop, route 2 a feedback to reduce the speed, route 3 its stop    *)
(* feedback only, a waiting time and an end of the journey.                  *)
(***************************************************************************)
EXTENDS AutoMode

RingTracks == {"a", "b", "c"}
RingRoutes == {"ab", "bc", "ca"}
RingFrom == [ab |-> "a", bc |-> "b", ca |-> "c"]
RingTo == [ab |-> "b", bc |-> "c", ca |-> "a"]
RingFollowUp == [ab |-> RouteAuto, bc |-> "ca", ca |-> RouteStop]
RingReduced == [ab |-> "abReduced", bc |-> "bcReduced", ca |-> None]
RingStop == [ab |-> "abStop", bc |-> "bcStop", ca |-> "caStop"]
RingOver == [ab |-> "abOver", bc |-> None, ca |-> None]
RingWait == [ab |-> 0, bc |-> 0, ca |-> 1]
=============================================================================
