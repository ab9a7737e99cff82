---------------------------- MODULE MCOccupancy -----------------------------
(***************************************************************************)
(* A circle of three tracks for two trains: "a" has two contacts and is      *)
(* released when free, "b" and "c" have one each.                            *)
(***************************************************************************)
EXTENDS Occupancy, TLC

CONSTANTS l1, l2

CircleTracks == {"a", "b", "c"}
CircleTrackOf == 0 :> "a" @@ 1 :> "a" @@ 2 :> "b" @@ 3 :> "c"
CircleStart == l1 :> 1 @@ l2 :> 2
=============================================================================
