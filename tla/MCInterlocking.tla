--------------------------- MODULE MCInterlocking ---------------------------
(***************************************************************************)
(* Layouts for checking module Interlocking with TLC.                        *)
(*                                                                           *)
(* Ring: four tracks in a circle, a -> b -> c -> d -> a.  The two ways       *)
(* a -> b and c -> d cross on element w, the two others on element v; signal *)
(* s protects the exit of track a.  Routes that follow each other share      *)
(* nothing.                                                                  *)
(***************************************************************************)
EXTENDS Interlocking, TLC

RingTracks == {"a", "b", "c", "d"}
RingElements == {"w", "v", "s"}
RingSignals == {"s"}
RingTrackSignals == [t \in RingTracks |-> IF t = "a" THEN {"s"} ELSE {}]
RingRoutes == {"ab", "bc", "cd", "da"}
RingFrom == "ab" :> "a" @@ "bc" :> "b" @@ "cd" :> "c" @@ "da" :> "d"
RingTo   == "ab" :> "b" @@ "bc" :> "c" @@ "cd" :> "d" @@ "da" :> "a"
RingParts ==
  "ab" :> <<"w", "s">> @@ "bc" :> <<"v">> @@ "cd" :> <<"w">> @@ "da" :> <<"v">>
RingSetting ==
  "ab" :> <<"plus", "plus">> @@ "bc" :> <<"plus">>
  @@ "cd" :> <<"minus">> @@ "da" :> <<"minus">>
NoUnlock == [r \in RingRoutes |-> <<>>]
NoFollowUp == [r \in RingRoutes |-> RouteAuto]

(***************************************************************************)
(* Shuttle: a line between tracks a and b with one switch in both routes;    *)
(* the route back follows the route out.                                     *)
(***************************************************************************)
LineTracks == {"a", "b"}
LineElements == {"w"}
LineTrackSignals == [t \in LineTracks |-> {}]
LineRoutes == {"ab", "ba"}
LineFrom == "ab" :> "a" @@ "ba" :> "b"
LineTo   == "ab" :> "b" @@ "ba" :> "a"
LineParts == "ab" :> <<"w">> @@ "ba" :> <<"w">>
LineSetting == "ab" :> <<"plus">> @@ "ba" :> <<"minus">>
LineUnlock == "ab" :> <<"w">> @@ "ba" :> <<>>
LineUnlockSetting == "ab" :> <<"minus">> @@ "ba" :> <<>>
LineFollowUp == "ab" :> "ba" @@ "ba" :> RouteAuto

(***************************************************************************)
(* Junction: the routes a -> b and c -> b join at switch w.                  *)
(***************************************************************************)
JunctionTracks == {"a", "b", "c"}
JunctionTrackSignals == [t \in JunctionTracks |-> {}]
JunctionRoutes == {"ab", "cb"}
JunctionFrom == "ab" :> "a" @@ "cb" :> "c"
JunctionTo   == "ab" :> "b" @@ "cb" :> "b"
JunctionParts == [r \in JunctionRoutes |-> <<"w">>]
JunctionSetting == "ab" :> <<"plus">> @@ "cb" :> <<"minus">>
JunctionUnlock == "ab" :> <<"w">> @@ "cb" :> <<>>
JunctionUnlockSetting == "ab" :> <<"minus">> @@ "cb" :> <<>>
JunctionFollowUp == [r \in JunctionRoutes |-> RouteAuto]

Symmetry == Permutations(Locos)

TwoPositions == {"minus", "plus"}
=============================================================================
