---------------------------- MODULE MCAdmission -----------------------------
(***************************************************************************)
(* A single line between two stations: tracks "w" and "e" outside, the line  *)
(* itself in two tracks "m" and "n" that form a group, "n" laid the other    *)
(* way round.                                                                *)
(***************************************************************************)
EXTENDS Admission, TLC

CONSTANTS l1, l2

LineTracks == {"w", "m", "n", "e"}
LineRoutes == {"wm", "mn", "ne", "en", "nm", "mw"}
LineFrom == "wm" :> "w" @@ "mn" :> "m" @@ "ne" :> "n"
            @@ "en" :> "e" @@ "nm" :> "n" @@ "mw" :> "m"
LineTo == "wm" :> "m" @@ "mn" :> "n" @@ "ne" :> "e"
          @@ "en" :> "n" @@ "nm" :> "m" @@ "mw" :> "w"
LineInverted == [t \in LineTracks |-> t = "n"]
Eastbound == {"wm", "mn", "ne"}
LineFromOrientation ==
  [r \in LineRoutes |-> (r \in Eastbound) # LineInverted[LineFrom[r]]]
LineToOrientation ==
  [r \in LineRoutes |-> (r \in Eastbound) # LineInverted[LineTo[r]]]
LineGroup == <<"m", "n">>
LineCounts ==
  [r \in LineRoutes |-> IF r \in {"wm", "ne", "mw"} THEN <<"c">> ELSE <<>>]
One == [c \in Counters |-> 1]
Two == [c \in Counters |-> 2]
BothStart == l1 :> "w" @@ l2 :> "e"
WestStart == l1 :> "w"
=============================================================================
