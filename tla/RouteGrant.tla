----------------------------- MODULE RouteGrant -----------------------------
(***************************************************************************)
(* What an interlocking promises, without any of its machinery: a route is   *)
(* granted to one train at a time, only while no other train holds a route   *)
(* that meets it and only when its switches lie as the route asks for; and   *)
(* no switch of a granted route moves.                                       *)
(***************************************************************************)
EXTENDS Naturals, Sequences

CONSTANTS Locos, Routes, Elements, Signals, Positions, ToTrack, Parts,
          Setting, None

VARIABLES
  granted,   \* the train a route is granted to
  position   \* the state of every element

vars == <<granted, position>>

\* What a train on route r touches.
Footprint(r) == {ToTrack[r]} \cup {Parts[r][i] : i \in 1..Len(Parts[r])}

\* Switches and accessories; signals are set to stop behind the train.
Switches == Elements \ Signals

Granted == {r \in Routes : granted[r] # None}

Set(r) == \A i \in 1..Len(Parts[r]) :
            Parts[r][i] \in Switches => position[Parts[r][i]] = Setting[r][i]

Init ==
  /\ granted = [r \in Routes |-> None]
  /\ position \in [Elements -> Positions]

Grant(l, r) ==
  /\ granted[r] = None
  /\ Set(r)
  /\ \A q \in Granted : granted[q] # l => Footprint(q) \cap Footprint(r) = {}
  /\ granted' = [granted EXCEPT ![r] = l]
  /\ UNCHANGED position

\* A train gives back some of its routes.
Return(gone) ==
  /\ granted' = [r \in Routes |-> IF r \in gone THEN None ELSE granted[r]]
  /\ UNCHANGED position

Move ==
  /\ position' \in [Elements -> Positions]
  /\ \A e \in Switches : position'[e] # position[e] =>
       \A r \in Granted : e \notin Footprint(r)
  /\ UNCHANGED granted

Next ==
  \/ \E l \in Locos, r \in Routes : Grant(l, r)
  \/ \E gone \in SUBSET Routes : Return(gone)
  \/ Move

Spec == Init /\ [][Next]_vars
=============================================================================
