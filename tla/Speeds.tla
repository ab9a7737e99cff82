------------------------------- MODULE Speeds -------------------------------
(***************************************************************************)
(* The speed of locomotives, and what the command station and the web pages  *)
(* are told of it (Manager::LocoBaseSpeed, MultipleUnit::SetSpeed,           *)
(* Manager::InitLocos, class WebServer, HandleUpdater).                      *)
(*                                                                           *)
(* A call compares the new speed with the old one, stores it, and then tells *)
(* all controls; only the telling is done under the controlMutex.  Several   *)
(* threads call for one locomotive: web pages, automode and feedbacks, the   *)
(* command station when a person turns a knob there.  A multiple unit passes *)
(* its speed on to its slaves before it tells the controls.                  *)
(*                                                                           *)
(* The web server numbers what it is told and keeps the last numbers; every  *)
(* browser has a connection of its own that asks for the next number.  The   *)
(* page gets the control of a locomotive by another request.                 *)
(***************************************************************************)
EXTENDS Integers, Sequences, Functions

CONSTANTS
  Locomotives,  \* a sequence, in the order of their identifiers
  Units,        \* multiple units, likewise
  Slaves,       \* of a vehicle, a sequence; none for a locomotive
  Driven,       \* the vehicles for which calls are made
  Callers,      \* threads that call Manager: web clients, automode, feedbacks
  Station,      \* the thread that receives from the command station
  Starters,     \* the threads that may switch on the booster first
  Speed,        \* the speeds in use
  Stopped,      \* MinSpeed
  Browsers,
  Selectable,   \* the vehicles whose control a page shows
  MaxUpdates,   \* ten in the program
  MaxUpdateID,  \* a bound: no call begins when so much has been told
  None

Vehicles == Range(Locomotives) \cup Range(Units)

Threads == Callers \cup {Station}

ASSUME SpeedTypes ==
  /\ Locomotives \in Seq(Vehicles) /\ Units \in Seq(Vehicles)
  /\ Slaves \in [Vehicles -> Seq(Vehicles)] /\ Driven \subseteq Vehicles
  /\ Selectable \subseteq Vehicles
  /\ Stopped \in Speed /\ None \notin Speed /\ None \notin Vehicles
  /\ Station \notin Callers /\ Starters \subseteq Threads
  /\ MaxUpdates \in Nat \ {0, 1} /\ MaxUpdateID \in Nat

\* The slaves of a unit are locomotives.
ASSUME UnitsOfLocos ==
  /\ \A v \in Range(Locomotives) : Slaves[v] = <<>>
  /\ \A u \in Range(Units) : Range(Slaves[u]) \subseteq Range(Locomotives)

VARIABLES
  speed,      \* LocoBase::speed
  station,    \* the speed at the command station
  todo,       \* what the calls of a thread have still to do
  crossed,    \* see InStep; the program does not have it
  initLocosDone,
  updates, updateID,  \* of the web server
  next,       \* updateID of the connection of a browser
  control     \* of the page: the control of a locomotive, or the request for it

speedVars == <<speed, station, todo, crossed, initLocosDone>>
pageVars == <<next, control>>
vars == <<speedVars, updates, updateID, pageVars>>

(***************************************************************************)
(* Type definitions                                                          *)
(***************************************************************************)
Origins == {"internal", "hardware"}  \* ControlType, as far as it matters

Jobs ==
  [do : {"compare", "store", "tell"}, vehicle : Vehicles, speed : Speed,
   origin : Origins]
  \cup [do : {"announce"}, vehicle : Vehicles]

Entries == [vehicle : Vehicles \cup {None}, speed : Speed]

\* A page has asked for a control, the answer is on its way, or it is shown.
\* For sound see PageInStep; the program does not have it.
Asked(v) == [at |-> "asked", vehicle |-> v]
Controls ==
  [at : {"asked"}, vehicle : Vehicles]
  \cup [at : {"answered", "shown"}, vehicle : Vehicles, speed : Speed, sound : BOOLEAN]

TypeOK ==
  /\ speed \in [Vehicles -> Speed] /\ station \in [Vehicles -> Speed]
  /\ todo \in [Threads -> Seq(Jobs)]
  /\ crossed \in [Vehicles -> BOOLEAN] /\ initLocosDone \in BOOLEAN
  /\ updateID \in Nat \ {0} /\ DOMAIN updates \subseteq 1..updateID - 1
  /\ \A i \in DOMAIN updates : updates[i] \in Entries
  /\ next \in [Browsers -> Nat \ {0}]
  /\ control \in [Browsers -> Controls]

Init ==
  /\ speed = [v \in Vehicles |-> Stopped] /\ station = speed
  /\ todo = [t \in Threads |-> <<>>]
  /\ crossed = [v \in Vehicles |-> FALSE] /\ initLocosDone = FALSE
  /\ updates = <<[vehicle |-> None, speed |-> Stopped]>> /\ updateID = 2
  /\ next = [b \in Browsers |-> 1]
  /\ control \in [Browsers -> {Asked(v) : v \in Selectable}]

(***************************************************************************)
(* Telling the controls.                                                     *)
(***************************************************************************)

\* A fault: the number is counted before the update is stored under it.
AddUpdateLate(v, s) ==
  /\ updates' = [i \in DOMAIN updates \cup {updateID + 1} |->
                   IF i \in DOMAIN updates THEN updates[i] ELSE [vehicle |-> v, speed |-> s]]
  /\ updateID' = updateID + 1

\* WebServer::AddUpdateInternal.
AddUpdate(v, s) ==
  /\ updates' = [i \in (DOMAIN updates \cup {updateID}) \ {updateID + 1 - MaxUpdates} |->
                   IF i = updateID THEN [vehicle |-> v, speed |-> s] ELSE updates[i]]
  /\ updateID' = updateID + 1

\* A fault: what comes from the command station is not sent to the pages either.
TellControlsNotBack(v, s, origin) ==
  IF origin = "hardware"
  THEN UNCHANGED <<station, updates, updateID>>
  ELSE station' = [station EXCEPT ![v] = s] /\ AddUpdate(v, s)

\* What comes from the command station is not sent back to it.
TellControls(v, s, origin) ==
  /\ station' = IF origin = "hardware" THEN station ELSE [station EXCEPT ![v] = s]
  /\ AddUpdate(v, s)

(***************************************************************************)
(* Calls.                                                                    *)
(***************************************************************************)
ToDo(do, v, s, o) == [do |-> do, vehicle |-> v, speed |-> s, origin |-> o]
Compare(v, s, o) == ToDo("compare", v, s, o)

Job(t) == Head(todo[t])

Begin(t, jobs) ==
  /\ todo[t] = <<>> /\ updateID < MaxUpdateID
  /\ todo' = [todo EXCEPT ![t] = jobs]

Done(t) == todo' = [todo EXCEPT ![t] = Tail(@)]

\* HandleLocoBaseSpeed, or automode.
Call(t, v, s) ==
  /\ Begin(t, <<Compare(v, s, "internal")>>)
  /\ UNCHANGED <<speed, station, crossed, initLocosDone, updates, updateID, pageVars>>

\* A person turns the knob at the command station, which reports it.
TurnKnob(v, s) ==
  /\ station[v] # s /\ station' = [station EXCEPT ![v] = s]
  /\ Begin(Station, <<Compare(v, s, "hardware")>>)
  /\ UNCHANGED <<speed, crossed, initLocosDone, updates, updateID, pageVars>>

\* A fault: the multiple units are forgotten.
StopAllLocos(t) ==
  /\ Begin(t, [i \in DOMAIN Locomotives |-> Compare(Locomotives[i], Stopped, "internal")])
  /\ UNCHANGED <<speed, station, crossed, initLocosDone, updates, updateID, pageVars>>

\* Manager::LocoBaseStopAllImmediately, first the locomotives, then the units.
StopAll(t) ==
  /\ Begin(t, [i \in DOMAIN (Locomotives \o Units) |->
                 Compare((Locomotives \o Units)[i], Stopped, "internal")])
  /\ UNCHANGED <<speed, station, crossed, initLocosDone, updates, updateID, pageVars>>

\* Manager::Booster, which waits for the end of ::InitLocos.
BoosterGo(t) ==
  /\ ~initLocosDone /\ t \in Starters
  /\ Begin(t, [i \in DOMAIN Locomotives |->
                [do |-> "announce", vehicle |-> Locomotives[i]]])
  /\ UNCHANGED <<speed, station, crossed, initLocosDone, updates, updateID, pageVars>>

Underway(t, v) ==
  \E i \in DOMAIN todo[t] :
    /\ todo[t][i].vehicle = v
    /\ \/ todo[t][i].do \in {"store", "tell"}
       \/ todo[t][i].do = "compare" /\ todo[t][i].origin = "hardware"

Pending(v) == \E t \in Threads : Underway(t, v)

\* The speed a vehicle has already is not set again.
CompareSpeed(t) ==
  LET j == Job(t) IN
  /\ todo[t] # <<>> /\ j.do = "compare"
  /\ todo' = [todo EXCEPT ![t] =
       IF speed[j.vehicle] = j.speed
       THEN Tail(@)
       ELSE <<ToDo("store", j.vehicle, j.speed, j.origin)>>
            \o [i \in DOMAIN Slaves[j.vehicle] |->
                  Compare(Slaves[j.vehicle][i], j.speed, "internal")]
            \o <<ToDo("tell", j.vehicle, j.speed, j.origin)>> \o Tail(@)]
  /\ UNCHANGED <<speed, station, crossed, initLocosDone, updates, updateID, pageVars>>

\* LocoBase::SetSpeed.
StoreSpeed(t) ==
  LET j == Job(t) IN
  /\ todo[t] # <<>> /\ j.do = "store"
  /\ speed' = [speed EXCEPT ![j.vehicle] = j.speed]
  /\ crossed' = [crossed EXCEPT ![j.vehicle] =
       \/ \E u \in Threads \ {t} : Underway(u, j.vehicle)
       \/ j.origin = "hardware" /\ station[j.vehicle] # j.speed]
  /\ Done(t)
  /\ UNCHANGED <<station, initLocosDone, updates, updateID, pageVars>>

\* The controls are told the argument of the call.
TellSpeed(t) ==
  LET j == Job(t) IN
  /\ todo[t] # <<>> /\ j.do = "tell"
  /\ TellControls(j.vehicle, j.speed, j.origin)
  /\ Done(t)
  /\ UNCHANGED <<speed, crossed, initLocosDone, pageVars>>

\* A fault: the locomotives are initialised to stand.
AnnounceStopped(t) ==
  LET j == Job(t) IN
  /\ todo[t] # <<>> /\ j.do = "announce"
  /\ TellControls(j.vehicle, Stopped, "internal")
  /\ Done(t) /\ initLocosDone' = TRUE
  /\ UNCHANGED <<speed, crossed, pageVars>>

\* At the start they are told the speed the locomotive has.
Announce(t) ==
  LET j == Job(t) IN
  /\ todo[t] # <<>> /\ j.do = "announce"
  /\ TellControls(j.vehicle, speed[j.vehicle], "internal")
  /\ Done(t) /\ initLocosDone' = TRUE
  /\ UNCHANGED <<speed, crossed, pageVars>>

(***************************************************************************)
(* Web pages.                                                                *)
(***************************************************************************)

\* A fault: it goes on one update too late.
FromTooLate(b) ==
  IF next[b] + MaxUpdates <= updateID THEN updateID - MaxUpdates + 2 ELSE next[b]

\* WebServer::NextUpdate: who is too far behind goes on with the oldest.
From(b) ==
  IF next[b] + MaxUpdates <= updateID THEN updateID - MaxUpdates + 1 ELSE next[b]

\* What is said of a control that is not there is lost; an answer on its way
\* is older then than the page should be.
Applied(c, e, skipped) ==
  CASE c.at = "shown" ->
         IF c.vehicle = e.vehicle THEN [c EXCEPT !.speed = e.speed, !.sound = TRUE]
         ELSE [c EXCEPT !.sound = @ /\ ~skipped]
    [] c.at = "answered" ->
         [c EXCEPT !.sound = @ /\ ~skipped
                             /\ (c.vehicle = e.vehicle => c.speed = e.speed)]
    [] OTHER -> c

\* HandleUpdater sends the next update, and the page applies it.
Deliver(b) ==
  /\ From(b) \in DOMAIN updates
  /\ next' = [next EXCEPT ![b] = From(b) + 1]
  /\ control' = [control EXCEPT ![b] = Applied(@, updates[From(b)], From(b) # next[b])]
  /\ UNCHANGED <<speedVars, updates, updateID>>

\* A person chooses a vehicle: the page removes the control it shows and asks.
LoadLoco(b, v) ==
  /\ control[b].at = "shown" /\ control' = [control EXCEPT ![b] = Asked(v)]
  /\ UNCHANGED <<speedVars, updates, updateID, next>>

\* WebClient::HandleLoco.
HandleLoco(b) ==
  LET v == control[b].vehicle IN
  /\ control[b] = Asked(v)
  /\ control' = [control EXCEPT ![b] =
       [at |-> "answered", vehicle |-> v, speed |-> speed[v], sound |-> TRUE]]
  /\ UNCHANGED <<speedVars, updates, updateID, next>>

ShowLoco(b) ==
  /\ control[b].at = "answered" /\ control' = [control EXCEPT ![b].at = "shown"]
  /\ UNCHANGED <<speedVars, updates, updateID, next>>

\* A page that loses its connection is loaded anew, as on a person's wish.
Reload(b) ==
  /\ next' = [next EXCEPT ![b] = 1]
  /\ control' = [control EXCEPT ![b] = Asked(control[b].vehicle)]
  /\ UNCHANGED <<speedVars, updates, updateID>>

(***************************************************************************)
(* The specification                                                         *)
(***************************************************************************)
CallStep(t) == CompareSpeed(t) \/ StoreSpeed(t) \/ TellSpeed(t) \/ Announce(t)

PageStep(b) ==
  \/ Deliver(b) \/ HandleLoco(b) \/ ShowLoco(b) \/ Reload(b)
  \/ \E v \in Selectable : LoadLoco(b, v)

Next ==
  \/ \E t \in Callers, v \in Driven, s \in Speed : Call(t, v, s)
  \/ \E t \in Callers : StopAll(t)
  \/ \E v \in Driven, s \in Speed : TurnKnob(v, s)
  \/ \E t \in Threads : BoosterGo(t) \/ CallStep(t)
  \/ \E b \in Browsers : PageStep(b)

Spec == Init /\ [][Next]_vars

(***************************************************************************)
(* Properties                                                                *)
(***************************************************************************)

\* The command station drives a vehicle at the speed the program believes in,
\* unless the last change of it crossed another call: only calls that cross
\* can leave the two apart.
InStep ==
  \A v \in Vehicles : Pending(v) \/ crossed[v] \/ station[v] = speed[v]

\* A page that has applied all updates shows the speed of its vehicle, unless
\* it lost updates by being too slow, or applied one while it had no control
\* to apply it to, and has had none for the vehicle since.
PageInStep ==
  \A b \in Browsers :
    LET c == control[b] IN
    next[b] = updateID /\ c.at = "shown" /\ c.sound =>
      Pending(c.vehicle) \/ crossed[c.vehicle] \/ c.speed = speed[c.vehicle]

\* When all calls are over, the locomotives of a unit run at its speed, unless
\* calls for it or for one of them crossed.  (Of calls for units alone: who
\* drives one locomotive of a unit means it to leave the others.)
UnitTogether ==
  (\A t \in Threads : todo[t] = <<>>) =>
    \A u \in Vehicles : \A i \in DOMAIN Slaves[u] :
      crossed[u] \/ crossed[Slaves[u][i]] \/ speed[Slaves[u][i]] = speed[u]

\* A page applies the updates in the order of their numbers, and misses some
\* only when so many were added meanwhile that the server has dropped them.
InOrder ==
  [][\A b \in Browsers :
       next'[b] # next[b] =>
         \/ next'[b] = 1
         \/ next'[b] = next[b] + 1
         \/ /\ next'[b] > next[b] /\ next'[b] <= updateID
            /\ \A i \in next[b]..next'[b] - 2 : i \notin DOMAIN updates]_vars
=============================================================================
