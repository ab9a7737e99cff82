----------------------------- MODULE Admission ------------------------------
(***************************************************************************)
(* What a route asks of the layout besides locks (Route::Reserve, ::Lock,    *)
(* ::Execute): that the trackgroup of its destination can be driven in its   *)
(* direction (class Cluster), and that its counters admit one more train     *)
(* (class Counter).                                                          *)
(*                                                                           *)
(* Both are tested first and changed later.  The direction of a group is     *)
(* tested, without a lock that lasts, three times during a reservation, and  *)
(* set twice; a call compares the track's own orientation before it takes    *)
(* the orientationMutex, and asks no further when that fits.  A counter is   *)
(* tested at reservation and at locking, and counted at execution.           *)
(*                                                                           *)
(* Locomotives run the loop of automode with one route ahead; an operator    *)
(* turns tracks by hand.  The other members of a route are in module         *)
(* Interlocking, the occupied and blocked states of tracks in Occupancy.     *)
(***************************************************************************)
EXTENDS Naturals, Sequences, FiniteSets, Lockable

CONSTANTS
  Operator,
  Tracks, Routes,
  From, To, FromOrientation, ToOrientation,   \* of a route
  Group,          \* the tracks of the cluster, in the order of its relations
  Inverted,       \* clusterInverted of a track
  Turning,        \* tracks on which trains may be turned
  ByHand,         \* tracks a person turns
  Counters,
  MaxCount,       \* of a counter; its minimum is zero
  Counts,         \* counters a route increments at lock, decrements at unlock
  StartAt

Threads == Locos \cup {Operator}

GroupTracks == {Group[i] : i \in DOMAIN Group}

ASSUME LayoutTypes ==
  /\ Operator \notin Locos \cup {None} /\ None \notin Tracks \cup Routes
  /\ Tracks \cap Routes = {}
  /\ From \in [Routes -> Tracks] /\ To \in [Routes -> Tracks]
  /\ FromOrientation \in [Routes -> BOOLEAN]
  /\ ToOrientation \in [Routes -> BOOLEAN]
  /\ Group \in Seq(Tracks) /\ Group # <<>>
  /\ Inverted \in [Tracks -> BOOLEAN]
  /\ Turning \subseteq Tracks /\ ByHand \subseteq Tracks
  /\ MaxCount \in [Counters -> Nat]
  /\ Counts \in [Routes -> Seq(Counters)]
  /\ StartAt \in [Locos -> Tracks]

VARIABLES
  lock,              \* of tracks and routes
  orientation,       \* Track::locoBaseOrientation, TRUE is right
  direction,         \* Cluster::orientation
  orientationMutex,
  counter,
  executeAtUnlock,   \* of a route
  from,              \* trackFrom
  entry,             \* the route at the front of the timetable
  work,              \* the route the thread works on, later routeFirst
  caller,            \* who called ReserveRoute
  at, step, index,   \* where a thread is: in the loop, in the cluster, in a list
  asker,             \* the locomotive on whose behalf the cluster was asked
  turned,            \* the track and the orientation the operator asked for
  giveBack,          \* what is still to be released
  settled            \* see TrainsNotTurned; the program does not have it

clusterVars == <<orientation, direction, orientationMutex, asker, settled>>
countVars == <<counter, executeAtUnlock>>
threadVars == <<from, entry, work, caller, at, step, index, turned, giveBack>>
vars == <<lock, clusterVars, countVars, threadVars>>

(***************************************************************************)
(* Type definitions                                                          *)
(***************************************************************************)
CanSites == {"reserveCan", "searchCan"}
SetSites == {"reserveSet", "prepareTo", "prepareFrom", "turnTrack"}
Sites == CanSites \cup SetSites \cup
  {"idle", "reserveTrack", "reserveCounters", "decide", "execute",
   "running", "giveBack"}

ClusterTypes ==
  /\ orientation \in [Tracks -> BOOLEAN] /\ direction \in BOOLEAN
  /\ orientationMutex \in Threads \cup {None}
  /\ asker \in [Threads -> Owners]
  /\ settled \subseteq Tracks

CountTypes ==
  /\ counter \in [Counters -> Nat]
  /\ executeAtUnlock \in [Routes -> BOOLEAN]

ThreadTypes ==
  /\ from \in [Locos -> Tracks]
  /\ entry \in [Locos -> Routes \cup {None}]
  /\ work \in [Locos -> Routes \cup {None}]
  /\ caller \in [Locos -> {"search", "timetable"}]
  /\ at \in [Threads -> Sites]
  /\ step \in [Threads -> {"call", "inspect", "turn"}]
  /\ index \in [Threads -> Nat \ {0}]
  /\ turned \in [track : Tracks, orientation : BOOLEAN]
  /\ giveBack \in [Locos -> Seq(Tracks \cup Routes)]

\* Whoever is under way in the loop has a route to work on.
WorkOK ==
  /\ at[Operator] \in {"idle", "turnTrack"}
  /\ \A l \in Locos :
       /\ at[l] # "turnTrack"
       /\ at[l] \notin {"idle", "giveBack"} => work[l] \in Routes

TypeOK ==
  /\ lock \in [Tracks \cup Routes -> Locks]
  /\ ClusterTypes /\ CountTypes /\ ThreadTypes /\ WorkOK

NoTurn == CHOOSE x \in [track : Tracks, orientation : BOOLEAN] : TRUE

Init ==
  /\ lock = [x \in Tracks \cup Routes |->
               IF \E l \in Locos : StartAt[l] = x
               THEN [state |-> "HardLocked",
                     owner |-> CHOOSE l \in Locos : StartAt[l] = x]
               ELSE FreeLock]
  /\ direction = TRUE /\ orientation = [t \in Tracks |-> ~Inverted[t]]
  /\ orientationMutex = None
  /\ counter = [c \in Counters |-> 0]
  /\ executeAtUnlock = [r \in Routes |-> FALSE]
  /\ from = StartAt
  /\ entry = [l \in Locos |-> None] /\ work = [l \in Locos |-> None]
  /\ caller = [l \in Locos |-> "search"]
  /\ at = [t \in Threads |-> "idle"] /\ step = [t \in Threads |-> "call"]
  /\ index = [t \in Threads |-> 1] /\ asker = [t \in Threads |-> None]
  /\ turned = NoTurn
  /\ giveBack = [l \in Locos |-> <<>>] /\ settled = {}

(***************************************************************************)
(* Where a thread goes on.                                                   *)
(***************************************************************************)
Goto(t, site) ==
  /\ at' = [at EXCEPT ![t] = site]
  /\ step' = [step EXCEPT ![t] = "call"]
  /\ index' = [index EXCEPT ![t] = 1]

\* The releases that undo an attempt, in their order.
Undo(l, items) ==
  /\ giveBack' = [giveBack EXCEPT ![l] = items]
  /\ Goto(l, "giveBack")

(***************************************************************************)
(* The orientation of tracks.  A call names a track and an orientation; in a *)
(* cluster the orientation is taken relative to the track.                   *)
(***************************************************************************)
AskedTrack(t) ==
  IF at[t] = "turnTrack" THEN turned.track
  ELSE IF at[t] = "prepareFrom" THEN from[t] ELSE To[work[t]]

AskedOrientation(t) ==
  IF at[t] = "turnTrack" THEN turned.orientation
  ELSE IF at[t] = "prepareFrom" THEN FromOrientation[work[t]]
  ELSE ToOrientation[work[t]]

Wanted(t) == AskedOrientation(t) # Inverted[AskedTrack(t)]

\* Only the search passes its own identifier, the other calls that of the track.
AskedFor(t) == IF at[t] = "searchCan" THEN t ELSE lock[AskedTrack(t)].owner

\* What a call leads to when it is granted and when it is not.  A reservation
\* that cannot set the orientation gives back the route, not the track.
Granted(t) ==
  /\ \/ at[t] = "reserveCan" /\ Goto(t, "reserveTrack")
     \/ at[t] = "reserveSet" /\ Goto(t, "reserveCounters")
     \/ /\ at[t] = "searchCan"
        /\ Goto(t, IF caller[t] = "search" THEN "decide" ELSE "execute")
     \/ /\ at[t] = "prepareTo"
        /\ Goto(t, IF orientation'[from[t]] # FromOrientation[work[t]]
                   THEN "prepareFrom" ELSE "running")
     \/ at[t] = "prepareFrom" /\ Goto(t, "running")
     \/ at[t] = "turnTrack" /\ Goto(t, "idle")
  /\ entry' = IF at[t] = "searchCan" /\ caller[t] = "search"
              THEN [entry EXCEPT ![t] = work[t]] ELSE entry
  /\ turned' = IF at[t] = "turnTrack" THEN NoTurn ELSE turned
  /\ UNCHANGED giveBack

Refused(t) ==
  /\ \/ at[t] \in {"reserveCan", "reserveSet"} /\ Undo(t, <<work[t]>>)
     \/ at[t] = "searchCan" /\ Undo(t, <<work[t], To[work[t]]>>)
     \/ at[t] \in {"prepareTo", "prepareFrom"} /\ Undo(t, <<>>)
     \/ at[t] = "turnTrack" /\ Goto(t, "idle") /\ UNCHANGED giveBack
  /\ turned' = IF at[t] = "turnTrack" THEN NoTurn ELSE turned
  /\ UNCHANGED entry

Calls(t) == at[t] \in CanSites \cup SetSites /\ step[t] = "call"

\* The track has the orientation already: nobody else is asked.
AskNobody(t) ==
  /\ Calls(t) /\ orientation[AskedTrack(t)] = AskedOrientation(t)
  /\ UNCHANGED clusterVars /\ Granted(t)
  /\ UNCHANGED <<lock, countVars, from, work, caller>>

\* The track belongs to no cluster.
AskTrack(t) ==
  LET x == AskedTrack(t)
      free == \/ lock[x].state = "Free"
              \/ /\ lock[x].state = "Reserved"
                 /\ AskedFor(t) \in {None, lock[x].owner}
  IN
  /\ Calls(t) /\ orientation[x] # AskedOrientation(t) /\ x \notin GroupTracks
  /\ IF at[t] \in SetSites
     THEN orientation' = [orientation EXCEPT ![x] = AskedOrientation(t)]
     ELSE UNCHANGED orientation
  /\ IF at[t] \in SetSites \/ free THEN Granted(t) ELSE Refused(t)
  /\ UNCHANGED <<lock, direction, orientationMutex, asker, settled, countVars,
                 from, work, caller>>

\* A fault: the mutex is not asked for.
AskClusterAtOnce(t) ==
  /\ Calls(t) /\ orientation[AskedTrack(t)] # AskedOrientation(t)
  /\ AskedTrack(t) \in GroupTracks
  /\ orientationMutex' = t
  /\ asker' = [asker EXCEPT ![t] = AskedFor(t)]
  /\ settled' = {x \in GroupTracks :
       \/ lock[x].state = "HardLocked"
       \/ lock[x].state # "Free" /\ lock[x].owner # AskedFor(t)}
  /\ step' = [step EXCEPT ![t] = "inspect"]
  /\ UNCHANGED <<lock, orientation, direction, countVars, from, entry, work,
                 caller, at, index, turned, giveBack>>

\* The comparison and the mutex in one step: should the group turn while a
\* thread waits for it, its call is granted either way.
AskCluster(t) ==
  /\ Calls(t) /\ orientation[AskedTrack(t)] # AskedOrientation(t)
  /\ AskedTrack(t) \in GroupTracks
  /\ orientationMutex = None /\ orientationMutex' = t
  /\ asker' = [asker EXCEPT ![t] = AskedFor(t)]
  /\ settled' = {x \in GroupTracks :
       \/ lock[x].state = "HardLocked"
       \/ lock[x].state # "Free" /\ lock[x].owner # AskedFor(t)}
  /\ step' = [step EXCEPT ![t] = "inspect"]
  /\ UNCHANGED <<lock, orientation, direction, countVars, from, entry, work,
                 caller, at, index, turned, giveBack>>

\* A fault: a track whose train stands in it may be turned by that train.
MayTurnOwn(t, x) ==
  \/ (orientation[x] # Inverted[x]) = Wanted(t)
  \/ lock[x].state = "Free"
  \/ lock[x].owner = asker[t]

MayTurn(t, x) ==
  \/ (orientation[x] # Inverted[x]) = Wanted(t)
  \/ lock[x].state = "Free"
  \/ lock[x].state = "Reserved" /\ lock[x].owner # None /\ lock[x].owner = asker[t]

LeaveCluster(t) ==
  /\ orientationMutex' = None /\ settled' = {}
  /\ asker' = [asker EXCEPT ![t] = None]

\* Cluster::CanSetLocoBaseOrientationUnlocked, one track in a step.
Inspect(t) ==
  /\ step[t] = "inspect"
  /\ IF direction = Wanted(t) \/ index[t] > Len(Group)
     THEN IF at[t] \in SetSites
          THEN /\ direction' = Wanted(t)
               /\ step' = [step EXCEPT ![t] = "turn"]
               /\ index' = [index EXCEPT ![t] = 1]
               /\ UNCHANGED <<orientation, orientationMutex, asker, settled,
                              at, entry, turned, giveBack>>
          ELSE /\ UNCHANGED <<orientation, direction>>
               /\ LeaveCluster(t) /\ Granted(t)
     ELSE IF MayTurn(t, Group[index[t]])
          THEN /\ index' = [index EXCEPT ![t] = @ + 1]
               /\ UNCHANGED <<orientation, direction, orientationMutex, asker,
                              settled, at, step, entry, turned, giveBack>>
          ELSE /\ UNCHANGED <<orientation, direction>>
               /\ LeaveCluster(t) /\ Refused(t)
  /\ UNCHANGED <<lock, countVars, from, work, caller>>

\* Cluster::SetLocoBaseOrientation, the loop that turns the tracks.
Turn(t) ==
  /\ step[t] = "turn"
  /\ IF index[t] <= Len(Group)
     THEN LET x == Group[index[t]] IN
          /\ orientation' = [orientation EXCEPT ![x] = direction # Inverted[x]]
          /\ index' = [index EXCEPT ![t] = @ + 1]
          /\ UNCHANGED <<orientationMutex, asker, settled, at, step, entry,
                         turned, giveBack>>
     ELSE /\ UNCHANGED orientation
          /\ LeaveCluster(t) /\ Granted(t)
  /\ UNCHANGED <<lock, direction, countVars, from, work, caller>>

\* Manager::TrackSetLocoOrientation, called by a person.
TurnTrack(x, o) ==
  /\ at[Operator] = "idle"
  /\ turned' = [track |-> x, orientation |-> o]
  /\ Goto(Operator, "turnTrack")
  /\ UNCHANGED <<lock, clusterVars, countVars, from, entry, work, caller,
                 giveBack>>

(***************************************************************************)
(* Counters.                                                                 *)
(***************************************************************************)
CheckCount(c) == counter[c] < MaxCount[c]

\* A fault: what was tested is not tested again.
CountUnchecked(c) == counter' = [counter EXCEPT ![c] = @ + 1]

Count(c) == CheckCount(c) /\ counter' = [counter EXCEPT ![c] = @ + 1]

CountDown(c) ==
  counter' = [counter EXCEPT ![c] = IF @ > 0 THEN @ - 1 ELSE @]

Admits(r) == \A i \in DOMAIN Counts[r] : CheckCount(Counts[r][i])

(***************************************************************************)
(* The automode thread.                                                      *)
(***************************************************************************)

\* Track::GetValidRoutes, Route::FromTrackOrientation.
Valid(l, r) ==
  /\ From[r] = from[l]
  /\ FromOrientation[r] = orientation[from[l]] \/ from[l] \in Turning

\* LocoBase::ReserveRoute and the beginning of Route::Reserve.
ReserveRoute(l, r, who) ==
  /\ CanReserve(lock[r], l)
  /\ lock' = [lock EXCEPT ![r] = Reserved(@, l)]
  /\ work' = [work EXCEPT ![l] = r] /\ caller' = [caller EXCEPT ![l] = who]
  /\ Goto(l, "reserveCan")

Search(l, r) ==
  /\ at[l] = "idle" /\ entry[l] = None /\ Valid(l, r)
  /\ ReserveRoute(l, r, "search")
  /\ UNCHANGED <<clusterVars, countVars, from, entry, turned, giveBack>>

\* A fault: the timetable is taken for filled.
TryAgainAlways(l) ==
  /\ at[l] = "idle"
  /\ work' = [work EXCEPT ![l] = entry[l]] /\ Goto(l, "decide")
  /\ UNCHANGED <<lock, clusterVars, countVars, from, entry, caller, turned,
                 giveBack>>

\* The entry of the timetable is still there: it is tried again.
TryAgain(l) ==
  /\ at[l] = "idle" /\ entry[l] # None
  /\ work' = [work EXCEPT ![l] = entry[l]] /\ Goto(l, "decide")
  /\ UNCHANGED <<lock, clusterVars, countVars, from, entry, caller, turned,
                 giveBack>>

ReserveTrack(l) ==
  LET x == To[work[l]] IN
  /\ at[l] = "reserveTrack"
  /\ IF CanReserve(lock[x], l)
     THEN /\ lock' = [lock EXCEPT ![x] = Reserved(@, l)]
          /\ Goto(l, "reserveSet") /\ UNCHANGED giveBack
     ELSE Undo(l, <<work[l]>>) /\ UNCHANGED lock
  /\ UNCHANGED <<clusterVars, countVars, from, entry, work, caller, turned>>

ReserveCounters(l) ==
  LET r == work[l] IN
  /\ at[l] = "reserveCounters"
  /\ IF Admits(r) THEN Goto(l, "searchCan") /\ UNCHANGED giveBack
                  ELSE Undo(l, <<To[r], r>>)
  /\ UNCHANGED <<lock, clusterVars, countVars, from, entry, work, caller, turned>>

\* LocoBase::ExecuteRoute: what is free is reserved and executed, what is
\* reserved is locked before, what is locked is executed as it is.
Decide(l) ==
  LET r == work[l] IN
  /\ at[l] = "decide"
  /\ \/ /\ lock[r].state = "Free"
        /\ ReserveRoute(l, r, "timetable") /\ UNCHANGED giveBack
     \/ /\ lock[r].state = "Reserved"
        /\ IF ~CanLock(lock[r], l)
           THEN Undo(l, <<>>) /\ UNCHANGED lock
           ELSE IF ~CanLock(lock[To[r]], l)
           THEN /\ lock' = [lock EXCEPT ![r] = Locked(@)]
                /\ Undo(l, <<r>>)
           ELSE /\ lock' = [lock EXCEPT ![r] = Locked(@), ![To[r]] = Locked(@)]
                /\ IF Admits(r) THEN Goto(l, "execute") /\ UNCHANGED giveBack
                                ELSE Undo(l, <<To[r], r>>)
        /\ UNCHANGED <<work, caller>>
     \/ /\ lock[r].state = "HardLocked"
        /\ Goto(l, "execute") /\ UNCHANGED <<lock, giveBack, work, caller>>
  /\ UNCHANGED <<clusterVars, countVars, from, entry, turned>>

\* Route::Execute, one relation in a step.  A relation that cannot count ends
\* it; what was counted before stays.
Execute(l) ==
  LET r == work[l]
      i == index[l]
      give == Undo(l, <<r, To[r]>>) /\ UNCHANGED <<countVars, entry>>
  IN
  /\ at[l] = "execute"
  /\ IF i = 1 /\ InUse(lock[r]) /\ lock[r].owner # l
     THEN give
     ELSE IF i <= Len(Counts[r])
     THEN \/ /\ Count(Counts[r][i]) /\ index' = [index EXCEPT ![l] = @ + 1]
             /\ UNCHANGED <<executeAtUnlock, at, step, giveBack, entry>>
          \/ ~CheckCount(Counts[r][i]) /\ give
     ELSE /\ executeAtUnlock' =
               [executeAtUnlock EXCEPT ![r] = @ \/ InUse(lock[r])]
          /\ entry' = [entry EXCEPT ![l] = None]
          /\ Goto(l, "prepareTo") /\ UNCHANGED <<counter, giveBack>>
  /\ UNCHANGED <<lock, clusterVars, from, work, caller, turned>>

\* The train has reached the end of its route.
Arrive(l) ==
  LET r == work[l] IN
  /\ at[l] = "running"
  /\ from' = [from EXCEPT ![l] = To[r]]
  /\ Undo(l, IF from[l] = To[r] THEN <<r>> ELSE <<from[l], r>>)
  /\ UNCHANGED <<lock, clusterVars, countVars, entry, work, caller, turned>>

\* Route::ReleaseInternal counts down before it frees the route.
GiveBack(l) ==
  LET x == Head(giveBack[l])
      i == index[l]
  IN
  /\ at[l] = "giveBack" /\ giveBack[l] # <<>>
  /\ IF x \in Routes /\ executeAtUnlock[x] /\ i <= Len(Counts[x])
     THEN /\ CountDown(Counts[x][i])
          /\ index' = [index EXCEPT ![l] = @ + 1]
          /\ UNCHANGED <<lock, executeAtUnlock, giveBack, settled>>
     ELSE /\ lock' = [lock EXCEPT ![x] = Released(@, l)]
          /\ executeAtUnlock' = [r \in Routes |-> executeAtUnlock[r] /\ r # x]
          /\ settled' = IF CanRelease(lock[x], l) THEN settled \ {x} ELSE settled
          /\ giveBack' = [giveBack EXCEPT ![l] = Tail(@)]
          /\ index' = [index EXCEPT ![l] = 1]
          /\ UNCHANGED counter
  /\ UNCHANGED <<orientation, direction, orientationMutex, asker, from, entry,
                 work, caller, at, step, turned>>

\* The call is over; what the thread worked on is forgotten.
GivenBack(l) ==
  /\ at[l] = "giveBack" /\ giveBack[l] = <<>>
  /\ work' = [work EXCEPT ![l] = None]
  /\ caller' = [caller EXCEPT ![l] = "search"] /\ Goto(l, "idle")
  /\ UNCHANGED <<lock, clusterVars, countVars, from, entry, turned, giveBack>>

(***************************************************************************)
(* The specification                                                         *)
(***************************************************************************)
ClusterStep(t) ==
  AskNobody(t) \/ AskTrack(t) \/ AskCluster(t) \/ Inspect(t) \/ Turn(t)

LocoStep(l) ==
  \/ \E r \in Routes : Search(l, r)
  \/ TryAgain(l) \/ ReserveTrack(l) \/ ReserveCounters(l) \/ Decide(l)
  \/ Execute(l) \/ Arrive(l) \/ GiveBack(l) \/ GivenBack(l)

Next ==
  \/ \E t \in Threads : ClusterStep(t)
  \/ \E l \in Locos : LocoStep(l)
  \/ \E x \in ByHand, o \in BOOLEAN : TurnTrack(x, o)

Spec == Init /\ [][Next]_vars

(***************************************************************************)
(* Properties                                                                *)
(***************************************************************************)

\* Whenever nobody is at work on it, all tracks of a group have its direction,
\* whoever turned it last and whatever was refused half way.
GroupAgrees ==
  orientationMutex = None =>
    \A x \in GroupTracks : (orientation[x] # Inverted[x]) = direction

\* No track is turned that a train held when the turn of the group began and
\* has held since, except by the train that has just reserved it.
TrainsNotTurned ==
  [][\A x \in GroupTracks : orientation'[x] # orientation[x] => x \notin settled]_vars

\* A counter never admits more trains than its maximum: every train under way
\* has been counted, and at any moment the counter is within its bounds.
TrainsAdmitted ==
  \A c \in Counters :
    /\ counter[c] <= MaxCount[c]
    /\ Cardinality({l \in Locos : /\ at[l] = "running"
                                  /\ \E i \in DOMAIN Counts[work[l]] :
                                       Counts[work[l]][i] = c}) <= counter[c]

\* What was counted during a reservation is counted back by the release: when
\* no route is used, every counter is back where it began.
CountersReturn ==
  (\A r \in Routes : lock[r] = FreeLock) => \A c \in Counters : counter[c] = 0
=============================================================================
