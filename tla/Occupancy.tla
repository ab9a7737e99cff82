----------------------------- MODULE Occupancy ------------------------------
(***************************************************************************)
(* Feedbacks and the occupancy of tracks: how the reports of contacts        *)
(* become states of feedbacks (Feedback::SetState, Feedback::Debounce),      *)
(* these the state of their track (Track::FeedbackStateInternal), and that   *)
(* the reservations that keep trains apart (Track::Reserve, Track::Release). *)
(*                                                                           *)
(* Below the program lies the layout: a circle of contacts 0 .. N - 1, cut   *)
(* into tracks, on which trains drive forward over up to MaxLength           *)
(* contacts.  A contact reports when a vehicle closes it and when the last   *)
(* one leaves it; the command station hands the reports on in order.  A      *)
(* contact under a vehicle may fail for a moment, and a person may put a     *)
(* wagon on some contacts.  (On a stop feedback it would simulate the        *)
(* arrival of a train, which no program could tell from a true one.)         *)
(*                                                                           *)
(* Three threads work on the reports: the reporter takes one, sets the       *)
(* feedback and afterwards, without the feedback's mutex, its track; the     *)
(* debouncer counts down and likewise sets the track; each automode thread   *)
(* reserves and releases tracks.                                             *)
(***************************************************************************)
EXTENDS Naturals, Sequences, FiniteSets, Lockable

CONSTANTS
  N, Tracks, TrackOf,   \* contacts 0 .. N - 1 and the track of each
  FreeingTracks,        \* tracks configured "Release when free"
  StartAt,              \* the contact on which a train stands at first
  MaxStateCounter,      \* rounds a feedback takes to become free
  MaxLength,            \* contacts a train covers
  MaxReports,           \* bound on the reports under way
  Spots                 \* contacts on which persons put wagons

Feedbacks == 0 .. N - 1

Nowhere == N

Beyond(f) == (f + 1) % N

FeedbacksOf(t) == {f \in Feedbacks : TrackOf[f] = t}

ASSUME LayoutTypes ==
  /\ N \in Nat \ {0}
  /\ TrackOf \in [Feedbacks -> Tracks]
  /\ FreeingTracks \subseteq Tracks
  /\ StartAt \in [Locos -> Feedbacks]
  /\ MaxStateCounter \in Nat /\ MaxStateCounter > 1
  /\ MaxLength \in Nat /\ MaxReports \in Nat
  /\ Spots \subseteq Feedbacks
  /\ None \notin Tracks

\* Every track ends somewhere.
ASSUME TracksEnd ==
  \A t \in Tracks : \E f \in FeedbacksOf(t) : TrackOf[Beyond(f)] # t

\* The contacts passed on the way from f to g.
Stretch(f, g) == IF f <= g THEN f .. g ELSE Feedbacks \ (g + 1 .. f - 1)

\* The stop feedback of a route that ends in t, and the track after t.
StopFeedback(t) ==
  CHOOSE f \in FeedbacksOf(t) : TrackOf[Beyond(f)] # t

NextTrack(t) == TrackOf[Beyond(StopFeedback(t))]

\* Every track is one stretch of contacts that ends at its stop feedback.
ASSUME TracksAreStretches ==
  \A t \in Tracks : \E f \in Feedbacks :
    FeedbacksOf(t) = Stretch(f, StopFeedback(t))

\* There are other tracks than the two a route joins.
ASSUME CircleIsWide == \A t \in Tracks : NextTrack(NextTrack(t)) # t

ASSUME TrainsApart ==
  \A l, m \in Locos : TrackOf[StartAt[l]] = TrackOf[StartAt[m]] => l = m

\* A train is placed where a route would have ended.
ASSUME TrainsAtStops ==
  \A l \in Locos : StartAt[l] = StopFeedback(TrackOf[StartAt[l]])

ASSUME WagonsOffStops == \A t \in Tracks : StopFeedback(t) \notin Spots

VARIABLES
  front, tail, gap, wagon,    \* the layout: see Body and Contact
  wire,                       \* reports under way, each a contact and a state
  stateCounter,               \* of a feedback
  reporting, clearing,        \* what the two threads are about to tell a track
  lock, trackState, locoBaseDelayed, trackStateDelayed, blocked,  \* of a track
  from, first,                \* trackFrom, trackFirst of a locomotive
  searching, executed,        \* in its stateMutex: the track it reserved, and
                              \* whether its route has been executed
  told, dropped,              \* its feedbackIdsReached and releaseTrackQueue
  booster

layoutVars == <<front, tail, gap, wagon>>
trackVars  == <<lock, trackState, locoBaseDelayed, trackStateDelayed, blocked>>
trainVars  == <<from, first, searching, executed, told, dropped>>
vars == <<layoutVars, wire, stateCounter, reporting, clearing, trackVars,
          trainVars, booster>>

(***************************************************************************)
(* The layout.                                                               *)
(***************************************************************************)
Body(l) == Stretch(tail[l], front[l])

Contact(f) == ~gap[f] /\ (f = wagon \/ \E l \in Locos : f \in Body(l))

TracksUnder(l) == {TrackOf[f] : f \in Body(l)}

Vacant(t) == wagon \notin FeedbacksOf(t) /\ \A l \in Locos : t \notin TracksUnder(l)

(***************************************************************************)
(* Type definitions                                                          *)
(***************************************************************************)
Reports == [feedback : Feedbacks, state : BOOLEAN]

TrackOrNone == Tracks \cup {None}

LayoutInvariant ==
  /\ front \in [Locos -> Feedbacks] /\ tail \in [Locos -> Feedbacks]
  /\ gap \in [Feedbacks -> BOOLEAN]
  /\ wagon \in Feedbacks \cup {Nowhere}
  /\ wire \in Seq(Reports)

TrackTypes ==
  /\ lock \in [Tracks -> Locks]
  /\ trackState \in [Tracks -> {"Free", "Occupied"}]
  /\ trackStateDelayed \in [Tracks -> {"Free", "Occupied"}]
  /\ locoBaseDelayed \in [Tracks -> Owners]
  /\ blocked \in [Tracks -> BOOLEAN]

FeedbackTypes ==
  /\ stateCounter \in [Feedbacks -> 0 .. MaxStateCounter]
  /\ reporting \in Feedbacks \cup {Nowhere}
  /\ clearing \in Feedbacks \cup {Nowhere}

TrainTypes ==
  /\ from \in [Locos -> Tracks]
  /\ first \in [Locos -> TrackOrNone]
  /\ searching \in [Locos -> TrackOrNone]
  /\ executed \in [Locos -> BOOLEAN]
  /\ told \in [Locos -> BOOLEAN]
  /\ dropped \in [Locos -> TrackOrNone]

TypeOK ==
  /\ LayoutInvariant
  /\ TrackTypes
  /\ FeedbackTypes
  /\ TrainTypes
  /\ booster \in {"Go", "Stop"}

(***************************************************************************)
(* Every train stands on one contact of a track that was reserved for it     *)
(* when it was placed, and whose feedback has been reported.                 *)
(***************************************************************************)
Standing == {StartAt[l] : l \in Locos}

TrainOn(t) ==
  IF \E l \in Locos : TrackOf[StartAt[l]] = t
  THEN CHOOSE l \in Locos : TrackOf[StartAt[l]] = t
  ELSE None

Init ==
  /\ front = StartAt /\ tail = StartAt
  /\ gap = [f \in Feedbacks |-> FALSE]
  /\ wagon = Nowhere
  /\ wire = <<>>
  /\ stateCounter = [f \in Feedbacks |->
       IF f \in Standing THEN MaxStateCounter ELSE 0]
  /\ reporting = Nowhere /\ clearing = Nowhere
  /\ lock = [t \in Tracks |->
       IF TrainOn(t) = None THEN FreeLock
                            ELSE [state |-> "Reserved", owner |-> TrainOn(t)]]
  /\ trackState = [t \in Tracks |->
       IF TrainOn(t) = None THEN "Free" ELSE "Occupied"]
  /\ trackStateDelayed = trackState
  /\ locoBaseDelayed = [t \in Tracks |-> TrainOn(t)]
  /\ blocked = [t \in Tracks |-> FALSE]
  /\ from = [l \in Locos |-> TrackOf[StartAt[l]]]
  /\ first = [l \in Locos |-> None]
  /\ searching = [l \in Locos |-> None]
  /\ executed = [l \in Locos |-> FALSE]
  /\ told = [l \in Locos |-> FALSE]
  /\ dropped = [l \in Locos |-> None]
  /\ booster = "Go"

(***************************************************************************)
(* What happens on the layout.  Every change of a contact is reported; a     *)
(* train that the program stops does so within its destination track.        *)
(***************************************************************************)
Report(f) ==
  /\ Len(wire) < MaxReports
  /\ wire' = IF Contact(f)' = Contact(f) THEN wire
             ELSE Append(wire, [feedback |-> f, state |-> Contact(f)'])

MoveFront(l, f) ==
  /\ booster = "Go"
  /\ f = Beyond(front[l])
  /\ f # wagon /\ f \notin Body(l)
  /\ Cardinality(Body(l)) < MaxLength
  /\ TrackOf[f] \in {from[l], first[l]}
  /\ front' = [front EXCEPT ![l] = f]
  /\ UNCHANGED <<tail, gap, wagon>>
  /\ Report(f)

MoveTail(l, f) ==
  /\ booster = "Go"
  /\ tail[l] = f /\ front[l] # f
  /\ tail' = [tail EXCEPT ![l] = Beyond(f)]
  /\ gap' = [gap EXCEPT ![f] = FALSE]
  /\ UNCHANGED <<front, wagon>>
  /\ Report(f)

\* Dirt under a wheel: the contact fails, and comes back.
LoseContact(f) ==
  /\ Contact(f)
  /\ gap' = [gap EXCEPT ![f] = TRUE]
  /\ UNCHANGED <<front, tail, wagon>>
  /\ Report(f)

RegainContact(f) ==
  /\ gap[f]
  /\ gap' = [gap EXCEPT ![f] = FALSE]
  /\ UNCHANGED <<front, tail, wagon>>
  /\ Report(f)

PutWagon(f) ==
  /\ f \in Spots /\ wagon = Nowhere
  /\ \A l \in Locos : f \notin Body(l)
  /\ wagon' = f
  /\ UNCHANGED <<front, tail, gap>>
  /\ Report(f)

TakeWagon(f) ==
  /\ wagon = f
  /\ wagon' = Nowhere
  /\ gap' = [gap EXCEPT ![f] = FALSE]
  /\ UNCHANGED <<front, tail>>
  /\ Report(f)

Layout ==
  /\ \E f \in Feedbacks :
       \/ \E l \in Locos : MoveFront(l, f) \/ MoveTail(l, f)
       \/ LoseContact(f) \/ RegainContact(f)
       \/ PutWagon(f) \/ TakeWagon(f)
  /\ UNCHANGED <<stateCounter, reporting, clearing, trackVars, trainVars, booster>>

(***************************************************************************)
(* Feedback::SetState by the reporter: the counter, under the feedback's     *)
(* mutex; what is left to tell the track comes in a later step.              *)
(***************************************************************************)
\* A fault: the count is not started.
CountedNever(k, occupied) == IF occupied THEN MaxStateCounter ELSE k

Counted(k, occupied) ==
  IF occupied THEN MaxStateCounter
  ELSE IF k < MaxStateCounter THEN k ELSE MaxStateCounter - 1

SetState ==
  LET f == Head(wire).feedback IN
  /\ wire # <<>> /\ reporting = Nowhere
  /\ wire' = Tail(wire)
  /\ stateCounter' = [stateCounter EXCEPT ![f] = Counted(@, Head(wire).state)]
  /\ reporting' = IF Head(wire).state /\ stateCounter[f] = 0 THEN f ELSE Nowhere
  /\ UNCHANGED <<layoutVars, clearing, trackVars, trainVars, booster>>

(***************************************************************************)
(* Feedback::Debounce, called in every round for each feedback; the rounds   *)
(* are kept apart by feedback.  InTime is what debouncing is made for: a     *)
(* contact that fails is back, and its report taken, before the count ends.  *)
(***************************************************************************)
InTime(f) ==
  /\ ~gap[f]
  /\ [feedback |-> f, state |-> TRUE] \notin {wire[i] : i \in DOMAIN wire}

\* A fault: a feedback that is free is counted down as well.
DueAlways(f) == stateCounter[f] # MaxStateCounter

Due(f) == stateCounter[f] \notin {0, MaxStateCounter}

Debounce(f) ==
  /\ clearing = Nowhere
  /\ Due(f)
  /\ stateCounter[f] = 1 => InTime(f)
  /\ stateCounter' = [stateCounter EXCEPT ![f] = @ - 1]
  /\ clearing' = IF stateCounter[f] = 1 THEN f ELSE Nowhere
  /\ UNCHANGED <<layoutVars, wire, reporting, trackVars, trainVars, booster>>

(***************************************************************************)
(* Track::SetFeedbackState, under the updateMutex of the track.  A track     *)
(* that becomes occupied tells the locomotive it is, or was, reserved for    *)
(* (LocationReached: here, the stop feedback), or else cuts the current.     *)
(***************************************************************************)
Occupy ==
  LET t == TrackOf[reporting]
      l == locoBaseDelayed[t]
  IN
  /\ reporting # Nowhere
  /\ reporting' = Nowhere
  /\ IF l = None
     THEN /\ booster' = IF blocked[t] THEN booster ELSE "Stop"
          /\ blocked' = [blocked EXCEPT ![t] = TRUE]
          /\ UNCHANGED told
     ELSE /\ told' = [told EXCEPT ![l] =
               \/ @
               \/ first[l] # None /\ reporting = StopFeedback(first[l])]
          /\ UNCHANGED <<booster, blocked>>
  /\ trackState' = [trackState EXCEPT ![t] = "Occupied"]
  /\ trackStateDelayed' = [trackStateDelayed EXCEPT ![t] = "Occupied"]
  /\ UNCHANGED <<layoutVars, wire, stateCounter, clearing, lock, locoBaseDelayed,
                 from, first, searching, executed, dropped>>

(***************************************************************************)
(* A feedback that has become free: nothing happens unless all feedbacks of  *)
(* the track are free now.  A track "Release when free" is taken from its    *)
(* locomotive, provided that does not need it any more (CheckFreeingTrack,   *)
(* which waits for the stateMutex); the delayed owner of another track is    *)
(* forgotten when nobody has it reserved.                                    *)
(***************************************************************************)
MayFree(l, t) == ~(from[l] = t /\ first[l] = None) /\ first[l] # t

\* A fault: the stateMutex is not taken.
MutexNotAsked(l) == TRUE

MutexFree(l) == searching[l] = None

\* Faults: only the feedback itself is asked; the owner is not asked.
AllFreeOne(t) == stateCounter[clearing] = 0

ForgetsAlways(t) == TRUE

AllFree(t) == \A f \in FeedbacksOf(t) : stateCounter[f] = 0

Forgets(t) == lock[t].owner = None

Clear ==
  LET t == TrackOf[clearing]
      l == lock[t].owner
      freed == t \in FreeingTracks /\ l # None /\ MayFree(l, t)
  IN
  /\ clearing # Nowhere
  /\ clearing' = Nowhere
  /\ t \in FreeingTracks /\ l # None => MutexFree(l)
  /\ IF AllFree(t)
     THEN /\ trackState' = [trackState EXCEPT ![t] = "Free"]
          /\ lock' = IF freed THEN [lock EXCEPT ![t] = Released(@, l)] ELSE lock
          /\ IF freed \/ Forgets(t)
             THEN /\ locoBaseDelayed' = [locoBaseDelayed EXCEPT ![t] = None]
                  /\ trackStateDelayed' = [trackStateDelayed EXCEPT ![t] = "Free"]
             ELSE UNCHANGED <<locoBaseDelayed, trackStateDelayed>>
     ELSE UNCHANGED <<trackState, lock, locoBaseDelayed, trackStateDelayed>>
  /\ UNCHANGED <<layoutVars, wire, stateCounter, reporting, blocked, trainVars, booster>>

(***************************************************************************)
(* The automode thread.  A search reserves the next track and locks it,      *)
(* before the track is entered as destination, all under the stateMutex.     *)
(* The thread gives back what it dropped before it looks for more.           *)
(***************************************************************************)
CanReserveTrack(t, l) ==
  /\ locoBaseDelayed[t] \in {None, l} /\ ~blocked[t] /\ trackState[t] = "Free"
  /\ CanReserve(lock[t], l)

Reserve(l) ==
  LET t == NextTrack(from[l]) IN
  /\ first[l] = None /\ searching[l] = None /\ dropped[l] = None
  /\ booster = "Go"
  /\ CanReserveTrack(t, l)
  /\ lock' = [lock EXCEPT ![t] = Reserved(@, l)]
  /\ locoBaseDelayed' = [locoBaseDelayed EXCEPT ![t] = l]
  /\ searching' = [searching EXCEPT ![l] = t]
  /\ UNCHANGED <<layoutVars, wire, stateCounter, reporting, clearing, trackState,
                 trackStateDelayed, blocked, from, first, executed, told, dropped,
                 booster>>

Execute(l) ==
  LET t == searching[l] IN
  /\ t # None
  /\ ~executed[l] /\ CanLock(lock[t], l)
  /\ lock' = [lock EXCEPT ![t] = Locked(@)]
  /\ executed' = [executed EXCEPT ![l] = TRUE]
  /\ UNCHANGED <<layoutVars, wire, stateCounter, reporting, clearing, trackState,
                 trackStateDelayed, locoBaseDelayed, blocked, from, first, searching,
                 told, dropped, booster>>

Depart(l) ==
  /\ executed[l]
  /\ executed' = [executed EXCEPT ![l] = FALSE]
  /\ first' = [first EXCEPT ![l] = searching[l]]
  /\ searching' = [searching EXCEPT ![l] = None]
  /\ UNCHANGED <<layoutVars, wire, stateCounter, reporting, clearing, trackVars, from,
                 told, dropped, booster>>

(***************************************************************************)
(* Track::Release: an occupied track keeps the locomotive as its delayed     *)
(* owner until it is free.                                                   *)
(***************************************************************************)
Release(t, l) ==
  /\ lock' = [lock EXCEPT ![t] = Released(@, l)]
  /\ IF CanRelease(lock[t], l) /\ trackState[t] = "Free"
     THEN /\ locoBaseDelayed' = [locoBaseDelayed EXCEPT ![t] = None]
          /\ trackStateDelayed' = [trackStateDelayed EXCEPT ![t] = "Free"]
     ELSE UNCHANGED <<locoBaseDelayed, trackStateDelayed>>
  /\ UNCHANGED <<trackState, blocked>>

\* The route cannot be executed: a condition, another element, no current.
Refuse(l) ==
  /\ searching[l] # None /\ ~executed[l]
  /\ Release(searching[l], l)
  /\ searching' = [searching EXCEPT ![l] = None]
  /\ UNCHANGED <<layoutVars, wire, stateCounter, reporting, clearing, from, first,
                 executed, told, dropped, booster>>

\* FeedbackIdStopReached with ShiftRoute.
StopReached(l) ==
  /\ told[l] /\ searching[l] = None /\ dropped[l] = None
  /\ told' = [told EXCEPT ![l] = FALSE]
  /\ from' = [from EXCEPT ![l] = first[l]]
  /\ first' = [first EXCEPT ![l] = None]
  /\ dropped' = [dropped EXCEPT ![l] = from[l]]
  /\ UNCHANGED <<layoutVars, wire, stateCounter, reporting, clearing, trackVars,
                 searching, executed, booster>>

\* What lies in releaseTrackQueue is released after the tick.
ReleaseTrack(l) ==
  /\ dropped[l] # None
  /\ dropped' = [dropped EXCEPT ![l] = None]
  /\ Release(dropped[l], l)
  /\ UNCHANGED <<layoutVars, wire, stateCounter, reporting, clearing, from, first,
                 searching, executed, told, booster>>

(***************************************************************************)
(* The operator: unblocks a track, and turns the current on again.           *)
(***************************************************************************)
Unblock(t) ==
  /\ blocked[t]
  /\ blocked' = [blocked EXCEPT ![t] = FALSE]
  /\ UNCHANGED <<layoutVars, wire, stateCounter, reporting, clearing, lock, trackState,
                 locoBaseDelayed, trackStateDelayed, trainVars, booster>>

PowerOn ==
  /\ booster = "Stop"
  /\ booster' = "Go"
  /\ UNCHANGED <<layoutVars, wire, stateCounter, reporting, clearing, trackVars,
                 trainVars>>

Automode(l) ==
  \/ Reserve(l) \/ Execute(l) \/ Depart(l) \/ Refuse(l)
  \/ StopReached(l) \/ ReleaseTrack(l)

Next ==
  \/ Layout
  \/ SetState \/ Occupy
  \/ \E f \in Feedbacks : Debounce(f)
  \/ Clear
  \/ \E l \in Locos : Automode(l)
  \/ \E t \in Tracks : Unblock(t)
  \/ PowerOn

Spec == Init /\ [][Next]_vars

(***************************************************************************)
(* The reporter reads whatever the command station sends, the debouncer has  *)
(* a round every 250 ms that passes every feedback, whatever the round finds *)
(* in the others (hence SF); trains and persons owe nothing.  A search ends  *)
(* by itself.                                                                *)
(***************************************************************************)
FairSpec ==
  /\ Spec
  /\ WF_vars(SetState) /\ WF_vars(Occupy) /\ WF_vars(Clear)
  /\ \A f \in Feedbacks : SF_vars(Debounce(f))
  /\ \A l \in Locos : WF_vars(Execute(l) \/ Depart(l) \/ Refuse(l))

(***************************************************************************)
(* Safety.                                                                   *)
(***************************************************************************)

(***************************************************************************)
(* Two trains are never in the same track, although a train's own contacts   *)
(* are all that is known of it, come late, fail for a moment, and its track  *)
(* is given back while its end is still there.                               *)
(***************************************************************************)
OneTrainPerTrack ==
  \A l, m \in Locos : l # m => TracksUnder(l) \cap TracksUnder(m) = {}

(***************************************************************************)
(* A track that counts as free has no feedback that counts as occupied,      *)
(* except the one the reporter is about to tell it: the two threads that set *)
(* a track do not hold the feedback's mutex when they do.                    *)
(***************************************************************************)
FreeIsClear ==
  \A t \in Tracks : trackState[t] = "Free" =>
    \A f \in FeedbacksOf(t) : stateCounter[f] = 0 \/ reporting = f

(***************************************************************************)
(* The delayed owner of a track, which keeps others out and is told of its   *)
(* feedbacks, is the owner of its lock; without one, it outlasts the         *)
(* reservation only while the track is occupied.                             *)
(***************************************************************************)
DelayedFits ==
  \A t \in Tracks :
    /\ lock[t].owner # None => locoBaseDelayed[t] = lock[t].owner
    /\ trackState[t] = "Free" => locoBaseDelayed[t] = lock[t].owner

(***************************************************************************)
(* The destination of a driving train stays locked for it, whatever is       *)
(* reported from there meanwhile.                                            *)
(***************************************************************************)
DestinationHeld ==
  \A l \in Locos : first[l] # None => lock[first[l]].owner = l

(***************************************************************************)
(* The current is never cut because of a train that is where the program     *)
(* sent it: the feedback that raises the alarm lies under no train.          *)
(***************************************************************************)
NoFalseAlarm ==
  [][booster = "Go" /\ booster' = "Stop" =>
       \A l \in Locos : reporting \notin Body(l)]_vars

(***************************************************************************)
(* Liveness.                                                                 *)
(***************************************************************************)

(***************************************************************************)
(* A track that no vehicle touches any more becomes free and stays so, in    *)
(* whatever order its feedbacks were left.                                   *)
(***************************************************************************)
BecomesFree ==
  \A t \in Tracks : <>[]Vacant(t) => <>[](trackState[t] = "Free")
=============================================================================
