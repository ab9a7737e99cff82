--------------------------- MODULE OccupancyProofs --------------------------
(***************************************************************************)
(* Theorems about module Occupancy, for every circle of contacts, every      *)
(* division into tracks and any number of trains and reports.                *)
(*                                                                           *)
(* Typing comes first.  FreeIsClear and DelayedFits are inductive on typed   *)
(* states; DestinationHeld needs what a search in progress guarantees, which *)
(* AheadHeld states.  OneTrainPerTrack and NoFalseAlarm tie the layout to    *)
(* the reports under way: SensorInvariant says what is known of a contact,   *)
(* Course where a train is, TracksOwned and StopExplained who has the tracks *)
(* it is on (TrainInvariant is their conjunction).                           *)
(***************************************************************************)
EXTENDS Occupancy, TLAPS

(***************************************************************************)
(* The operators of a lock keep its type.                                    *)
(***************************************************************************)
LEMMA LockOperators ==
  ASSUME NEW k \in Locks, NEW l \in Locos
  PROVE  /\ Reserved(k, l) \in Locks
         /\ Locked(k) \in Locks
         /\ Released(k, l) \in Locks
         /\ FreeLock \in Locks
  BY DEF Locks, LockStates, Owners, Reserved, Locked, Released, FreeLock

(***************************************************************************)
(* The arithmetic of the circle: the next contact is one, nowhere is none,   *)
(* and every track has a stop feedback of its own and a track after it.      *)
(***************************************************************************)
LEMMA BeyondIsContact ==
  ASSUME NEW f \in Feedbacks
  PROVE  Beyond(f) \in Feedbacks
<1>1. N \in Nat \ {0} /\ f \in 0 .. N - 1
  BY LayoutTypes DEF Feedbacks
<1>2. (f + 1) % N \in 0 .. N - 1
  BY <1>1
<1> QED
  BY <1>2 DEF Beyond, Feedbacks

LEMMA NowhereIsNoContact == Nowhere \notin Feedbacks
  BY LayoutTypes DEF Feedbacks, Nowhere

LEMMA StopInTrack ==
  ASSUME NEW t \in Tracks
  PROVE  StopFeedback(t) \in FeedbacksOf(t)
  BY TracksEnd DEF StopFeedback

LEMMA NextIsTrack ==
  ASSUME NEW t \in Tracks
  PROVE  NextTrack(t) \in Tracks
<1>1. StopFeedback(t) \in Feedbacks
  BY StopInTrack DEF FeedbacksOf
<1>2. Beyond(StopFeedback(t)) \in Feedbacks
  BY <1>1, BeyondIsContact
<1> QED
  BY <1>2, LayoutTypes DEF NextTrack

LEMMA CountedInRange ==
  ASSUME NEW k \in 0 .. MaxStateCounter, NEW b \in BOOLEAN
  PROVE  /\ Counted(k, b) \in 0 .. MaxStateCounter
         /\ k = 0 /\ ~b => Counted(k, b) = 0
  BY LayoutTypes DEF Counted

(***************************************************************************)
(* What a locomotive is told and what it searches stays within its route: it *)
(* is told of an arrival only while it has a destination, searches only      *)
(* without one, and gives back a track before it searches.                   *)
(***************************************************************************)
Orderly(l) ==
  /\ told[l] => first[l] # None
  /\ searching[l] # None => first[l] = None
  /\ executed[l] => searching[l] # None
  /\ dropped[l] # None => first[l] = None /\ searching[l] = None

Typed == TypeOK /\ \A l \in Locos : Orderly(l)

LEMMA TypedInit == Init => Typed
<1> SUFFICES ASSUME Init PROVE Typed
  OBVIOUS
<1> USE LayoutTypes DEF Init
<1>1. \A t \in Tracks : TrainOn(t) \in Owners
  BY DEF TrainOn, Owners
<1>2. LayoutInvariant
  BY DEF LayoutInvariant
<1>3. lock \in [Tracks -> Locks]
  BY <1>1, LockOperators DEF Locks, LockStates, FreeLock, Owners
<1>4. TrackTypes
  BY <1>1, <1>3 DEF TrackTypes
<1>5. FeedbackTypes
  BY DEF FeedbackTypes
<1>6. TrainTypes
  BY DEF TrainTypes, TrackOrNone
<1>7. \A l \in Locos : Orderly(l)
  BY DEF Orderly
<1> QED
  BY <1>2, <1>4, <1>5, <1>6, <1>7 DEF Typed, TypeOK

(***************************************************************************)
(* The layout keeps its own types and touches nothing else.                  *)
(***************************************************************************)
LEMMA ReportTyped ==
  ASSUME TypeOK, NEW f \in Feedbacks, Report(f)
  PROVE  wire' \in Seq(Reports)
<1>1. Contact(f)' \in BOOLEAN
  BY DEF Contact
<1>2. [feedback |-> f, state |-> Contact(f)'] \in Reports
  BY <1>1 DEF Reports
<1> QED
  BY <1>2 DEF Report, TypeOK, LayoutInvariant

LEMMA LayoutTyped ==
  ASSUME TypeOK, Layout
  PROVE  LayoutInvariant'
<1> USE LayoutTypes
<1>1. PICK f \in Feedbacks :
        \/ \E l \in Locos : MoveFront(l, f) \/ MoveTail(l, f)
        \/ LoseContact(f) \/ RegainContact(f) \/ PutWagon(f) \/ TakeWagon(f)
  BY DEF Layout
<1>2. Report(f)
  BY <1>1 DEF MoveFront, MoveTail, LoseContact, RegainContact, PutWagon, TakeWagon
<1>3. wire' \in Seq(Reports)
  BY <1>2, ReportTyped
<1>4. front' \in [Locos -> Feedbacks]
  <2>1. Beyond(f) \in Feedbacks
    BY BeyondIsContact
  <2> QED
    BY <1>1, <2>1
       DEF TypeOK, LayoutInvariant, MoveFront, MoveTail, LoseContact, RegainContact,
           PutWagon, TakeWagon
<1>5. tail' \in [Locos -> Feedbacks]
  <2>1. Beyond(f) \in Feedbacks
    BY BeyondIsContact
  <2> QED
    BY <1>1, <2>1
       DEF TypeOK, LayoutInvariant, MoveFront, MoveTail, LoseContact, RegainContact,
           PutWagon, TakeWagon
<1>6. gap' \in [Feedbacks -> BOOLEAN] /\ wagon' \in Feedbacks \cup {Nowhere}
  BY <1>1
     DEF TypeOK, LayoutInvariant, MoveFront, MoveTail, LoseContact, RegainContact,
         PutWagon, TakeWagon
<1> QED
  BY <1>3, <1>4, <1>5, <1>6 DEF LayoutInvariant

(***************************************************************************)
(* Releasing a track keeps the types of the tracks.                          *)
(***************************************************************************)
LEMMA ReleaseTyped ==
  ASSUME TypeOK, NEW l \in Locos, NEW t \in Tracks, Release(t, l)
  PROVE  TrackTypes'
<1>1. lock[t] \in Locks
  BY DEF TypeOK, TrackTypes
<1>2. lock' \in [Tracks -> Locks]
  BY <1>1, LockOperators DEF Release, TypeOK, TrackTypes
<1>3. /\ locoBaseDelayed' \in [Tracks -> Owners]
      /\ trackStateDelayed' \in [Tracks -> {"Free", "Occupied"}]
  BY DEF Release, TypeOK, TrackTypes, Owners
<1> QED
  BY <1>2, <1>3 DEF Release, TypeOK, TrackTypes

LEMMA TypedNext == Typed /\ [Next]_vars => Typed'
<1> SUFFICES ASSUME Typed, [Next]_vars PROVE Typed'
  OBVIOUS
<1> USE NoneIsNoLoco, LayoutTypes DEF Typed
<1>1. CASE UNCHANGED vars
  BY <1>1 DEF vars, layoutVars, trackVars, trainVars, TypeOK, LayoutInvariant,
              TrackTypes, FeedbackTypes, TrainTypes, Orderly
<1>2. CASE Layout
  <2>1. LayoutInvariant'
    BY <1>2, LayoutTyped
  <2> QED
    BY <1>2, <2>1
       DEF Layout, trackVars, trainVars, TypeOK, TrackTypes, FeedbackTypes, TrainTypes,
           Orderly
<1>3. CASE SetState
  <2>1. Head(wire) \in Reports /\ Tail(wire) \in Seq(Reports)
    BY <1>3 DEF SetState, TypeOK, LayoutInvariant
  <2>2. /\ Head(wire).feedback \in Feedbacks /\ Head(wire).state \in BOOLEAN
    BY <2>1 DEF Reports
  <2>3. stateCounter[Head(wire).feedback] \in 0 .. MaxStateCounter
    BY <2>2 DEF TypeOK, FeedbackTypes
  <2>4. FeedbackTypes'
    BY <1>3, <2>2, <2>3, CountedInRange DEF SetState, TypeOK, FeedbackTypes
  <2> QED
    BY <1>3, <2>1, <2>4
       DEF SetState, layoutVars, trackVars, trainVars, TypeOK, LayoutInvariant,
           TrackTypes, TrainTypes, Orderly
<1>4. CASE Occupy
  <2>1. reporting \in Feedbacks
    BY <1>4 DEF Occupy, TypeOK, FeedbackTypes
  <2>2. TrackOf[reporting] \in Tracks
    BY <2>1
  <2>3. TrackTypes'
    BY <1>4, <2>2 DEF Occupy, TypeOK, TrackTypes
  <2>4. FeedbackTypes'
    BY <1>4 DEF Occupy, TypeOK, FeedbackTypes
  <2>5. booster' \in {"Go", "Stop"}
    BY <1>4 DEF Occupy, TypeOK
  <2>6. told' \in [Locos -> BOOLEAN] /\ \A l \in Locos : told'[l] => first[l] # None
    <3>1. CASE UNCHANGED told
      BY <3>1 DEF TypeOK, TrainTypes, Orderly
    <3>2. CASE locoBaseDelayed[TrackOf[reporting]] # None
      <4> DEFINE m == locoBaseDelayed[TrackOf[reporting]]
      <4>1. told' = [told EXCEPT ![m] =
              told[m] \/ (first[m] # None /\ reporting = StopFeedback(first[m]))]
        BY <1>4, <3>2 DEF Occupy
      <4>2. m \in Locos
        BY <2>2, <3>2 DEF TypeOK, TrackTypes, Owners
      <4>3. told \in [Locos -> BOOLEAN]
        BY DEF TypeOK, TrainTypes
      <4>4. \A l \in Locos : told[l] => first[l] # None
        BY DEF Orderly
      <4> HIDE DEF m
      <4>5. told' \in [Locos -> BOOLEAN]
        BY <4>1, <4>2, <4>3
      <4>6. \A l \in Locos : l # m => told'[l] = told[l]
        BY <4>1, <4>3
      <4>7. told'[m] => told[m] \/ first[m] # None
        BY <4>1, <4>2, <4>3
      <4> QED
        BY <4>2, <4>4, <4>5, <4>6, <4>7
    <3> QED
      BY <1>4, <3>1, <3>2 DEF Occupy
  <2>7. TrainTypes' /\ \A l \in Locos : Orderly(l)'
    BY <1>4, <2>6 DEF Occupy, TypeOK, TrainTypes, Orderly
  <2> QED
    BY <1>4, <2>3, <2>4, <2>5, <2>7
       DEF Occupy, layoutVars, TypeOK, LayoutInvariant
<1>5. ASSUME NEW f \in Feedbacks, Debounce(f) PROVE Typed'
  <2>1. stateCounter[f] \in 0 .. MaxStateCounter /\ stateCounter[f] # 0
    BY <1>5 DEF Debounce, Due, TypeOK, FeedbackTypes
  <2>2. stateCounter[f] - 1 \in 0 .. MaxStateCounter
    BY <2>1
  <2>3. FeedbackTypes'
    BY <1>5, <2>2 DEF Debounce, TypeOK, FeedbackTypes
  <2> QED
    BY <1>5, <2>3
       DEF Debounce, layoutVars, trackVars, trainVars, TypeOK, LayoutInvariant,
           TrackTypes, TrainTypes, Orderly
<1>6. CASE Clear
  <2> DEFINE t == TrackOf[clearing]
  <2>1. t \in Tracks
    BY <1>6 DEF Clear, TypeOK, FeedbackTypes
  <2>2. lock[t] \in Locks /\ lock[t].owner \in Owners
    BY <2>1 DEF TypeOK, TrackTypes, Locks
  <2>3. lock' \in [Tracks -> Locks]
    <3>1. lock \in [Tracks -> Locks]
      BY DEF TypeOK, TrackTypes
    <3>2. \/ lock' = lock
          \/ /\ lock[t].owner # None
             /\ lock' = [lock EXCEPT ![t] = Released(lock[t], lock[t].owner)]
      BY <1>6 DEF Clear
    <3>3. lock[t].owner # None => Released(lock[t], lock[t].owner) \in Locks
      BY <2>2, LockOperators DEF Owners
    <3> HIDE DEF t
    <3> QED
      BY <2>1, <3>1, <3>2, <3>3
  <2>4. /\ trackState' \in [Tracks -> {"Free", "Occupied"}]
        /\ trackStateDelayed' \in [Tracks -> {"Free", "Occupied"}]
        /\ locoBaseDelayed' \in [Tracks -> Owners]
    BY <1>6 DEF Clear, TypeOK, TrackTypes, Owners
  <2> QED
    BY <1>6, <2>3, <2>4
       DEF Clear, layoutVars, trainVars, TypeOK, LayoutInvariant, TrackTypes,
           FeedbackTypes, TrainTypes, Orderly
<1>7. ASSUME NEW m \in Locos, Automode(m) PROVE Typed'
  <2>0. /\ from[m] \in Tracks /\ NextTrack(from[m]) \in Tracks
        /\ None \notin Tracks
        /\ Orderly(m)
    BY NextIsTrack DEF TypeOK, TrainTypes
  <2>1. CASE Reserve(m)
    <3>1. lock[NextTrack(from[m])] \in Locks
      BY <2>0 DEF TypeOK, TrackTypes
    <3>2. TrackTypes'
      BY <2>0, <2>1, <3>1, LockOperators DEF Reserve, TypeOK, TrackTypes, Owners
    <3>3. TrainTypes' /\ \A l \in Locos : Orderly(l)'
      BY <2>0, <2>1 DEF Reserve, TypeOK, TrainTypes, TrackOrNone, Orderly
    <3> QED
      BY <2>1, <3>2, <3>3
         DEF Reserve, layoutVars, TypeOK, LayoutInvariant, FeedbackTypes
  <2>2. CASE Execute(m)
    <3>1. lock[searching[m]] \in Locks
      BY <2>2 DEF Execute, TypeOK, TrackTypes, TrainTypes, TrackOrNone
    <3>2. TrackTypes'
      BY <2>2, <3>1, LockOperators DEF Execute, TypeOK, TrackTypes
    <3>3. TrainTypes' /\ \A l \in Locos : Orderly(l)'
      BY <2>2 DEF Execute, TypeOK, TrainTypes, Orderly
    <3> QED
      BY <2>2, <3>2, <3>3
         DEF Execute, layoutVars, TypeOK, LayoutInvariant, FeedbackTypes
  <2>3. CASE Depart(m)
    <3>1. TrainTypes' /\ \A l \in Locos : Orderly(l)'
      BY <2>0, <2>3 DEF Depart, TypeOK, TrainTypes, Orderly
    <3> QED
      BY <2>3, <3>1
         DEF Depart, layoutVars, trackVars, TypeOK, LayoutInvariant, TrackTypes,
             FeedbackTypes
  <2>4. CASE Refuse(m)
    <3>1. searching[m] \in Tracks
      BY <2>4 DEF Refuse, TypeOK, TrainTypes, TrackOrNone
    <3>2. TrackTypes'
      BY <2>4, <3>1, ReleaseTyped DEF Refuse
    <3>3. TrainTypes' /\ \A l \in Locos : Orderly(l)'
      BY <2>4 DEF Refuse, TypeOK, TrainTypes, TrackOrNone, Orderly
    <3> QED
      BY <2>4, <3>2, <3>3
         DEF Refuse, layoutVars, TypeOK, LayoutInvariant, FeedbackTypes
  <2>5. CASE StopReached(m)
    <3>1. first[m] \in Tracks
      BY <2>0, <2>5 DEF StopReached, TypeOK, TrainTypes, TrackOrNone, Orderly
    <3>2. TrainTypes' /\ \A l \in Locos : Orderly(l)'
      BY <2>0, <2>5, <3>1 DEF StopReached, TypeOK, TrainTypes, TrackOrNone, Orderly
    <3> QED
      BY <2>5, <3>2
         DEF StopReached, layoutVars, trackVars, TypeOK, LayoutInvariant, TrackTypes,
             FeedbackTypes
  <2>6. CASE ReleaseTrack(m)
    <3>1. dropped[m] \in Tracks
      BY <2>6 DEF ReleaseTrack, TypeOK, TrainTypes, TrackOrNone
    <3>2. TrackTypes'
      BY <2>6, <3>1, ReleaseTyped DEF ReleaseTrack
    <3>3. TrainTypes' /\ \A l \in Locos : Orderly(l)'
      BY <2>6 DEF ReleaseTrack, TypeOK, TrainTypes, TrackOrNone, Orderly
    <3> QED
      BY <2>6, <3>2, <3>3
         DEF ReleaseTrack, layoutVars, TypeOK, LayoutInvariant, FeedbackTypes
  <2> QED
    BY <1>7, <2>1, <2>2, <2>3, <2>4, <2>5, <2>6 DEF Automode
<1>8. CASE (\E t \in Tracks : Unblock(t)) \/ PowerOn
  <2>1. TrackTypes' /\ booster' \in {"Go", "Stop"}
    BY <1>8 DEF Unblock, PowerOn, trackVars, TypeOK, TrackTypes
  <2>2. LayoutInvariant' /\ FeedbackTypes'
    BY <1>8 DEF Unblock, PowerOn, layoutVars, TypeOK, LayoutInvariant, FeedbackTypes
  <2>3. TrainTypes' /\ \A l \in Locos : Orderly(l)'
    BY <1>8 DEF Unblock, PowerOn, trainVars, TypeOK, TrainTypes, Orderly
  <2> QED
    BY <2>1, <2>2, <2>3 DEF TypeOK
<1> QED
  BY <1>1, <1>2, <1>3, <1>4, <1>5, <1>6, <1>7, <1>8 DEF Next

(***************************************************************************)
(* The states of the feedbacks, tracks and trains keep their types.          *)
(***************************************************************************)
THEOREM OccupancyTyped == Spec => []TypeOK
<1>1. Typed => TypeOK
  BY DEF Typed
<1> QED
  BY <1>1, TypedInit, TypedNext, PTL DEF Spec

(***************************************************************************)
(* A free track has only free feedbacks.  Counting down never makes a        *)
(* feedback occupied; a report that does is still to be told; and a track    *)
(* becomes free only by an action that looks at all its feedbacks.           *)
(***************************************************************************)
LEMMA ClearKept == Typed /\ FreeIsClear /\ [Next]_vars => FreeIsClear'
<1> SUFFICES ASSUME Typed, FreeIsClear, [Next]_vars,
                    NEW t \in Tracks, trackState'[t] = "Free",
                    NEW f \in FeedbacksOf(t)
             PROVE  stateCounter'[f] = 0 \/ reporting' = f
  BY DEF FreeIsClear
<1>0. f \in Feedbacks /\ f # Nowhere /\ TrackOf[f] = t
  BY NowhereIsNoContact DEF FeedbacksOf
<1>a. trackState[t] = "Free" => stateCounter[f] = 0 \/ reporting = f
  BY DEF FreeIsClear
<1>1. CASE UNCHANGED <<trackState, stateCounter, reporting>>
  BY <1>1, <1>a
<1>2. CASE SetState
  <2>1. trackState[t] = "Free" /\ stateCounter[f] = 0
    BY <1>0, <1>a, <1>2 DEF SetState, trackVars
  <2> DEFINE g == Head(wire).feedback
  <2>2. Head(wire) \in Reports
    BY <1>2 DEF SetState, Typed, TypeOK, LayoutInvariant
  <2>3. g \in Feedbacks /\ Head(wire).state \in BOOLEAN
    BY <2>2 DEF Reports
  <2>4. stateCounter'[f] = IF f = g THEN Counted(stateCounter[g], Head(wire).state)
                                    ELSE stateCounter[f]
    BY <1>0, <1>2 DEF SetState, Typed, TypeOK, FeedbackTypes
  <2>5. CASE f = g /\ Head(wire).state
    BY <1>2, <2>1, <2>5 DEF SetState
  <2>6. CASE f = g /\ ~Head(wire).state
    <3>1. stateCounter[g] \in 0 .. MaxStateCounter
      BY <2>3 DEF Typed, TypeOK, FeedbackTypes
    <3> QED
      BY <2>1, <2>3, <2>4, <2>6, <3>1, CountedInRange
  <2> QED
    BY <2>1, <2>4, <2>5, <2>6
<1>3. CASE Occupy
  <2>1. reporting \in Feedbacks /\ TrackOf[reporting] \in Tracks
    BY <1>3, LayoutTypes DEF Occupy, Typed, TypeOK, FeedbackTypes
  <2>2. t # TrackOf[reporting] /\ trackState[t] = "Free"
    BY <1>3, <2>1 DEF Occupy, Typed, TypeOK, TrackTypes
  <2> QED
    BY <1>0, <1>3, <1>a, <2>2 DEF Occupy
<1>4. ASSUME NEW g \in Feedbacks, Debounce(g)
      PROVE  stateCounter'[f] = 0 \/ reporting' = f
  <2>1. stateCounter'[f] = IF f = g THEN stateCounter[g] - 1 ELSE stateCounter[f]
    BY <1>0, <1>4 DEF Debounce, Typed, TypeOK, FeedbackTypes
  <2>2. stateCounter[g] # 0 /\ reporting' = reporting /\ trackState' = trackState
    BY <1>4 DEF Debounce, Due, trackVars
  <2> QED
    BY <1>a, <2>1, <2>2
<1>5. CASE Clear
  <2>1. stateCounter' = stateCounter /\ reporting' = reporting
    BY <1>5 DEF Clear
  <2>2. CASE trackState' = trackState
    BY <1>a, <2>1, <2>2
  <2>3. CASE t # TrackOf[clearing]
    <3>1. trackState'[t] = trackState[t]
      BY <1>5, <2>3 DEF Clear, Typed, TypeOK, TrackTypes
    <3> QED
      BY <1>a, <2>1, <3>1
  <2>4. CASE t = TrackOf[clearing] /\ AllFree(t)
    BY <2>1, <2>4 DEF AllFree
  <2> QED
    BY <1>5, <2>2, <2>3, <2>4 DEF Clear
<1>6. \A m \in Locos : Automode(m) => UNCHANGED <<trackState, stateCounter, reporting>>
  BY DEF Automode, Reserve, Execute, Depart, Refuse, StopReached, ReleaseTrack, Release,
         trackVars
<1>7. Layout => UNCHANGED <<trackState, stateCounter, reporting>>
  BY DEF Layout, trackVars
<1>8. /\ \A u \in Tracks : Unblock(u) => UNCHANGED <<trackState, stateCounter, reporting>>
      /\ PowerOn => UNCHANGED <<trackState, stateCounter, reporting>>
      /\ UNCHANGED vars => UNCHANGED <<trackState, stateCounter, reporting>>
  BY DEF Unblock, PowerOn, vars, trackVars
<1> QED
  BY <1>1, <1>2, <1>3, <1>4, <1>5, <1>6, <1>7, <1>8 DEF Next

\* Initially exactly the feedbacks under the trains are occupied.
LEMMA ClearInit == Init => FreeIsClear
<1> SUFFICES ASSUME Init,
                    NEW t \in Tracks, trackState[t] = "Free",
                    NEW f \in FeedbacksOf(t)
             PROVE  stateCounter[f] = 0
  BY DEF FreeIsClear
<1>1. TrainOn(t) = None
  BY DEF Init
<1>2. \A l \in Locos : TrackOf[StartAt[l]] # t
  <2>1. SUFFICES ASSUME NEW l \in Locos, TrackOf[StartAt[l]] = t PROVE FALSE
    OBVIOUS
  <2>2. TrainOn(t) \in Locos
    BY <2>1 DEF TrainOn
  <2> QED
    BY <1>1, <2>2, NoneIsNoLoco
<1>3. f \notin Standing /\ f \in Feedbacks
  BY <1>2 DEF Standing, FeedbacksOf
<1> QED
  BY <1>3 DEF Init

(***************************************************************************)
(* A track that counts as free has only free feedbacks, except one whose     *)
(* report is about to be told (FreeIsClear), however the reporter and the    *)
(* debouncer interleave (Track::FeedbackStateInternal asks all feedbacks).   *)
(***************************************************************************)
THEOREM FreeTracksAreClear == Spec => []FreeIsClear
  BY TypedInit, TypedNext, ClearInit, ClearKept, PTL DEF Spec

(***************************************************************************)
(* A lock that is held has an owner that is the delayed owner.               *)
(***************************************************************************)
LEMMA ReleaseKeepsFit ==
  ASSUME Typed, DelayedFits, NEW l \in Locos, NEW d \in Tracks, Release(d, l)
  PROVE  DelayedFits'
<1> SUFFICES ASSUME NEW t \in Tracks
             PROVE  /\ lock'[t].owner # None => locoBaseDelayed'[t] = lock'[t].owner
                    /\ trackState'[t] = "Free" => locoBaseDelayed'[t] = lock'[t].owner
  BY DEF DelayedFits
<1>1. trackState' = trackState
  BY DEF Release
<1>2. CASE t = d /\ CanRelease(lock[d], l)
  <2>1. lock'[t] = FreeLock
    BY <1>2 DEF Release, Released, Typed, TypeOK, TrackTypes
  <2>2. trackState[t] = "Free" => locoBaseDelayed'[t] = None
    BY <1>2 DEF Release, Typed, TypeOK, TrackTypes
  <2> QED
    BY <1>1, <2>1, <2>2 DEF FreeLock
<1>3. CASE ~(t = d /\ CanRelease(lock[d], l))
  <2>1. lock'[t] = lock[t]
    BY <1>3 DEF Release, Released, Typed, TypeOK, TrackTypes
  <2>2. locoBaseDelayed'[t] = locoBaseDelayed[t]
    BY <1>3 DEF Release, Typed, TypeOK, TrackTypes
  <2> QED
    BY <1>1, <2>1, <2>2 DEF DelayedFits
<1> QED
  BY <1>2, <1>3

LEMMA FitKept == Typed /\ DelayedFits /\ [Next]_vars => DelayedFits'
<1> SUFFICES ASSUME Typed, DelayedFits, [Next]_vars PROVE DelayedFits'
  OBVIOUS
<1> DEFINE trackOwners == <<lock, trackState, locoBaseDelayed>>
<1>1. CASE UNCHANGED trackOwners
  BY <1>1 DEF DelayedFits
<1>2. CASE Occupy
  <2>1. lock' = lock /\ locoBaseDelayed' = locoBaseDelayed
    BY <1>2 DEF Occupy
  <2>2. \A t \in Tracks : trackState'[t] = "Free" => trackState[t] = "Free"
    BY <1>2 DEF Occupy, Typed, TypeOK, TrackTypes
  <2> QED
    BY <2>1, <2>2 DEF DelayedFits
<1>3. CASE Clear
  <2> DEFINE c == TrackOf[clearing]
             l == lock[c].owner
             freed == c \in FreeingTracks /\ l # None /\ MayFree(l, c)
  <2>1. SUFFICES ASSUME AllFree(c) PROVE DelayedFits'
    BY <1>1, <1>3 DEF Clear
  <2>2. c \in Tracks
    BY <1>3, LayoutTypes DEF Clear, Typed, TypeOK, FeedbackTypes
  <2>3. lock' = IF freed THEN [lock EXCEPT ![c] = Released(@, l)] ELSE lock
    BY <1>3, <2>1 DEF Clear
  <2>4. freed \/ l = None => locoBaseDelayed' = [locoBaseDelayed EXCEPT ![c] = None]
    BY <1>3, <2>1 DEF Clear, Forgets
  <2>5. ~(freed \/ l = None) => locoBaseDelayed' = locoBaseDelayed
    BY <1>3, <2>1 DEF Clear, Forgets
  <2>6. trackState' = [trackState EXCEPT ![c] = "Free"]
    BY <1>3, <2>1 DEF Clear
  <2>7. lock'[c].owner = locoBaseDelayed'[c]
    <3>1. CASE freed
      <4>1. lock'[c] = FreeLock
        BY <2>2, <2>3, <3>1 DEF Released, CanRelease, Typed, TypeOK, TrackTypes
      <4> QED
        BY <2>2, <2>4, <3>1, <4>1 DEF FreeLock, Typed, TypeOK, TrackTypes
    <3>2. CASE ~freed
      BY <2>2, <2>3, <2>4, <2>5, <3>2 DEF DelayedFits, Typed, TypeOK, TrackTypes
    <3> QED
      BY <3>1, <3>2
  <2>8. \A t \in Tracks \ {c} : /\ lock'[t] = lock[t]
                                /\ locoBaseDelayed'[t] = locoBaseDelayed[t]
                                /\ trackState'[t] = trackState[t]
    BY <2>3, <2>4, <2>5, <2>6 DEF Typed, TypeOK, TrackTypes
  <2> QED
    BY <2>7, <2>8 DEF DelayedFits
<1>4. ASSUME NEW m \in Locos, Automode(m) PROVE DelayedFits'
  <2>1. CASE Reserve(m)
    <3> DEFINE n == NextTrack(from[m])
    <3>1. n \in Tracks
      BY NextIsTrack DEF Typed, TypeOK, TrainTypes
    <3>2. lock'[n].owner = m /\ locoBaseDelayed'[n] = m
      BY <2>1, <3>1 DEF Reserve, Reserved, Typed, TypeOK, TrackTypes
    <3>3. \A t \in Tracks \ {n} : /\ lock'[t] = lock[t]
                                  /\ locoBaseDelayed'[t] = locoBaseDelayed[t]
      BY <2>1 DEF Reserve, Typed, TypeOK, TrackTypes
    <3>4. trackState' = trackState
      BY <2>1 DEF Reserve
    <3> QED
      BY <3>2, <3>3, <3>4 DEF DelayedFits
  <2>2. CASE Execute(m)
    <3>1. \A t \in Tracks : lock'[t].owner = lock[t].owner
      BY <2>2 DEF Execute, Locked, Typed, TypeOK, TrackTypes, Locks
    <3> QED
      BY <2>2, <3>1 DEF Execute, DelayedFits
  <2>3. CASE Refuse(m)
    <3>1. searching[m] \in Tracks
      BY <2>3 DEF Refuse, Typed, TypeOK, TrainTypes, TrackOrNone
    <3> QED
      BY <2>3, <3>1, ReleaseKeepsFit DEF Refuse
  <2>4. CASE ReleaseTrack(m)
    <3>1. dropped[m] \in Tracks
      BY <2>4 DEF ReleaseTrack, Typed, TypeOK, TrainTypes, TrackOrNone
    <3> QED
      BY <2>4, <3>1, ReleaseKeepsFit DEF ReleaseTrack
  <2>5. CASE Depart(m) \/ StopReached(m)
    BY <1>1, <2>5 DEF Depart, StopReached, trackVars
  <2> QED
    BY <1>4, <2>1, <2>2, <2>3, <2>4, <2>5 DEF Automode
<1>5. Layout \/ SetState \/ (\E f \in Feedbacks : Debounce(f)) \/ PowerOn
      \/ (\E t \in Tracks : Unblock(t)) \/ UNCHANGED vars => UNCHANGED trackOwners
  BY DEF Layout, SetState, Debounce, PowerOn, Unblock, vars, trackVars
<1> QED
  BY <1>1, <1>2, <1>3, <1>4, <1>5 DEF Next

\* The trains are placed on tracks reserved for them.
LEMMA FitInit == Init => DelayedFits
  BY DEF Init, DelayedFits, FreeLock

(***************************************************************************)
(* The delayed owner of a track is the owner of its lock, and outlasts it    *)
(* only while the track is occupied (DelayedFits): what Track::Reserve,      *)
(* Track::Release and the two branches of a report keep up together.         *)
(***************************************************************************)
THEOREM DelayedOwnersFit == Spec => []DelayedFits
  BY TypedInit, TypedNext, FitInit, FitKept, PTL DEF Spec

(***************************************************************************)
(* The track ahead of a locomotive: its destination, or the track whose      *)
(* route it has executed inside the search.                                  *)
(***************************************************************************)
AheadHeld ==
  \A l \in Locos :
    /\ first[l] # None => lock[first[l]].owner = l
    /\ executed[l] => lock[searching[l]].owner = l

\* What one locomotive releases leaves the locks of the others alone.
LEMMA ReleaseOwnOnly ==
  ASSUME Typed, NEW l \in Locos, NEW d \in Tracks, Release(d, l),
         NEW t \in Tracks, lock[t].owner # l \/ t # d
  PROVE  lock'[t] = lock[t]
<1>1. l # None
  BY NoneIsNoLoco
<1> QED
  BY <1>1 DEF Release, Released, CanRelease, Typed, TypeOK, TrackTypes

LEMMA AheadKept == Typed /\ AheadHeld /\ [Next]_vars => AheadHeld'
<1> SUFFICES ASSUME Typed, AheadHeld, [Next]_vars, NEW l \in Locos
             PROVE  /\ first'[l] # None => lock'[first'[l]].owner = l
                    /\ executed'[l] => lock'[searching'[l]].owner = l
  BY DEF AheadHeld
<1> USE NoneIsNoLoco
<1>0. /\ first[l] # None => first[l] \in Tracks /\ lock[first[l]].owner = l
      /\ executed[l] => searching[l] \in Tracks /\ lock[searching[l]].owner = l
      /\ Orderly(l)
  BY DEF AheadHeld, Typed, TypeOK, TrainTypes, TrackOrNone, Orderly
<1>1. CASE UNCHANGED <<lock, first, searching, executed>>
  BY <1>0, <1>1
<1>2. CASE Clear
  <2> DEFINE c == TrackOf[clearing]
             o == lock[c].owner
  <2>1. c \in Tracks
    BY <1>2, LayoutTypes DEF Clear, Typed, TypeOK, FeedbackTypes
  <2>2. UNCHANGED <<first, searching, executed>>
    BY <1>2 DEF Clear, trainVars
  <2>3. \/ lock' = lock
        \/ /\ lock' = [lock EXCEPT ![c] = Released(@, o)]
           /\ o # None /\ MayFree(o, c) /\ MutexFree(o)
    BY <1>2 DEF Clear
  <2>4. CASE lock' = lock
    BY <1>0, <2>2, <2>4
  <2>5. CASE /\ lock' = [lock EXCEPT ![c] = Released(@, o)]
             /\ o # None /\ MayFree(o, c) /\ MutexFree(o)
    <3>1. \A t \in Tracks : t # c => lock'[t] = lock[t]
      BY <2>5 DEF Typed, TypeOK, TrackTypes
    <3>2. first[l] # None => first[l] # c
      BY <1>0, <2>5 DEF MayFree
    <3>3. executed[l] => searching[l] # c
      BY <1>0, <2>5 DEF MutexFree, Orderly
    <3> QED
      BY <1>0, <2>2, <3>1, <3>2, <3>3
  <2> QED
    BY <2>3, <2>4, <2>5
<1>3. ASSUME NEW m \in Locos, Automode(m)
      PROVE  /\ first'[l] # None => lock'[first'[l]].owner = l
             /\ executed'[l] => lock'[searching'[l]].owner = l
  <2>0. /\ Orderly(m)
        /\ searching[m] # None => searching[m] \in Tracks
        /\ dropped[m] # None => dropped[m] \in Tracks
    BY DEF Typed, TypeOK, TrainTypes, TrackOrNone
  <2>1. CASE Reserve(m)
    <3> DEFINE n == NextTrack(from[m])
    <3>1. /\ first' = first /\ executed' = executed
          /\ l # m => searching'[l] = searching[l]
      BY <2>1 DEF Reserve, Typed, TypeOK, TrainTypes
    <3>2. ~executed[m]
      BY <2>0, <2>1 DEF Reserve, Orderly
    <3>3. \A t \in Tracks : lock[t].owner \in Locos => lock'[t].owner = lock[t].owner
      BY <2>1, NextIsTrack
         DEF Reserve, CanReserveTrack, CanReserve, InUse, Reserved, Typed, TypeOK,
             TrackTypes, TrainTypes
    <3> QED
      BY <1>0, <3>1, <3>2, <3>3
  <2>2. CASE Execute(m)
    <3>1. \A t \in Tracks : lock'[t].owner = lock[t].owner
      BY <2>2 DEF Execute, Locked, Typed, TypeOK, TrackTypes, Locks
    <3>2. first' = first /\ searching' = searching
      BY <2>2 DEF Execute
    <3>3. l # m => executed'[l] = executed[l]
      BY <2>2 DEF Execute, Typed, TypeOK, TrainTypes
    <3>4. searching[m] \in Tracks /\ lock[searching[m]].owner = m
      BY <2>0, <2>2 DEF Execute, CanLock
    <3> QED
      BY <1>0, <3>1, <3>2, <3>3, <3>4
  <2>3. CASE Depart(m)
    <3>1. lock' = lock
      BY <2>3 DEF Depart, trackVars
    <3>2. l # m => /\ first'[l] = first[l] /\ executed'[l] = executed[l]
                   /\ searching'[l] = searching[l]
      BY <2>3 DEF Depart, Typed, TypeOK, TrainTypes
    <3>3. l = m => first'[l] = searching[l] /\ ~executed'[l] /\ executed[l]
      BY <2>3 DEF Depart, Typed, TypeOK, TrainTypes
    <3> QED
      BY <1>0, <3>1, <3>2, <3>3
  <2>4. CASE Refuse(m)
    <3>1. searching[m] \in Tracks /\ Release(searching[m], m)
      BY <2>0, <2>4 DEF Refuse
    <3>2. /\ first' = first /\ executed' = executed
          /\ l # m => searching'[l] = searching[l]
      BY <2>4 DEF Refuse, Typed, TypeOK, TrainTypes
    <3>3. l = m => first[l] = None /\ ~executed[l]
      BY <2>0, <2>4 DEF Refuse, Orderly
    <3>4. \A t \in Tracks : l # m /\ lock[t].owner = l => lock'[t] = lock[t]
      BY <3>1, ReleaseOwnOnly
    <3> QED
      BY <1>0, <3>2, <3>3, <3>4
  <2>5. CASE StopReached(m)
    <3>1. /\ lock' = lock /\ searching' = searching /\ executed' = executed
          /\ first'[l] # None => first'[l] = first[l]
      BY <2>5 DEF StopReached, trackVars, Typed, TypeOK, TrainTypes
    <3> QED
      BY <1>0, <3>1
  <2>6. CASE ReleaseTrack(m)
    <3>1. dropped[m] \in Tracks /\ Release(dropped[m], m)
      BY <2>0, <2>6 DEF ReleaseTrack
    <3>2. first' = first /\ searching' = searching /\ executed' = executed
      BY <2>6 DEF ReleaseTrack
    <3>3. l = m => first[l] = None /\ ~executed[l]
      BY <2>0, <2>6 DEF ReleaseTrack, Orderly
    <3>4. \A t \in Tracks : l # m /\ lock[t].owner = l => lock'[t] = lock[t]
      BY <3>1, ReleaseOwnOnly
    <3> QED
      BY <1>0, <3>2, <3>3, <3>4
  <2> QED
    BY <1>3, <2>1, <2>2, <2>3, <2>4, <2>5, <2>6 DEF Automode
<1>4. Layout \/ SetState \/ Occupy \/ (\E f \in Feedbacks : Debounce(f)) \/ PowerOn
      \/ (\E t \in Tracks : Unblock(t)) \/ UNCHANGED vars
      => UNCHANGED <<lock, first, searching, executed>>
  BY DEF Layout, SetState, Occupy, Debounce, PowerOn, Unblock, vars, trackVars, trainVars
<1> QED
  BY <1>1, <1>2, <1>3, <1>4 DEF Next

LEMMA AheadInit == Init => AheadHeld
  BY DEF Init, AheadHeld

(***************************************************************************)
(* The destination of a train stays locked for it (DestinationHeld): no      *)
(* report from the track, no release of another train and no search takes it *)
(* away, because a report that may free a track asks, under the stateMutex,  *)
(* what the locomotive still needs (LocoBase::CheckFreeingTrack).            *)
(***************************************************************************)
THEOREM DestinationsHeld == Spec => []DestinationHeld
<1>1. AheadHeld => DestinationHeld
  BY DEF AheadHeld, DestinationHeld
<1> QED
  BY <1>1, TypedInit, TypedNext, AheadInit, AheadKept, PTL DEF Spec

(***************************************************************************)
(* Stretches of the circle.                                                  *)
(***************************************************************************)
LEMMA BeyondIs ==
  ASSUME NEW f \in Feedbacks
  PROVE  Beyond(f) = IF f = N - 1 THEN 0 ELSE f + 1
<1>1. N \in Nat \ {0} /\ f \in 0 .. N - 1
  BY LayoutTypes DEF Feedbacks
<1>2. CASE f = N - 1
  BY <1>1, <1>2 DEF Beyond
<1>3. CASE f # N - 1
  BY <1>1, <1>3 DEF Beyond
<1> QED
  BY <1>2, <1>3

LEMMA StretchEnds ==
  ASSUME NEW a \in Feedbacks, NEW b \in Feedbacks
  PROVE  /\ Stretch(a, b) \subseteq Feedbacks
         /\ a \in Stretch(a, b) /\ b \in Stretch(a, b)
         /\ Stretch(a, a) = {a}
  BY LayoutTypes DEF Feedbacks, Stretch

LEMMA StretchGrows ==
  ASSUME NEW a \in Feedbacks, NEW b \in Feedbacks, Beyond(b) \notin Stretch(a, b)
  PROVE  Stretch(a, Beyond(b)) = Stretch(a, b) \cup {Beyond(b)}
<1> DEFINE c == Beyond(b)
<1>1. c \in Feedbacks /\ c = IF b = N - 1 THEN 0 ELSE b + 1
  BY BeyondIs, BeyondIsContact
<1>2. ASSUME NEW f \in Feedbacks
      PROVE  f \in Stretch(a, c) <=> f \in Stretch(a, b) \/ f = c
  <2> HIDE DEF c
  <2>1. CASE b = N - 1
    BY <1>1, <2>1, LayoutTypes DEF Feedbacks, Stretch, c
  <2>2. CASE b # N - 1
    BY <1>1, <2>2, LayoutTypes DEF Feedbacks, Stretch, c
  <2> QED
    BY <2>1, <2>2
<1>3. Stretch(a, c) \subseteq Feedbacks /\ Stretch(a, b) \subseteq Feedbacks
  BY <1>1, StretchEnds
<1> QED
  BY <1>1, <1>2, <1>3

LEMMA StretchShrinks ==
  ASSUME NEW a \in Feedbacks, NEW b \in Feedbacks, a # b
  PROVE  Stretch(Beyond(a), b) = Stretch(a, b) \ {a}
<1>1. \A f : f \in Stretch(Beyond(a), b) <=> f \in Stretch(a, b) /\ f # a
  BY BeyondIs, LayoutTypes DEF Feedbacks, Stretch
<1> QED
  BY <1>1

LEMMA StretchInner ==
  ASSUME NEW a \in Feedbacks, NEW b \in Feedbacks,
         NEW f \in Stretch(a, b), f # b
  PROVE  Beyond(f) \in Stretch(a, b)
<1>1. f \in Feedbacks
  BY StretchEnds
<1> QED
  BY <1>1, BeyondIs, LayoutTypes DEF Feedbacks, Stretch

\* A stretch that leaves another one at its end and meets it again ends in it.
LEMMA StretchReturns ==
  ASSUME NEW a \in Feedbacks, NEW b \in Feedbacks, NEW c \in Feedbacks,
         NEW f \in Stretch(a, b), f \in Stretch(b, c), f # b
  PROVE  c \in Stretch(a, b)
<1>1. f \in Feedbacks
  BY StretchEnds
<1> QED
  BY <1>1, LayoutTypes DEF Feedbacks, Stretch

(***************************************************************************)
(* Within a track the next contact is in the track, except after the stop    *)
(* feedback; the track after that is another one, and not the one before.    *)
(***************************************************************************)
LEMMA StopLeaves ==
  ASSUME NEW t \in Tracks
  PROVE  /\ StopFeedback(t) \in Feedbacks
         /\ TrackOf[StopFeedback(t)] = t
         /\ NextTrack(t) \in Tracks
         /\ NextTrack(t) # t
         /\ NextTrack(NextTrack(t)) # t
<1>1. TrackOf[Beyond(StopFeedback(t))] # t
  BY TracksEnd DEF StopFeedback
<1>2. NextTrack(NextTrack(t)) # t
  BY CircleIsWide
<1> QED
  BY <1>1, <1>2, StopInTrack, NextIsTrack DEF FeedbacksOf, NextTrack

LEMMA OnlyStopLeaves ==
  ASSUME NEW f \in Feedbacks, f # StopFeedback(TrackOf[f])
  PROVE  TrackOf[Beyond(f)] = TrackOf[f]
<1> DEFINE t == TrackOf[f]
           s == StopFeedback(t)
<1>1. t \in Tracks /\ f \in FeedbacksOf(t) /\ s \in Feedbacks
  BY LayoutTypes, StopLeaves DEF FeedbacksOf
<1>2. PICK a \in Feedbacks : FeedbacksOf(t) = Stretch(a, s)
  BY <1>1, TracksAreStretches
<1>3. Beyond(f) \in FeedbacksOf(t)
  BY <1>1, <1>2, StretchInner
<1> QED
  BY <1>3 DEF FeedbacksOf

(***************************************************************************)
(* What the program knows of a contact.  A contact under a vehicle is either *)
(* counted or its report is under way, and a contact that closes is counted  *)
(* to the full as soon as its last report has been taken.                    *)
(***************************************************************************)
Present(f) == f = wagon \/ \E l \in Locos : f \in Body(l)

Coming(w, f) == \E i \in DOMAIN w : w[i] = [feedback |-> f, state |-> TRUE]

\* Whatever is under way about f ends with its being closed.
EndsClosed(w, f) ==
  \A i \in DOMAIN w : w[i] = [feedback |-> f, state |-> FALSE] =>
    \E j \in DOMAIN w : i < j /\ w[j] = [feedback |-> f, state |-> TRUE]

Sensed(f) ==
  /\ gap[f] => Present(f)
  /\ Present(f) => stateCounter[f] > 0 \/ Coming(wire, f)
  /\ Contact(f) => /\ EndsClosed(wire, f)
                   /\ stateCounter[f] = MaxStateCounter \/ Coming(wire, f)

SensorInvariant ==
  /\ wagon \in Spots \cup {Nowhere}
  /\ \A f \in Feedbacks : Sensed(f)

LEMMA AppendedReport ==
  ASSUME NEW w \in Seq(Reports), NEW r \in Reports, NEW f \in Feedbacks
  PROVE  LET v == Append(w, r) IN
         /\ Coming(w, f) => Coming(v, f)
         /\ Coming(v, f) => Coming(w, f) \/ r = [feedback |-> f, state |-> TRUE]
         /\ r = [feedback |-> f, state |-> TRUE] => Coming(v, f) /\ EndsClosed(v, f)
         /\ r # [feedback |-> f, state |-> FALSE] /\ EndsClosed(w, f) => EndsClosed(v, f)
<1> DEFINE v == Append(w, r)
           n == Len(w)
<1>1. /\ n \in Nat /\ DOMAIN w = 1 .. n /\ DOMAIN v = 1 .. n + 1
      /\ v[n + 1] = r
      /\ \A i \in DOMAIN w : v[i] = w[i]
  OBVIOUS
<1> HIDE DEF v, n
<1>2. \A i \in DOMAIN v : i \in DOMAIN w \/ i = n + 1
  BY <1>1
<1>3. n + 1 \in DOMAIN v /\ (\A i \in DOMAIN w : i \in DOMAIN v /\ i < n + 1)
  BY <1>1
<1>4. /\ Coming(w, f) => Coming(v, f)
      /\ Coming(v, f) => Coming(w, f) \/ r = [feedback |-> f, state |-> TRUE]
  BY <1>1, <1>2, <1>3 DEF Coming
<1>5. r # [feedback |-> f, state |-> FALSE] /\ EndsClosed(w, f) => EndsClosed(v, f)
  BY <1>1, <1>2, <1>3 DEF EndsClosed
<1>6. ASSUME r = [feedback |-> f, state |-> TRUE]
      PROVE  Coming(v, f) /\ EndsClosed(v, f)
  <2>1. Coming(v, f)
    BY <1>1, <1>3, <1>6 DEF Coming
  <2>2. SUFFICES ASSUME NEW i \in DOMAIN v,
                        v[i] = [feedback |-> f, state |-> FALSE]
                 PROVE  \E j \in DOMAIN v : i < j /\ v[j] = [feedback |-> f, state |-> TRUE]
    BY <2>1 DEF EndsClosed
  <2>3. [feedback |-> f, state |-> TRUE] # [feedback |-> f, state |-> FALSE]
    OBVIOUS
  <2>4. i # n + 1
    BY <1>1, <1>6, <2>2, <2>3
  <2> QED
    BY <1>1, <1>2, <1>3, <1>6, <2>4
<1> QED
  BY <1>4, <1>5, <1>6 DEF v

LEMMA TakenReport ==
  ASSUME NEW w \in Seq(Reports), w # <<>>, NEW f \in Feedbacks
  PROVE  /\ Coming(Tail(w), f) => Coming(w, f)
         /\ Coming(w, f) /\ ~Coming(Tail(w), f)
              => Head(w) = [feedback |-> f, state |-> TRUE]
         /\ EndsClosed(w, f) => EndsClosed(Tail(w), f)
         /\ EndsClosed(w, f) /\ Head(w) = [feedback |-> f, state |-> FALSE]
              => Coming(Tail(w), f)
<1> DEFINE v == Tail(w)
           n == Len(v)
<1>1. /\ n \in Nat /\ DOMAIN v = 1 .. n /\ DOMAIN w = 1 .. n + 1
      /\ Head(w) = w[1]
      /\ \A i \in 1 .. n : v[i] = w[i + 1]
  OBVIOUS
<1> HIDE DEF v, n
<1>2. \A i \in DOMAIN w : i = 1 \/ (i - 1 \in DOMAIN v /\ v[i - 1] = w[i])
  <2>1. SUFFICES ASSUME NEW i \in 1 .. n + 1, i # 1
                 PROVE  i - 1 \in 1 .. n /\ v[i - 1] = w[i]
    BY <1>1
  <2>2. i - 1 \in 1 .. n /\ (i - 1) + 1 = i
    BY <1>1, <2>1
  <2> QED
    BY <1>1, <2>2
<1>3. \A i \in DOMAIN v : i \in Nat /\ i + 1 \in DOMAIN w /\ w[i + 1] = v[i]
  BY <1>1
<1>4. Coming(v, f) => Coming(w, f)
  BY <1>3 DEF Coming
<1>5. Coming(w, f) /\ ~Coming(v, f) => Head(w) = [feedback |-> f, state |-> TRUE]
  BY <1>1, <1>2 DEF Coming
<1>6. ASSUME EndsClosed(w, f) PROVE EndsClosed(v, f)
  <2>1. SUFFICES ASSUME NEW i \in DOMAIN v,
                        v[i] = [feedback |-> f, state |-> FALSE]
                 PROVE  \E j \in DOMAIN v : i < j /\ v[j] = [feedback |-> f, state |-> TRUE]
    BY DEF EndsClosed
  <2>2. PICK k \in DOMAIN w : i + 1 < k /\ w[k] = [feedback |-> f, state |-> TRUE]
    BY <1>3, <1>6, <2>1 DEF EndsClosed
  <2>3. k \in Nat /\ i \in Nat
    BY <1>1, <1>3
  <2>4. k # 1 /\ i < k - 1
    BY <2>2, <2>3
  <2>5. k - 1 \in DOMAIN v /\ v[k - 1] = w[k]
    BY <1>2, <2>4
  <2> QED
    BY <2>2, <2>4, <2>5
<1>7. ASSUME EndsClosed(w, f), Head(w) = [feedback |-> f, state |-> FALSE]
      PROVE  Coming(v, f)
  <2>1. 1 \in DOMAIN w
    BY <1>1
  <2>2. PICK k \in DOMAIN w : 1 < k /\ w[k] = [feedback |-> f, state |-> TRUE]
    BY <1>1, <1>7, <2>1 DEF EndsClosed
  <2>3. k # 1
    BY <1>1, <2>2
  <2>4. k - 1 \in DOMAIN v /\ v[k - 1] = w[k]
    BY <1>2, <2>3
  <2> QED
    BY <2>2, <2>4 DEF Coming
<1> QED
  BY <1>4, <1>5, <1>6, <1>7 DEF v

(***************************************************************************)
(* One change of the layout concerns one contact: what lies on the others    *)
(* stays, and the contact is not left failing with nothing on it.            *)
(***************************************************************************)
LEMMA BodyOnCircle ==
  ASSUME Typed, NEW l \in Locos
  PROVE  /\ front[l] \in Feedbacks /\ tail[l] \in Feedbacks
         /\ Body(l) \subseteq Feedbacks
         /\ front[l] \in Body(l) /\ tail[l] \in Body(l)
  BY StretchEnds DEF Body, Typed, TypeOK, LayoutInvariant

LEMMA FrontMoves ==
  ASSUME Typed, NEW l \in Locos, NEW f \in Feedbacks, MoveFront(l, f)
  PROVE  /\ Body(l)' = Body(l) \cup {f}
         /\ \A m \in Locos \ {l} : Body(m)' = Body(m) /\ front'[m] = front[m]
         /\ front'[l] = f
<1>1. /\ f = Beyond(front[l]) /\ f \notin Body(l)
      /\ front' = [front EXCEPT ![l] = f] /\ tail' = tail
      /\ front \in [Locos -> Feedbacks] /\ tail \in [Locos -> Feedbacks]
  BY DEF MoveFront, Typed, TypeOK, LayoutInvariant
<1>2. Stretch(tail[l], f) = Stretch(tail[l], front[l]) \cup {f}
  BY <1>1, StretchGrows DEF Body
<1>3. front'[l] = f /\ \A m \in Locos \ {l} : front'[m] = front[m]
  BY <1>1
<1> QED
  BY <1>1, <1>2, <1>3 DEF Body

LEMMA TailMoves ==
  ASSUME Typed, NEW l \in Locos, NEW f \in Feedbacks, MoveTail(l, f)
  PROVE  /\ Body(l)' = Body(l) \ {f}
         /\ \A m \in Locos \ {l} : Body(m)' = Body(m)
         /\ front' = front
<1>1. /\ f = tail[l] /\ front[l] # f
      /\ front' = front /\ tail' = [tail EXCEPT ![l] = Beyond(f)]
      /\ front \in [Locos -> Feedbacks] /\ tail \in [Locos -> Feedbacks]
  BY DEF MoveTail, Typed, TypeOK, LayoutInvariant
<1>2. Stretch(Beyond(f), front[l]) = Stretch(tail[l], front[l]) \ {f}
  BY <1>1, StretchShrinks
<1>3. tail'[l] = Beyond(f) /\ \A m \in Locos \ {l} : tail'[m] = tail[m]
  BY <1>1
<1> QED
  BY <1>1, <1>2, <1>3 DEF Body

\* What the layout does at contact f.
At(f) ==
  \/ \E l \in Locos : MoveFront(l, f) \/ MoveTail(l, f)
  \/ LoseContact(f) \/ RegainContact(f) \/ PutWagon(f) \/ TakeWagon(f)

LEMMA LayoutAtContact ==
  ASSUME Typed, NEW f \in Feedbacks, At(f), Sensed(f)
  PROVE  /\ Report(f)
         /\ \A g \in Feedbacks \ {f} : /\ gap'[g] = gap[g]
                                       /\ Present(g)' <=> Present(g)
         /\ gap'[f] => Present(f)'
         /\ Present(f)' => Present(f) \/ ~gap'[f]
<1>0. /\ gap \in [Feedbacks -> BOOLEAN]
      /\ gap[f] => Present(f)
      /\ Nowhere \notin Feedbacks
  BY NowhereIsNoContact DEF Typed, TypeOK, LayoutInvariant, Sensed
<1>1. ASSUME NEW l \in Locos, MoveFront(l, f)
      PROVE  /\ Report(f) /\ gap' = gap /\ Present(f)'
             /\ \A g \in Feedbacks \ {f} : Present(g)' <=> Present(g)
  <2>1. Report(f) /\ gap' = gap /\ wagon' = wagon
    BY <1>1 DEF MoveFront
  <2>2. f \in Body(l)'
    BY <1>1, FrontMoves
  <2>3. \A g \in Feedbacks \ {f}, m \in Locos : g \in Body(m)' <=> g \in Body(m)
    BY <1>1, FrontMoves
  <2> QED
    BY <2>1, <2>2, <2>3 DEF Present
<1>2. ASSUME NEW l \in Locos, MoveTail(l, f)
      PROVE  /\ Report(f) /\ gap' = [gap EXCEPT ![f] = FALSE]
             /\ \A g \in Feedbacks \ {f} : Present(g)' <=> Present(g)
  <2>1. Report(f) /\ gap' = [gap EXCEPT ![f] = FALSE] /\ wagon' = wagon
    BY <1>2 DEF MoveTail
  <2>2. \A g \in Feedbacks \ {f}, m \in Locos : g \in Body(m)' <=> g \in Body(m)
    BY <1>2, TailMoves
  <2> QED
    BY <2>1, <2>2 DEF Present
<1>3. LoseContact(f) => /\ Report(f) /\ gap' = [gap EXCEPT ![f] = TRUE]
                        /\ Present(f)
                        /\ \A g \in Feedbacks : Present(g)' <=> Present(g)
  BY DEF LoseContact, Contact, Present, Body
<1>4. RegainContact(f) => /\ Report(f) /\ gap' = [gap EXCEPT ![f] = FALSE]
                          /\ \A g \in Feedbacks : Present(g)' <=> Present(g)
  BY DEF RegainContact, Present, Body
<1>5. PutWagon(f) => /\ Report(f) /\ gap' = gap /\ Present(f)'
                     /\ \A g \in Feedbacks \ {f} : Present(g)' <=> Present(g)
  BY <1>0 DEF PutWagon, Present, Body
<1>6. TakeWagon(f) => /\ Report(f) /\ gap' = [gap EXCEPT ![f] = FALSE]
                      /\ \A g \in Feedbacks \ {f} : Present(g)' <=> Present(g)
  BY <1>0 DEF TakeWagon, Present, Body
<1>7. ASSUME gap' = gap, Present(f)',
             \A g \in Feedbacks \ {f} : Present(g)' <=> Present(g)
      PROVE  /\ \A g \in Feedbacks \ {f} : gap'[g] = gap[g] /\ (Present(g)' <=> Present(g))
             /\ gap'[f] => Present(f)'
             /\ Present(f)' => Present(f) \/ ~gap'[f]
  BY <1>0, <1>7
<1>8. ASSUME gap' = [gap EXCEPT ![f] = FALSE],
             \A g \in Feedbacks \ {f} : Present(g)' <=> Present(g)
      PROVE  /\ \A g \in Feedbacks \ {f} : gap'[g] = gap[g] /\ (Present(g)' <=> Present(g))
             /\ ~gap'[f]
  BY <1>0, <1>8
<1>9. ASSUME gap' = [gap EXCEPT ![f] = TRUE], Present(f),
             \A g \in Feedbacks : Present(g)' <=> Present(g)
      PROVE  /\ \A g \in Feedbacks \ {f} : gap'[g] = gap[g] /\ (Present(g)' <=> Present(g))
             /\ Present(f)' /\ Present(f)
  BY <1>0, <1>9
<1> QED
  BY <1>1, <1>2, <1>3, <1>4, <1>5, <1>6, <1>7, <1>8, <1>9 DEF At

\* Outside the layout neither bodies nor gaps change.
LEMMA LayoutStays ==
  ASSUME UNCHANGED layoutVars
  PROVE  /\ \A l \in Locos : Body(l)' = Body(l)
         /\ \A f \in Feedbacks : /\ Present(f)' <=> Present(f)
                                 /\ Contact(f)' <=> Contact(f)
  BY DEF layoutVars, Body, Present, Contact

LEMMA ContactIs ==
  ASSUME NEW f \in Feedbacks
  PROVE  Contact(f) <=> ~gap[f] /\ Present(f)
  BY DEF Contact, Present

LEMMA ReportOutcome ==
  ASSUME Typed, NEW f \in Feedbacks, Report(f), NEW g \in Feedbacks
  PROVE  /\ Coming(wire, g) => Coming(wire', g)
         /\ Coming(wire', g) => Coming(wire, g) \/ (g = f /\ Contact(f)')
         /\ g # f /\ EndsClosed(wire, g) => EndsClosed(wire', g)
         /\ Contact(f)' /\ ~Contact(f) => Coming(wire', f) /\ EndsClosed(wire', f)
         /\ Contact(f)' /\ Contact(f) => wire' = wire
<1> DEFINE b == Contact(f)'
<1>1. b \in BOOLEAN /\ Contact(f) \in BOOLEAN
  BY DEF Contact
<1>2. wire' = IF b = Contact(f) THEN wire
              ELSE Append(wire, [feedback |-> f, state |-> b])
  BY DEF Report
<1>3. wire \in Seq(Reports)
  BY DEF Typed, TypeOK, LayoutInvariant
<1> HIDE DEF b
<1>4. CASE wire' = wire
  <2>1. b /\ ~Contact(f) => FALSE
    <3>1. SUFFICES ASSUME b # Contact(f) PROVE FALSE
      BY <1>1
    <3>2. wire = Append(wire, [feedback |-> f, state |-> b])
      BY <1>2, <1>4, <3>1
    <3>3. Len(Append(wire, [feedback |-> f, state |-> b])) = Len(wire) + 1
      BY <1>3
    <3>4. Len(wire) \in Nat
      BY <1>3
    <3> QED
      BY <3>2, <3>3, <3>4
  <2> QED
    BY <1>4, <2>1 DEF b
<1>5. CASE b # Contact(f) /\ wire' = Append(wire, [feedback |-> f, state |-> b])
  <2> DEFINE r == [feedback |-> f, state |-> b]
  <2>1. r \in Reports
    BY <1>1 DEF Reports
  <2>2. wire' = Append(wire, r)
    BY <1>5
  <2> HIDE DEF r
  <2>3. \A h \in Feedbacks :
          /\ Coming(wire, h) => Coming(wire', h)
          /\ Coming(wire', h) => Coming(wire, h) \/ r = [feedback |-> h, state |-> TRUE]
          /\ r = [feedback |-> h, state |-> TRUE] => Coming(wire', h) /\ EndsClosed(wire', h)
          /\ r # [feedback |-> h, state |-> FALSE] /\ EndsClosed(wire, h)
               => EndsClosed(wire', h)
    BY <1>3, <2>1, <2>2, AppendedReport
  <2>4. b => ~Contact(f)
    BY <1>1, <1>5
  <2>5. /\ Coming(wire, g) => Coming(wire', g)
        /\ Coming(wire', g) => Coming(wire, g) \/ (g = f /\ b)
        /\ g # f /\ EndsClosed(wire, g) => EndsClosed(wire', g)
        /\ b => Coming(wire', f) /\ EndsClosed(wire', f)
    <3>1. r = [feedback |-> g, state |-> TRUE] => g = f /\ b
      BY DEF r
    <3>2. r = [feedback |-> g, state |-> FALSE] => g = f
      BY DEF r
    <3>3. b => r = [feedback |-> f, state |-> TRUE]
      BY <1>1 DEF r
    <3> QED
      BY <2>3, <3>1, <3>2, <3>3, Zenon
  <2> QED
    BY <2>4, <2>5 DEF b
<1> QED
  BY <1>2, <1>4, <1>5

LEMMA LayoutSensed ==
  ASSUME Typed, SensorInvariant, Layout
  PROVE  SensorInvariant'
<1>1. PICK f \in Feedbacks : At(f)
  BY DEF Layout, At
<1>2. /\ Report(f)
      /\ \A g \in Feedbacks \ {f} : /\ gap'[g] = gap[g]
                                    /\ Present(g)' <=> Present(g)
      /\ gap'[f] => Present(f)'
      /\ Present(f)' => Present(f) \/ ~gap'[f]
  BY <1>1, LayoutAtContact DEF SensorInvariant
<1>3. wagon' \in Spots \cup {Nowhere}
  BY <1>1 DEF At, MoveFront, MoveTail, LoseContact, RegainContact, PutWagon, TakeWagon,
              SensorInvariant
<1>4. wire \in Seq(Reports) /\ stateCounter' = stateCounter
  BY DEF Layout, Typed, TypeOK, LayoutInvariant
<1>5. \A g \in Feedbacks : (Contact(g)' <=> ~gap'[g] /\ Present(g)') 
  BY DEF Contact, Present
<1>6. ASSUME NEW g \in Feedbacks \ {f} PROVE Sensed(g)'
  <2>1. /\ Coming(wire', g) <=> Coming(wire, g)
        /\ EndsClosed(wire, g) => EndsClosed(wire', g)
    BY <1>2, ReportOutcome
  <2>2. Contact(g)' <=> Contact(g)
    BY <1>2, <1>5, ContactIs
  <2> QED
    BY <1>2, <1>4, <2>1, <2>2 DEF SensorInvariant, Sensed
<1>7. Sensed(f)'
  <2>1. Coming(wire, f) => Coming(wire', f)
    BY <1>2, ReportOutcome
  <2>2. Contact(f)' /\ ~Contact(f) => Coming(wire', f) /\ EndsClosed(wire', f)
    BY <1>2, ReportOutcome
  <2>3. Contact(f)' /\ Contact(f) => wire' = wire
    BY <1>2, ReportOutcome
  <2>4. gap'[f] => Present(f)'
    BY <1>2
  <2>5. Present(f)' => stateCounter'[f] > 0 \/ Coming(wire', f)
    BY <1>2, <1>4, <1>5, <2>1, <2>2, ContactIs DEF SensorInvariant, Sensed
  <2>6. Contact(f)' => /\ EndsClosed(wire', f)
                       /\ stateCounter'[f] = MaxStateCounter \/ Coming(wire', f)
    BY <1>4, <2>2, <2>3 DEF SensorInvariant, Sensed
  <2> QED
    BY <2>4, <2>5, <2>6 DEF Sensed
<1> QED
  BY <1>3, <1>6, <1>7 DEF SensorInvariant

(***************************************************************************)
(* The count of a contact under a vehicle never ends: InTime says that it is *)
(* closed and that its report has been taken, which sets the count again.    *)
(***************************************************************************)
LEMMA PresentNotCountedOut ==
  ASSUME Typed, SensorInvariant, NEW f \in Feedbacks, Debounce(f), stateCounter[f] = 1
  PROVE  ~Present(f) /\ ~Coming(wire, f)
<1>1. ~gap[f] /\ ~Coming(wire, f)
  BY DEF Debounce, InTime, Coming
<1>2. MaxStateCounter # 1
  BY LayoutTypes
<1> QED
  BY <1>1, <1>2, ContactIs DEF SensorInvariant, Sensed

LEMMA SensedKept == Typed /\ SensorInvariant /\ [Next]_vars => SensorInvariant'
<1> SUFFICES ASSUME Typed, SensorInvariant, [Next]_vars PROVE SensorInvariant'
  OBVIOUS
<1> USE LayoutTypes
<1>0. \A f \in Feedbacks : stateCounter[f] \in 0 .. MaxStateCounter
  BY DEF Typed, TypeOK, FeedbackTypes
<1>1. CASE Layout
  BY <1>1, LayoutSensed
<1>2. CASE SetState
  <2> DEFINE g == Head(wire).feedback
             b == Head(wire).state
  <2>1. /\ wire \in Seq(Reports) /\ wire # <<>> /\ wire' = Tail(wire)
        /\ UNCHANGED layoutVars
        /\ stateCounter' = [stateCounter EXCEPT ![g] = Counted(@, b)]
    BY <1>2 DEF SetState, Typed, TypeOK, LayoutInvariant
  <2>2. Head(wire) = [feedback |-> g, state |-> b] /\ g \in Feedbacks /\ b \in BOOLEAN
    <3>1. Head(wire) \in Reports
      BY <2>1
    <3> QED
      BY <3>1 DEF Reports
  <2>3. /\ stateCounter'[g] = Counted(stateCounter[g], b)
        /\ \A f \in Feedbacks \ {g} : stateCounter'[f] = stateCounter[f]
    BY <2>1, <2>2 DEF Typed, TypeOK, FeedbackTypes
  <2> HIDE DEF g, b
  <2>4. wagon' = wagon /\ gap' = gap
    BY <2>1 DEF layoutVars
  <2>5. ASSUME NEW f \in Feedbacks PROVE Sensed(f)'
    <3>1. gap[f] => Present(f)
      BY DEF SensorInvariant, Sensed
    <3>2. Present(f) => stateCounter[f] > 0 \/ Coming(wire, f)
      BY DEF SensorInvariant, Sensed
    <3>3. Contact(f) => /\ EndsClosed(wire, f)
                        /\ stateCounter[f] = MaxStateCounter \/ Coming(wire, f)
      BY DEF SensorInvariant, Sensed
    <3>4. EndsClosed(wire, f) => EndsClosed(wire', f)
      BY <2>1, TakenReport
    <3>5. (Present(f)' <=> Present(f)) /\ (Contact(f)' <=> Contact(f))
      BY <2>1, LayoutStays
    <3>6. Coming(wire, f) => Coming(wire', f) \/ (f = g /\ b)
      <4>1. [feedback |-> g, state |-> b] = [feedback |-> f, state |-> TRUE] => f = g /\ b
        OBVIOUS
      <4> QED
        BY <2>1, <2>2, <4>1, TakenReport
    <3>7. f = g /\ b => stateCounter'[f] = MaxStateCounter
      BY <2>3 DEF Counted
    <3>8. stateCounter[f] > 0 => stateCounter'[f] > 0
      BY <1>0, <2>2, <2>3 DEF Counted
    <3>9. f = g /\ ~b /\ EndsClosed(wire, f) => Coming(wire', f)
      BY <2>1, <2>2, TakenReport
    <3>10. ~(f = g /\ ~b) /\ stateCounter[f] = MaxStateCounter
             => stateCounter'[f] = MaxStateCounter
      BY <2>2, <2>3 DEF Counted
    <3>11. Present(f) => stateCounter'[f] > 0 \/ Coming(wire', f)
      BY <3>2, <3>6, <3>7, <3>8
    <3>12. Contact(f) => /\ EndsClosed(wire', f)
                         /\ stateCounter'[f] = MaxStateCounter \/ Coming(wire', f)
      BY <3>3, <3>4, <3>6, <3>7, <3>9, <3>10
    <3> QED
      BY <2>4, <3>1, <3>5, <3>11, <3>12 DEF Sensed
  <2> QED
    BY <2>4, <2>5 DEF SensorInvariant
<1>3. ASSUME NEW g \in Feedbacks, Debounce(g) PROVE SensorInvariant'
  <2>1. UNCHANGED layoutVars /\ wire' = wire
    BY <1>3 DEF Debounce
  <2>2. /\ stateCounter'[g] = stateCounter[g] - 1
        /\ stateCounter[g] # MaxStateCounter /\ stateCounter[g] # 0
        /\ \A f \in Feedbacks \ {g} : stateCounter'[f] = stateCounter[f]
    BY <1>3 DEF Debounce, Due, Typed, TypeOK, FeedbackTypes
  <2>3. wagon' = wagon /\ gap' = gap
    BY <2>1 DEF layoutVars
  <2>4. ASSUME NEW f \in Feedbacks PROVE Sensed(f)'
    <3>1. (Present(f)' <=> Present(f)) /\ (Contact(f)' <=> Contact(f))
      BY <2>1, LayoutStays
    <3>2. Sensed(f)
      BY DEF SensorInvariant
    <3>3. stateCounter[f] = MaxStateCounter => stateCounter'[f] = MaxStateCounter
      BY <2>2
    <3>4. stateCounter'[f] > 0 \/ ~Present(f) \/ Coming(wire, f)
      <4>1. CASE stateCounter[f] = 1 /\ f = g
        BY <1>3, <4>1, PresentNotCountedOut
      <4>2. CASE ~(stateCounter[f] = 1 /\ f = g)
        BY <1>0, <2>2, <3>2, <4>2 DEF Sensed
      <4> QED
        BY <4>1, <4>2
    <3> QED
      BY <2>1, <2>3, <3>1, <3>2, <3>3, <3>4 DEF Sensed
  <2> QED
    BY <2>3, <2>4 DEF SensorInvariant
<1>4. CASE UNCHANGED <<layoutVars, wire, stateCounter>>
  BY <1>4 DEF layoutVars, SensorInvariant, Sensed, Present, Contact, Body
<1>5. Occupy \/ Clear \/ (\E l \in Locos : Automode(l)) \/ (\E t \in Tracks : Unblock(t))
      \/ PowerOn \/ UNCHANGED vars => UNCHANGED <<layoutVars, wire, stateCounter>>
  BY DEF Occupy, Clear, Automode, Reserve, Execute, Depart, Refuse, StopReached,
         ReleaseTrack, Unblock, PowerOn, vars
<1> QED
  BY <1>1, <1>2, <1>3, <1>4, <1>5 DEF Next

(***************************************************************************)
(* Where a train is: it stands on the stop feedback of the track it came     *)
(* from or has its front in its destination, which is the next track.  What  *)
(* it has left of it elsewhere reaches over the stop feedback there.         *)
(***************************************************************************)
Course(l) ==
  /\ searching[l] # None => searching[l] = NextTrack(from[l])
  /\ first[l] # None => first[l] = NextTrack(from[l])
  /\ dropped[l] # None => NextTrack(dropped[l]) = from[l]
  /\ front[l] = StopFeedback(from[l]) \/ TrackOf[front[l]] = first[l]
  /\ \A f \in Body(l) : \/ TrackOf[f] = TrackOf[front[l]]
                        \/ StopFeedback(TrackOf[f]) \in Body(l)

\* It is told of its arrival on the stop feedback, and the track is occupied.
Arrival(l) ==
  told[l] => /\ front[l] = StopFeedback(first[l])
             /\ trackState[first[l]] = "Occupied"
             /\ stateCounter[StopFeedback(first[l])] > 0
             /\ reporting # StopFeedback(first[l])

LEMMA TrainTracks ==
  ASSUME Typed, NEW l \in Locos
  PROVE  /\ from[l] \in Tracks
         /\ first[l] # None => first[l] \in Tracks
         /\ searching[l] # None => searching[l] \in Tracks
         /\ dropped[l] # None => dropped[l] \in Tracks
         /\ None \notin Tracks
  BY LayoutTypes DEF Typed, TypeOK, TrainTypes, TrackOrNone

\* A front moves only into the destination, and not beyond its stop feedback.
LEMMA FrontIntoDestination ==
  ASSUME Typed, NEW l \in Locos, Course(l), NEW f \in Feedbacks, MoveFront(l, f)
  PROVE  /\ first[l] \in Tracks
         /\ TrackOf[f] = first[l]
         /\ front[l] # StopFeedback(first[l])
         /\ \/ TrackOf[front[l]] = first[l]
            \/ front[l] = StopFeedback(TrackOf[front[l]])
<1>1. /\ f = Beyond(front[l]) /\ TrackOf[f] \in {from[l], first[l]}
      /\ TrackOf[f] \in Tracks /\ front[l] \in Feedbacks
  BY LayoutTypes, BodyOnCircle DEF MoveFront
<1>2. from[l] \in Tracks /\ None \notin Tracks
  BY TrainTracks
<1>3. CASE front[l] = StopFeedback(from[l])
  <2>1. TrackOf[f] = NextTrack(from[l]) /\ TrackOf[front[l]] = from[l]
    BY <1>1, <1>2, <1>3, StopLeaves DEF NextTrack
  <2>2. TrackOf[f] = first[l] /\ first[l] # from[l]
    BY <1>1, <1>2, <2>1, StopLeaves
  <2>3. front[l] # StopFeedback(first[l])
    BY <1>1, <1>2, <1>3, <2>2, StopLeaves
  <2> QED
    BY <1>1, <1>3, <2>1, <2>2, <2>3
<1>4. CASE TrackOf[front[l]] = first[l]
  <2>1. first[l] \in Tracks /\ first[l] = NextTrack(from[l])
    BY <1>1, <1>2, <1>4, LayoutTypes DEF Course
  <2>2. CASE front[l] = StopFeedback(first[l])
    <3>1. TrackOf[f] = NextTrack(first[l])
      BY <1>1, <2>2 DEF NextTrack
    <3> QED
      BY <1>1, <1>2, <2>1, <3>1, StopLeaves
  <2>3. CASE front[l] # StopFeedback(first[l])
    BY <1>1, <1>4, <2>1, <2>3, OnlyStopLeaves
  <2> QED
    BY <2>2, <2>3
<1> QED
  BY <1>3, <1>4 DEF Course

LEMMA LayoutOnCourse ==
  ASSUME Typed, NEW l \in Locos, Course(l), NEW f \in Feedbacks, At(f),
         UNCHANGED trainVars
  PROVE  Course(l)'
<1>0. UNCHANGED <<from, first, searching, dropped>>
  BY DEF trainVars
<1>1. CASE MoveFront(l, f)
  <2>1. /\ Body(l)' = Body(l) \cup {f} /\ front'[l] = f
        /\ front[l] \in Body(l)
        /\ TrackOf[f] = first[l]
        /\ \/ TrackOf[front[l]] = first[l]
           \/ front[l] = StopFeedback(TrackOf[front[l]])
    BY <1>1, FrontMoves, FrontIntoDestination, BodyOnCircle
  <2>2. \A g \in Body(l)' : \/ TrackOf[g] = TrackOf[front'[l]]
                            \/ StopFeedback(TrackOf[g]) \in Body(l)'
    BY <2>1 DEF Course
  <2> QED
    BY <1>0, <2>1, <2>2 DEF Course
<1>2. CASE MoveTail(l, f)
  <2>1. /\ Body(l)' = Body(l) \ {f} /\ front' = front
        /\ f = tail[l] /\ front[l] \in Feedbacks /\ f \in Feedbacks
        /\ Body(l) = Stretch(f, front[l]) /\ Body(l) \subseteq Feedbacks
    BY <1>2, TailMoves, BodyOnCircle DEF MoveTail, Body
  <2>2. ASSUME NEW g \in Body(l)', TrackOf[g] # TrackOf[front[l]]
        PROVE  StopFeedback(TrackOf[g]) \in Body(l)'
    <3> DEFINE t == TrackOf[g]
    <3>1. g \in Feedbacks /\ t \in Tracks /\ g # f
      BY <2>1, LayoutTypes
    <3>2. StopFeedback(t) \in Body(l)
      BY <2>1, <2>2 DEF Course
    <3>3. ASSUME StopFeedback(t) = f PROVE FALSE
      <4>1. PICK a \in Feedbacks : FeedbacksOf(t) = Stretch(a, f)
        BY <3>1, <3>3, TracksAreStretches
      <4>2. g \in Stretch(a, f) /\ g \in Stretch(f, front[l])
        BY <2>1, <3>1, <4>1 DEF FeedbacksOf
      <4>3. front[l] \in FeedbacksOf(t)
        BY <2>1, <3>1, <4>1, <4>2, StretchReturns
      <4> QED
        BY <2>2, <4>3 DEF FeedbacksOf
    <3> QED
      BY <2>1, <3>2, <3>3
  <2> QED
    BY <1>0, <2>1, <2>2 DEF Course
<1>3. CASE Body(l)' = Body(l) /\ front'[l] = front[l]
  BY <1>0, <1>3 DEF Course
<1>4. \A m \in Locos \ {l} : MoveFront(m, f) \/ MoveTail(m, f)
        => Body(l)' = Body(l) /\ front'[l] = front[l]
  BY FrontMoves, TailMoves
<1>5. LoseContact(f) \/ RegainContact(f) \/ PutWagon(f) \/ TakeWagon(f)
        => Body(l)' = Body(l) /\ front'[l] = front[l]
  BY DEF LoseContact, RegainContact, PutWagon, TakeWagon, Body
<1> QED
  BY <1>1, <1>2, <1>3, <1>4, <1>5 DEF At

LEMMA CourseKept ==
  ASSUME Typed, NEW l \in Locos, Course(l), Arrival(l), [Next]_vars
  PROVE  Course(l)'
<1>1. CASE Layout
  BY <1>1, LayoutOnCourse DEF Layout, At
<1>2. CASE UNCHANGED layoutVars /\ ~Layout
  <2>0. Body(l)' = Body(l) /\ front' = front
    BY <1>2, LayoutStays DEF layoutVars
  <2>1. CASE /\ from'[l] = from[l] /\ first'[l] = first[l]
             /\ searching'[l] \in {searching[l], None}
             /\ dropped'[l] \in {dropped[l], None}
    BY <2>0, <2>1 DEF Course
  <2>2. CASE Reserve(l)
    <3>1. /\ searching'[l] = NextTrack(from[l])
          /\ UNCHANGED <<from, first, dropped>>
      BY <2>2 DEF Reserve, Typed, TypeOK, TrainTypes
    <3> QED
      BY <2>0, <3>1 DEF Course
  <2>3. CASE Depart(l)
    <3>1. /\ first'[l] = searching[l] /\ searching'[l] = None
          /\ searching[l] # None /\ first[l] = None
          /\ UNCHANGED <<from, dropped>>
      BY <2>3 DEF Depart, Typed, TypeOK, TrainTypes, Orderly
    <3>2. TrackOf[front[l]] # None
      BY LayoutTypes, BodyOnCircle
    <3> QED
      BY <2>0, <3>1, <3>2 DEF Course
  <2>4. CASE StopReached(l)
    <3>1. /\ from'[l] = first[l] /\ first'[l] = None /\ dropped'[l] = from[l]
          /\ told[l] /\ first[l] # None /\ searching[l] = None
          /\ searching' = searching
      BY <2>4 DEF StopReached, Typed, TypeOK, TrainTypes, Orderly
    <3>2. front[l] = StopFeedback(first[l])
      BY <3>1 DEF Arrival
    <3> QED
      BY <2>0, <3>1, <3>2 DEF Course
  <2>5. ASSUME NEW m \in Locos, Automode(m),
               ~Reserve(l) /\ ~Depart(l) /\ ~StopReached(l)
        PROVE  /\ from'[l] = from[l] /\ first'[l] = first[l]
               /\ searching'[l] \in {searching[l], None}
               /\ dropped'[l] \in {dropped[l], None}
    BY <2>5 DEF Automode, Reserve, Execute, Depart, Refuse, StopReached, ReleaseTrack,
                Typed, TypeOK, TrainTypes
  <2>6. \/ \E m \in Locos : Automode(m)
        \/ UNCHANGED <<from, first, searching, dropped>>
    BY <1>2 DEF Next, SetState, Occupy, Debounce, Clear, Unblock, PowerOn, vars, trainVars
  <2> QED
    BY <2>1, <2>2, <2>3, <2>4, <2>5, <2>6
<1>3. Layout \/ UNCHANGED layoutVars
  BY DEF Next, SetState, Occupy, Debounce, Clear, Automode, Reserve, Execute, Depart,
         Refuse, StopReached, ReleaseTrack, Unblock, PowerOn, vars
<1> QED
  BY <1>1, <1>2, <1>3

(***************************************************************************)
(* The locks a train relies on besides its destination: of the track it      *)
(* stands in while it has none, and of the track it searches.                *)
(***************************************************************************)
StandHeld(l) ==
  /\ first[l] = None => lock[from[l]].owner = l
  /\ searching[l] # None => lock[searching[l]].owner = l

LEMMA StandKept ==
  ASSUME Typed, AheadHeld, NEW l \in Locos, Course(l), StandHeld(l), [Next]_vars
  PROVE  StandHeld(l)'
<1> USE NoneIsNoLoco
<1>0. /\ from[l] \in Tracks
      /\ first[l] # None => first[l] \in Tracks /\ lock[first[l]].owner = l
      /\ searching[l] # None => searching[l] \in Tracks /\ lock[searching[l]].owner = l
      /\ first[l] = None => lock[from[l]].owner = l
      /\ Orderly(l)
  BY TrainTracks DEF AheadHeld, StandHeld, Typed
<1>a. /\ searching[l] # None => searching[l] # from[l]
      /\ dropped[l] # None => dropped[l] # from[l]
  BY TrainTracks, StopLeaves DEF Course
<1>1. CASE UNCHANGED <<lock, from, first, searching>>
  BY <1>0, <1>1 DEF StandHeld
<1>2. CASE Clear
  <2> DEFINE c == TrackOf[clearing]
             o == lock[c].owner
  <2>1. c \in Tracks
    BY <1>2, LayoutTypes DEF Clear, Typed, TypeOK, FeedbackTypes
  <2>2. UNCHANGED <<from, first, searching>>
    BY <1>2 DEF Clear, trainVars
  <2>3. \/ lock' = lock
        \/ /\ lock' = [lock EXCEPT ![c] = Released(@, o)]
           /\ o # None /\ MayFree(o, c) /\ MutexFree(o)
    BY <1>2 DEF Clear
  <2>4. CASE lock' = lock
    BY <1>1, <2>2, <2>4
  <2>5. CASE /\ lock' = [lock EXCEPT ![c] = Released(@, o)]
             /\ o # None /\ MayFree(o, c) /\ MutexFree(o)
    <3>1. \A t \in Tracks : t # c => lock'[t] = lock[t]
      BY <2>5 DEF Typed, TypeOK, TrackTypes
    <3>2. first[l] = None => from[l] # c
      BY <1>0, <2>5 DEF MayFree
    <3>3. searching[l] # None => searching[l] # c
      BY <1>0, <2>5 DEF MutexFree
    <3> QED
      BY <1>0, <2>2, <3>1, <3>2, <3>3 DEF StandHeld
  <2> QED
    BY <2>3, <2>4, <2>5
<1>3. ASSUME NEW m \in Locos, Automode(m) PROVE StandHeld(l)'
  <2>0. /\ searching[m] # None => searching[m] \in Tracks
        /\ dropped[m] # None => dropped[m] \in Tracks
        /\ dropped[m] # None => searching[m] = None
        /\ NextTrack(from[m]) \in Tracks
    BY TrainTracks, StopLeaves DEF Typed, Orderly
  <2>1. CASE Reserve(m)
    <3> DEFINE n == NextTrack(from[m])
    <3>1. UNCHANGED <<from, first>>
      BY <2>1 DEF Reserve
    <3>2. \A t \in Tracks : lock[t].owner \in Locos => lock'[t].owner = lock[t].owner
      BY <2>0, <2>1
         DEF Reserve, CanReserveTrack, CanReserve, InUse, Reserved, Typed, TypeOK, TrackTypes
    <3>3. lock'[n].owner = m
      BY <2>0, <2>1 DEF Reserve, Reserved, Typed, TypeOK, TrackTypes
    <3>4. /\ l # m => searching'[l] = searching[l]
          /\ l = m => searching'[l] = n
      BY <2>1 DEF Reserve, Typed, TypeOK, TrainTypes
    <3> QED
      BY <1>0, <3>1, <3>2, <3>3, <3>4 DEF StandHeld
  <2>2. CASE Execute(m)
    <3>1. \A t \in Tracks : lock'[t].owner = lock[t].owner
      BY <2>2 DEF Execute, Locked, Typed, TypeOK, TrackTypes, Locks
    <3>2. UNCHANGED <<from, first, searching>>
      BY <2>2 DEF Execute
    <3> QED
      BY <1>0, <3>1, <3>2 DEF StandHeld
  <2>3. CASE Depart(m)
    <3>1. lock' = lock /\ from' = from
      BY <2>3 DEF Depart, trackVars
    <3>2. /\ l # m => first'[l] = first[l] /\ searching'[l] = searching[l]
          /\ l = m => first'[l] = searching[l] /\ searching'[l] = None /\ searching[l] # None
      BY <2>3 DEF Depart, Typed, TypeOK, TrainTypes, Orderly
    <3> QED
      BY <1>0, <3>1, <3>2 DEF StandHeld
  <2>4. CASE Refuse(m)
    <3>1. searching[m] \in Tracks /\ Release(searching[m], m)
      BY <2>0, <2>4 DEF Refuse
    <3>2. /\ UNCHANGED <<from, first>>
          /\ l # m => searching'[l] = searching[l]
          /\ l = m => searching'[l] = None
      BY <2>4 DEF Refuse, Typed, TypeOK, TrainTypes
    <3>3. \A t \in Tracks : lock[t].owner = l /\ (l # m \/ t # searching[m])
            => lock'[t] = lock[t]
      BY <3>1, ReleaseOwnOnly
    <3>4. searching[m] # None
      BY <2>4 DEF Refuse
    <3> QED
      BY <1>0, <1>a, <3>2, <3>3, <3>4 DEF StandHeld
  <2>5. CASE StopReached(m)
    <3>1. lock' = lock /\ searching' = searching
      BY <2>5 DEF StopReached, trackVars
    <3>2. /\ l # m => first'[l] = first[l] /\ from'[l] = from[l]
          /\ l = m => from'[l] = first[l] /\ told[l]
      BY <2>5 DEF StopReached, Typed, TypeOK, TrainTypes
    <3> QED
      BY <1>0, <3>1, <3>2 DEF StandHeld, Orderly
  <2>6. CASE ReleaseTrack(m)
    <3>1. dropped[m] \in Tracks /\ Release(dropped[m], m) /\ dropped[m] # None
      BY <2>0, <2>6 DEF ReleaseTrack
    <3>2. UNCHANGED <<from, first, searching>>
      BY <2>6 DEF ReleaseTrack
    <3>3. \A t \in Tracks : lock[t].owner = l /\ (l # m \/ t # dropped[m])
            => lock'[t] = lock[t]
      BY <3>1, ReleaseOwnOnly
    <3>4. l = m => searching[l] = None
      BY <2>0, <3>1
    <3> QED
      BY <1>0, <1>a, <3>1, <3>2, <3>3, <3>4 DEF StandHeld
  <2> QED
    BY <1>3, <2>1, <2>2, <2>3, <2>4, <2>5, <2>6 DEF Automode
<1>4. Layout \/ SetState \/ Occupy \/ (\E f \in Feedbacks : Debounce(f)) \/ PowerOn
      \/ (\E t \in Tracks : Unblock(t)) \/ UNCHANGED vars
      => UNCHANGED <<lock, from, first, searching>>
  BY DEF Layout, SetState, Occupy, Debounce, PowerOn, Unblock, vars, trackVars, trainVars
<1> QED
  BY <1>1, <1>2, <1>3, <1>4 DEF Next

(***************************************************************************)
(* Every track that a train is on has the train as its delayed owner.        *)
(***************************************************************************)
TracksOwned ==
  \A l \in Locos : \A f \in Body(l) : locoBaseDelayed[TrackOf[f]] = l

(***************************************************************************)
(* The stop feedback of a track is counted, or told to it, or reported, only *)
(* because of the delayed owner: either that has just reached the feedback,  *)
(* or it came from there, and the track is occupied.                         *)
(***************************************************************************)
Warm(f) == stateCounter[f] > 0 \/ reporting = f \/ Coming(wire, f)

Arriving(l, t) ==
  /\ first[l] = t /\ front[l] = StopFeedback(t)
  /\ reporting = StopFeedback(t) => stateCounter[StopFeedback(t)] > 0

Passed(l, t) ==
  /\ first[l] # t /\ searching[l] # t
  /\ trackState[t] = "Occupied"
  /\ stateCounter[StopFeedback(t)] > 0 /\ reporting # StopFeedback(t)

StopExplained(t) ==
  Warm(StopFeedback(t)) =>
    \E l \in Locos : locoBaseDelayed[t] = l /\ (Arriving(l, t) \/ Passed(l, t))

TrainInvariant ==
  /\ Typed /\ DelayedFits /\ AheadHeld /\ SensorInvariant
  /\ \A l \in Locos : Course(l) /\ Arrival(l) /\ StandHeld(l)
  /\ TracksOwned
  /\ \A t \in Tracks : StopExplained(t)

\* What reaches into another track than the destination keeps that occupied.
LEMMA OldTrackOccupied ==
  ASSUME TrainInvariant, NEW l \in Locos, NEW f \in Body(l), TrackOf[f] # first[l]
  PROVE  Passed(l, TrackOf[f])
<1> DEFINE t == TrackOf[f]
           s == StopFeedback(t)
<1>0. Typed /\ SensorInvariant /\ Course(l) /\ StopExplained(t)
  BY BodyOnCircle, LayoutTypes DEF TrainInvariant
<1>1. f \in Feedbacks /\ t \in Tracks /\ s \in Feedbacks
  BY <1>0, BodyOnCircle, LayoutTypes, StopLeaves
<1>2. s \in Body(l)
  <2>1. CASE t = TrackOf[front[l]]
    <3>1. front[l] = StopFeedback(from[l]) /\ from[l] \in Tracks
      BY <1>0, <2>1, TrainTracks DEF Course
    <3>2. t = from[l]
      BY <2>1, <3>1, StopLeaves
    <3> QED
      BY <1>0, <3>1, <3>2, BodyOnCircle
  <2>2. CASE t # TrackOf[front[l]]
    BY <1>0, <2>2 DEF Course
  <2> QED
    BY <2>1, <2>2
<1>3. Warm(s)
  BY <1>0, <1>1, <1>2 DEF SensorInvariant, Sensed, Present, Warm
<1>4. locoBaseDelayed[t] = l
  BY DEF TrainInvariant, TracksOwned
<1>5. Arriving(l, t) \/ Passed(l, t)
  BY <1>0, <1>3, <1>4 DEF StopExplained
<1> QED
  BY <1>5 DEF Arriving

\* A track does not become free while its stop feedback is counted.
LEMMA NotAllFree ==
  ASSUME NEW t \in Tracks, stateCounter[StopFeedback(t)] > 0
  PROVE  ~AllFree(t)
<1>1. StopFeedback(t) \in FeedbacksOf(t)
  BY StopInTrack
<1> QED
  BY <1>1 DEF AllFree

\* What a release leaves: a delayed owner that is not the releaser, or that the
\* track is occupied by.
LEMMA ReleaseKeepsDelayed ==
  ASSUME Typed, DelayedFits, NEW m \in Locos, NEW d \in Tracks, Release(d, m),
         NEW t \in Tracks, t # d \/ locoBaseDelayed[t] # m \/ trackState[t] = "Occupied"
  PROVE  locoBaseDelayed'[t] = locoBaseDelayed[t]
<1>1. m # None
  BY NoneIsNoLoco
<1>2. CanRelease(lock[d], m) => locoBaseDelayed[d] = m
  BY <1>1 DEF CanRelease, DelayedFits
<1> QED
  BY <1>2 DEF Release, Typed, TypeOK, TrackTypes

\* What the thread that clears a track leaves: the destination of a train, and a
\* track with a counted stop feedback.
LEMMA ClearKeepsDelayed ==
  ASSUME TrainInvariant, Clear, NEW t \in Tracks, NEW l \in Locos,
         first[l] = t \/ stateCounter[StopFeedback(t)] > 0
  PROVE  /\ locoBaseDelayed'[t] = locoBaseDelayed[t]
         /\ stateCounter[StopFeedback(t)] > 0 => trackState'[t] = trackState[t]
<1> DEFINE c == TrackOf[clearing]
           o == lock[c].owner
           freed == c \in FreeingTracks /\ o # None /\ MayFree(o, c)
<1>0. Typed /\ AheadHeld
  BY DEF TrainInvariant
<1>1. c \in Tracks
  BY <1>0, LayoutTypes DEF Clear, Typed, TypeOK, FeedbackTypes
<1>2. CASE stateCounter[StopFeedback(t)] > 0
  <2>1. ~AllFree(t)
    BY <1>2, NotAllFree
  <2> QED
    BY <1>0, <1>1, <2>1 DEF Clear, Typed, TypeOK, TrackTypes
<1>3. CASE first[l] = t /\ ~(stateCounter[StopFeedback(t)] > 0)
  <2>1. lock[t].owner = l /\ l # None
    <3>1. None \notin Tracks
      BY LayoutTypes
    <3> QED
      BY <1>0, <1>3, <3>1, NoneIsNoLoco DEF AheadHeld
  <2>2. ~MayFree(l, t)
    BY <1>3 DEF MayFree
  <2>3. t = c => ~freed /\ ~Forgets(c)
    BY <2>1, <2>2 DEF Forgets
  <2>4. \/ locoBaseDelayed' = locoBaseDelayed
        \/ (freed \/ Forgets(c)) /\ locoBaseDelayed' = [locoBaseDelayed EXCEPT ![c] = None]
    BY DEF Clear
  <2> HIDE DEF c, freed
  <2>5. locoBaseDelayed \in [Tracks -> Owners]
    BY <1>0 DEF Typed, TypeOK, TrackTypes
  <2> QED
    BY <1>3, <2>3, <2>4, <2>5
<1> QED
  BY <1>2, <1>3

(***************************************************************************)
(* A train takes no track that is not its own, and nobody takes from it a    *)
(* track that it is on.                                                      *)
(***************************************************************************)
LEMMA OwnedKept ==
  ASSUME TrainInvariant, [Next]_vars, NEW l \in Locos, NEW f \in Body(l)'
  PROVE  locoBaseDelayed'[TrackOf[f]] = l
<1> DEFINE t == TrackOf[f]
<1>0. Typed /\ DelayedFits /\ AheadHeld /\ Course(l) /\ l # None
  BY NoneIsNoLoco DEF TrainInvariant
<1>1. CASE Layout
  <2>1. PICK g \in Feedbacks : At(g)
    BY <1>1 DEF Layout, At
  <2>2. locoBaseDelayed' = locoBaseDelayed
    BY <1>1 DEF Layout, trackVars
  <2>3. CASE f \in Body(l)
    BY <2>2, <2>3 DEF TrainInvariant, TracksOwned
  <2>4. CASE f \notin Body(l)
    <3>1. MoveFront(l, g) /\ f = g
      <4>1. \A m \in Locos \ {l} : MoveFront(m, g) => Body(l)' = Body(l)
        BY <1>0, FrontMoves
      <4>2. MoveFront(l, g) => Body(l)' = Body(l) \cup {g}
        BY <1>0, FrontMoves
      <4>3. \A m \in Locos : MoveTail(m, g) => Body(l)' \subseteq Body(l)
        BY <1>0, TailMoves
      <4>4. LoseContact(g) \/ RegainContact(g) \/ PutWagon(g) \/ TakeWagon(g)
              => Body(l)' = Body(l)
        BY DEF LoseContact, RegainContact, PutWagon, TakeWagon, Body
      <4> QED
        BY <2>1, <2>4, <4>1, <4>2, <4>3, <4>4 DEF At
    <3>2. first[l] \in Tracks /\ t = first[l]
      BY <1>0, <3>1, FrontIntoDestination
    <3>3. lock[t].owner = l
      BY <1>0, <3>2, TrainTracks DEF AheadHeld
    <3> QED
      BY <1>0, <2>2, <3>2, <3>3 DEF DelayedFits
  <2> QED
    BY <2>3, <2>4
<1>2. CASE UNCHANGED layoutVars
  <2>0. /\ f \in Body(l) /\ f \in Feedbacks /\ t \in Tracks
        /\ locoBaseDelayed[t] = l
    BY <1>0, <1>2, LayoutStays, BodyOnCircle, LayoutTypes DEF TrainInvariant, TracksOwned
  <2>1. t # first[l] => trackState[t] = "Occupied" /\ stateCounter[StopFeedback(t)] > 0
    BY <2>0, OldTrackOccupied DEF Passed
  <2>2. CASE Clear
    BY <2>0, <2>1, <2>2, ClearKeepsDelayed
  <2>3. ASSUME NEW m \in Locos, Reserve(m) PROVE locoBaseDelayed'[t] = l
    <3> DEFINE n == NextTrack(from[m])
    <3>1. /\ locoBaseDelayed' = [locoBaseDelayed EXCEPT ![n] = m]
          /\ locoBaseDelayed[n] \in {None, m}
      BY <2>3 DEF Reserve, CanReserveTrack
    <3>2. locoBaseDelayed \in [Tracks -> Owners]
      BY <1>0 DEF Typed, TypeOK, TrackTypes
    <3> HIDE DEF n
    <3> QED
      BY <1>0, <2>0, <3>1, <3>2
  <2>4. ASSUME NEW m \in Locos, NEW d \in Tracks, Release(d, m), first[m] = None
        PROVE  locoBaseDelayed'[t] = l
    <3>1. None \notin Tracks
      BY LayoutTypes
    <3>2. l = m => trackState[t] = "Occupied"
      BY <2>0, <2>1, <2>4, <3>1
    <3> QED
      BY <1>0, <2>0, <2>4, <3>2, ReleaseKeepsDelayed
  <2>5. ASSUME NEW m \in Locos, Refuse(m) \/ ReleaseTrack(m)
        PROVE  \E d \in Tracks : Release(d, m) /\ first[m] = None
    BY <1>0, <2>5, TrainTracks DEF Refuse, ReleaseTrack, Typed, Orderly
  <2>6. \/ Clear
        \/ \E m \in Locos : Reserve(m) \/ Refuse(m) \/ ReleaseTrack(m)
        \/ Layout
        \/ locoBaseDelayed' = locoBaseDelayed
    BY DEF Next, SetState, Occupy, Debounce, Automode, Execute, Depart, StopReached,
           Unblock, PowerOn, vars, trackVars
  <2> QED
    BY <1>1, <2>0, <2>2, <2>3, <2>4, <2>5, <2>6
<1>3. Layout \/ UNCHANGED layoutVars
  BY DEF Next, SetState, Occupy, Debounce, Clear, Automode, Reserve, Execute, Depart,
         Refuse, StopReached, ReleaseTrack, Unblock, PowerOn, vars
<1> QED
  BY <1>1, <1>2, <1>3

(***************************************************************************)
(* A stop feedback becomes warm only when a front reaches it.                *)
(***************************************************************************)
LEMMA OnlyFrontsWarm ==
  ASSUME Typed, SensorInvariant, \A l \in Locos : Course(l), Layout,
         NEW t \in Tracks, ~Warm(StopFeedback(t)), Warm(StopFeedback(t))'
  PROVE  \E l \in Locos : first[l] = t /\ front'[l] = StopFeedback(t)
<1> DEFINE s == StopFeedback(t)
<1>0. s \in Feedbacks /\ TrackOf[s] = t /\ s \notin Spots /\ s # Nowhere
  BY StopLeaves, WagonsOffStops, NowhereIsNoContact
<1>1. PICK f \in Feedbacks : At(f)
  BY DEF Layout, At
<1>2. stateCounter' = stateCounter /\ reporting' = reporting
  BY DEF Layout
<1> HIDE DEF s
<1>3. Coming(wire', s) /\ ~Coming(wire, s)
  BY <1>2 DEF Warm, s
<1>4. /\ Sensed(f) /\ Sensed(s)
      /\ Report(f) /\ wire \in Seq(Reports)
      /\ gap'[f] => Present(f)'
  BY <1>0, <1>1, LayoutAtContact DEF SensorInvariant, Typed, TypeOK, LayoutInvariant
<1>5. f = s /\ Contact(s)'
  <2>1. f = s /\ Contact(f)'
    BY <1>0, <1>3, <1>4, ReportOutcome
  <2> QED
    BY <2>1 DEF Contact, Body
<1>6. ~Present(s)
  BY <1>4, <1>3 DEF Sensed, Warm, s
<1>7. Present(s)'
  BY <1>5 DEF Contact, Present
<1>8. ASSUME NEW l \in Locos, MoveFront(l, s)
      PROVE  first[l] = t /\ front'[l] = s
  BY <1>0, <1>8, FrontMoves, FrontIntoDestination
<1>9. ASSUME NEW l \in Locos, MoveTail(l, s) PROVE FALSE
  <2>1. \A m \in Locos : Body(m)' \subseteq Body(m)
    BY <1>0, <1>9, TailMoves
  <2>2. wagon' = wagon
    BY <1>9 DEF MoveTail
  <2> QED
    BY <1>6, <1>7, <2>1, <2>2 DEF Present
<1>10. ~LoseContact(s) /\ ~RegainContact(s)
  BY <1>6, <1>7 DEF LoseContact, RegainContact, Present, Body
<1>11. ~PutWagon(s)
  BY <1>0 DEF PutWagon
<1>12. ~TakeWagon(s)
  BY <1>6 DEF TakeWagon, Present
<1> QED
  BY <1>1, <1>5, <1>8, <1>9, <1>10, <1>11, <1>12 DEF At, s

\* A report that is taken warms nothing, and tells only what was not counted.
LEMMA TakingExplains ==
  ASSUME Typed, SetState, NEW f \in Feedbacks
  PROVE  /\ Warm(f)' => Warm(f)
         /\ stateCounter[f] > 0 => stateCounter'[f] > 0
         /\ reporting' = f => stateCounter'[f] > 0 /\ stateCounter[f] = 0
<1> DEFINE g == Head(wire).feedback
           b == Head(wire).state
<1>1. /\ wire \in Seq(Reports) /\ wire # <<>> /\ wire' = Tail(wire)
      /\ stateCounter' = [stateCounter EXCEPT ![g] = Counted(@, b)]
      /\ reporting' = IF b /\ stateCounter[g] = 0 THEN g ELSE Nowhere
  BY DEF SetState, Typed, TypeOK, LayoutInvariant
<1>2. Head(wire) \in Reports
  BY <1>1
<1>3. Head(wire) = [feedback |-> g, state |-> b] /\ g \in Feedbacks /\ b \in BOOLEAN
  BY <1>2 DEF Reports
<1>4. /\ stateCounter'[g] = Counted(stateCounter[g], b)
      /\ \A h \in Feedbacks \ {g} : stateCounter'[h] = stateCounter[h]
      /\ \A h \in Feedbacks : stateCounter[h] \in 0 .. MaxStateCounter
  BY <1>1, <1>3 DEF Typed, TypeOK, FeedbackTypes
<1> HIDE DEF g, b
<1>5. Coming(wire', f) => Coming(wire, f)
  BY <1>1, TakenReport
<1>6. g = f /\ b => Coming(wire, f)
  <2>1. SUFFICES ASSUME g = f, b PROVE Coming(wire, f)
    OBVIOUS
  <2>2. 1 \in DOMAIN wire /\ wire[1] = Head(wire)
    BY <1>1
  <2>3. Head(wire) = [feedback |-> f, state |-> TRUE]
    BY <1>3, <2>1
  <2> QED
    BY <2>2, <2>3 DEF Coming
<1>7. stateCounter'[f] > 0 => stateCounter[f] > 0 \/ (g = f /\ b)
  BY <1>3, <1>4, LayoutTypes DEF Counted
<1>8. stateCounter[f] > 0 => stateCounter'[f] > 0
  BY <1>3, <1>4, LayoutTypes DEF Counted
<1>9. g = f /\ b => stateCounter'[f] > 0
  BY <1>3, <1>4, LayoutTypes DEF Counted
<1>10. reporting' = f => g = f /\ b /\ stateCounter[f] = 0
  BY <1>1, NowhereIsNoContact
<1> QED
  BY <1>5, <1>6, <1>7, <1>8, <1>9, <1>10 DEF Warm

LEMMA CountingExplains ==
  ASSUME Typed, SensorInvariant, NEW g \in Feedbacks, Debounce(g), NEW f \in Feedbacks
  PROVE  /\ Warm(f)' => Warm(f)
         /\ stateCounter[f] > 0 /\ (Present(f) \/ Coming(wire, f)) => stateCounter'[f] > 0
<1>1. /\ wire' = wire /\ reporting' = reporting
      /\ stateCounter'[g] = stateCounter[g] - 1 /\ stateCounter[g] # 0
      /\ \A h \in Feedbacks \ {g} : stateCounter'[h] = stateCounter[h]
      /\ \A h \in Feedbacks : stateCounter[h] \in 0 .. MaxStateCounter
  BY DEF Debounce, Due, Typed, TypeOK, FeedbackTypes
<1>2. stateCounter'[f] > 0 => stateCounter[f] > 0
  BY <1>1, LayoutTypes
<1>3. stateCounter[f] > 0 /\ ~(stateCounter'[f] > 0) => f = g /\ stateCounter[g] = 1
  BY <1>1, LayoutTypes
<1> QED
  BY <1>1, <1>2, <1>3, PresentNotCountedOut DEF Warm

LEMMA ExplainedKept ==
  ASSUME TrainInvariant, [Next]_vars, NEW t \in Tracks
  PROVE  StopExplained(t)'
<1> DEFINE s == StopFeedback(t)
<1> SUFFICES ASSUME Warm(s)'
             PROVE  \E l \in Locos : locoBaseDelayed'[t] = l /\ (Arriving(l, t)' \/ Passed(l, t)')
  BY DEF StopExplained
<1>0. /\ Typed /\ DelayedFits /\ AheadHeld /\ SensorInvariant
      /\ \A l \in Locos : Course(l) /\ Arrival(l)
      /\ StopExplained(t)
      /\ s \in Feedbacks /\ TrackOf[s] = t /\ s # Nowhere
      /\ None \notin Tracks /\ None \notin Locos
  BY StopLeaves, NowhereIsNoContact, LayoutTypes, NoneIsNoLoco DEF TrainInvariant
<1>a. ASSUME NEW l \in Locos, Arriving(l, t)
      PROVE  /\ first[l] = t /\ front[l] = s /\ first[l] # None
             /\ reporting = s => stateCounter[s] > 0
             /\ Present(s) /\ lock[t].owner = l
  BY <1>0, <1>a, BodyOnCircle DEF Arriving, Present, AheadHeld
<1>b. ASSUME NEW l \in Locos, Passed(l, t)
      PROVE  /\ first[l] # t /\ searching[l] # t /\ trackState[t] = "Occupied"
             /\ stateCounter[s] > 0 /\ reporting # s
  BY <1>b DEF Passed
<1>c. Warm(s) => \E l \in Locos : locoBaseDelayed[t] = l /\ (Arriving(l, t) \/ Passed(l, t))
  BY <1>0 DEF StopExplained
<1> HIDE DEF s
<1>1. CASE Layout
  <2>1. UNCHANGED <<stateCounter, reporting, first, searching, trackState, locoBaseDelayed>>
    BY <1>1 DEF Layout, trackVars, trainVars
  <2>2. CASE Warm(s)
    <3>1. PICK l \in Locos : locoBaseDelayed[t] = l /\ (Arriving(l, t) \/ Passed(l, t))
      BY <1>c, <2>2
    <3>2. CASE Arriving(l, t)
      <4>1. PICK f \in Feedbacks : At(f)
        BY <1>1 DEF Layout, At
      <4>2. ~MoveFront(l, f)
        BY <1>0, <1>a, <3>2, FrontIntoDestination DEF s
      <4>3. \A m \in Locos \ {l} : MoveFront(m, f) => front'[l] = front[l]
        BY <1>0, FrontMoves
      <4>4. front'[l] = front[l]
        BY <4>1, <4>2, <4>3
           DEF At, MoveTail, LoseContact, RegainContact, PutWagon, TakeWagon
      <4> QED
        BY <2>1, <3>1, <3>2, <4>4 DEF Arriving
    <3>3. CASE Passed(l, t)
      BY <2>1, <3>1, <3>3 DEF Passed
    <3> QED
      BY <3>1, <3>2, <3>3
  <2>3. CASE ~Warm(s)
    <3>1. PICK l \in Locos : first[l] = t /\ front'[l] = s
      BY <1>0, <1>1, <2>3, OnlyFrontsWarm DEF s
    <3>2. locoBaseDelayed[t] = l
      BY <1>0, <3>1 DEF AheadHeld, DelayedFits
    <3>3. reporting # s
      BY <2>3 DEF Warm
    <3> QED
      BY <2>1, <3>1, <3>2, <3>3 DEF Arriving, s
  <2> QED
    BY <2>2, <2>3
<1>2. CASE SetState
  <2>1. UNCHANGED <<first, searching, front, trackState, locoBaseDelayed>>
    BY <1>2 DEF SetState, trackVars, trainVars, layoutVars
  <2>2. /\ Warm(s)
        /\ stateCounter[s] > 0 => stateCounter'[s] > 0
        /\ reporting' = s => stateCounter'[s] > 0 /\ stateCounter[s] = 0
    BY <1>0, <1>2, TakingExplains
  <2>3. PICK l \in Locos : locoBaseDelayed[t] = l /\ (Arriving(l, t) \/ Passed(l, t))
    BY <1>c, <2>2
  <2>4. CASE Arriving(l, t)
    BY <2>1, <2>2, <2>3, <2>4 DEF Arriving, s
  <2>5. CASE Passed(l, t)
    <3>1. stateCounter[s] > 0 /\ ~(stateCounter[s] = 0)
      BY <1>b, <2>5
    <3> QED
      BY <2>1, <2>2, <2>3, <2>5, <3>1 DEF Passed, s
  <2> QED
    BY <2>3, <2>4, <2>5
<1>3. ASSUME NEW g \in Feedbacks, Debounce(g)
      PROVE  \E l \in Locos : locoBaseDelayed'[t] = l /\ (Arriving(l, t)' \/ Passed(l, t)')
  <2>1. UNCHANGED <<wire, reporting, first, searching, front, trackState, locoBaseDelayed>>
    BY <1>3 DEF Debounce, trackVars, trainVars, layoutVars
  <2>2. /\ Warm(s)
        /\ stateCounter[s] > 0 /\ (Present(s) \/ Coming(wire, s)) => stateCounter'[s] > 0
    BY <1>0, <1>3, CountingExplains
  <2>3. PICK l \in Locos : locoBaseDelayed[t] = l /\ (Arriving(l, t) \/ Passed(l, t))
    BY <1>c, <2>2
  <2>4. CASE Arriving(l, t)
    BY <1>a, <2>1, <2>2, <2>3, <2>4 DEF Arriving, s
  <2>5. CASE Passed(l, t)
    <3>1. stateCounter'[s] > 0
      BY <1>b, <2>1, <2>2, <2>5 DEF Warm
    <3> QED
      BY <2>1, <2>3, <2>5, <3>1 DEF Passed, s
  <2> QED
    BY <2>3, <2>4, <2>5
<1>4. CASE Occupy
  <2>1. /\ UNCHANGED <<wire, stateCounter, first, searching, front, locoBaseDelayed>>
        /\ reporting' = Nowhere
        /\ trackState[t] = "Occupied" => trackState'[t] = "Occupied"
    BY <1>0, <1>4 DEF Occupy, layoutVars, Typed, TypeOK, TrackTypes
  <2>2. Warm(s)
    BY <1>0, <2>1 DEF Warm
  <2>3. PICK l \in Locos : locoBaseDelayed[t] = l /\ (Arriving(l, t) \/ Passed(l, t))
    BY <1>c, <2>2
  <2> QED
    BY <1>0, <2>1, <2>3 DEF Arriving, Passed, s
<1>5. CASE Clear
  <2>1. UNCHANGED <<wire, stateCounter, reporting, first, searching, front>>
    BY <1>5 DEF Clear, layoutVars, trainVars
  <2>2. Warm(s)
    BY <2>1 DEF Warm
  <2>3. PICK l \in Locos : locoBaseDelayed[t] = l /\ (Arriving(l, t) \/ Passed(l, t))
    BY <1>c, <2>2
  <2>4. CASE Arriving(l, t)
    <3>1. locoBaseDelayed'[t] = l
      BY <1>5, <1>a, <2>3, <2>4, ClearKeepsDelayed DEF s
    <3> QED
      BY <2>1, <2>4, <3>1 DEF Arriving
  <2>5. CASE Passed(l, t)
    <3>1. locoBaseDelayed'[t] = l /\ trackState'[t] = trackState[t]
      BY <1>5, <1>b, <2>3, <2>5, ClearKeepsDelayed DEF s
    <3> QED
      BY <2>1, <2>5, <3>1 DEF Passed
  <2> QED
    BY <2>3, <2>4, <2>5
<1>6. ASSUME NEW m \in Locos, Automode(m)
      PROVE  \E l \in Locos : locoBaseDelayed'[t] = l /\ (Arriving(l, t)' \/ Passed(l, t)')
  <2>1. UNCHANGED <<wire, stateCounter, reporting, front, trackState>>
    BY <1>6 DEF Automode, Reserve, Execute, Depart, Refuse, StopReached, ReleaseTrack,
                Release, layoutVars, trackVars
  <2>2. Warm(s)
    BY <2>1 DEF Warm
  <2>3. PICK l \in Locos : locoBaseDelayed[t] = l /\ (Arriving(l, t) \/ Passed(l, t))
    BY <1>c, <2>2
  <2>4. ASSUME locoBaseDelayed'[t] = l, first'[l] = first[l],
               searching'[l] = searching[l] \/ searching'[l] # t
        PROVE  Arriving(l, t)' \/ Passed(l, t)'
    BY <2>1, <2>3, <2>4 DEF Arriving, Passed
  <2>5. CASE Reserve(m)
    <3> DEFINE n == NextTrack(from[m])
    <3>1. /\ locoBaseDelayed[n] \in {None, m} /\ trackState[n] = "Free"
          /\ first[m] = None
          /\ locoBaseDelayed' = [locoBaseDelayed EXCEPT ![n] = m]
          /\ searching' = [searching EXCEPT ![m] = n]
          /\ first' = first
      BY <2>5 DEF Reserve, CanReserveTrack
    <3>2. /\ locoBaseDelayed \in [Tracks -> Owners]
          /\ searching \in [Locos -> TrackOrNone]
      BY <1>0 DEF Typed, TypeOK, TrackTypes, TrainTypes
    <3> HIDE DEF n
    <3>3. n # t
      <4>1. SUFFICES ASSUME n = t PROVE FALSE
        OBVIOUS
      <4>2. l = m
        BY <1>0, <2>3, <3>1, <4>1
      <4>3. Arriving(l, t)
        BY <1>b, <2>3, <3>1, <4>1
      <4> QED
        BY <1>a, <3>1, <4>2, <4>3
    <3>4. locoBaseDelayed'[t] = l /\ (searching'[l] = searching[l] \/ searching'[l] # t)
      BY <2>3, <3>1, <3>2, <3>3
    <3> QED
      BY <2>4, <3>1, <3>4
  <2>6. CASE Execute(m)
    BY <2>3, <2>4, <2>6 DEF Execute
  <2>7. CASE Depart(m)
    <3>1. /\ first[m] = None /\ searching[m] # None
          /\ locoBaseDelayed' = locoBaseDelayed
          /\ first' = [first EXCEPT ![m] = searching[m]]
          /\ searching' = [searching EXCEPT ![m] = None]
      BY <1>0, <2>7 DEF Depart, trackVars, Typed, Orderly
    <3>2. first \in [Locos -> TrackOrNone] /\ searching \in [Locos -> TrackOrNone]
      BY <1>0 DEF Typed, TypeOK, TrainTypes
    <3>3. CASE l # m
      BY <2>3, <2>4, <3>1, <3>2, <3>3
    <3>4. CASE l = m
      <4>1. Passed(l, t)
        BY <1>a, <2>3, <3>1, <3>4
      <4>2. first'[l] = searching[l] /\ searching'[l] = None
        BY <3>1, <3>2, <3>4
      <4>3. Passed(l, t)'
        BY <1>0, <2>1, <4>1, <4>2 DEF Passed
      <4> QED
        BY <2>3, <3>1, <4>3
    <3> QED
      BY <3>3, <3>4
  <2>8. CASE Refuse(m) \/ ReleaseTrack(m)
    <3>1. PICK d \in Tracks : Release(d, m)
      BY <1>0, <2>8, TrainTracks DEF Refuse, ReleaseTrack
    <3>2. /\ first' = first /\ first[m] = None
          /\ searching'[l] \in {searching[l], None}
      BY <1>0, <2>8 DEF Refuse, ReleaseTrack, Typed, TypeOK, TrainTypes, Orderly
    <3>3. l # m \/ trackState[t] = "Occupied"
      BY <1>a, <1>b, <2>3, <3>2
    <3>4. locoBaseDelayed'[t] = l
      BY <1>0, <2>3, <3>1, <3>3, ReleaseKeepsDelayed
    <3> QED
      BY <1>0, <2>4, <3>2, <3>4
  <2>9. CASE StopReached(m)
    <3>1. /\ told[m] /\ searching[m] = None
          /\ locoBaseDelayed' = locoBaseDelayed /\ searching' = searching
          /\ first' = [first EXCEPT ![m] = None]
      BY <2>9 DEF StopReached, trackVars
    <3>2. first \in [Locos -> TrackOrNone]
      BY <1>0 DEF Typed, TypeOK, TrainTypes
    <3>3. CASE l # m
      BY <2>3, <2>4, <3>1, <3>2, <3>3
    <3>4. CASE l = m
      <4>1. first'[l] = None
        BY <3>1, <3>2, <3>4
      <4>2. /\ searching[l] # t /\ trackState[t] = "Occupied"
            /\ stateCounter[s] > 0 /\ reporting # s
        <5>1. CASE Arriving(l, t)
          BY <1>0, <1>a, <3>1, <3>4, <5>1 DEF Arrival, s
        <5>2. CASE Passed(l, t)
          BY <1>b, <5>2
        <5> QED
          BY <2>3, <5>1, <5>2
      <4>3. Passed(l, t)'
        BY <1>0, <2>1, <3>1, <4>1, <4>2 DEF Passed, s
      <4> QED
        BY <2>3, <3>1, <4>3
    <3> QED
      BY <3>3, <3>4
  <2> QED
    BY <1>6, <2>3, <2>5, <2>6, <2>7, <2>8, <2>9 DEF Automode
<1>7. CASE UNCHANGED <<wire, stateCounter, reporting, front, trackState, locoBaseDelayed,
                       first, searching>>
  <2>1. Warm(s)
    BY <1>7 DEF Warm
  <2> QED
    BY <1>7, <1>c, <2>1 DEF Arriving, Passed
<1>8. PowerOn \/ (\E u \in Tracks : Unblock(u)) \/ UNCHANGED vars
      => UNCHANGED <<wire, stateCounter, reporting, front, trackState, locoBaseDelayed,
                     first, searching>>
  BY DEF PowerOn, Unblock, vars, layoutVars, trackVars, trainVars
<1> QED
  BY <1>1, <1>2, <1>3, <1>4, <1>5, <1>6, <1>7, <1>8 DEF Next

LEMMA ArrivalKept ==
  ASSUME TrainInvariant, [Next]_vars, NEW l \in Locos
  PROVE  Arrival(l)'
<1>0. /\ Typed /\ SensorInvariant /\ AheadHeld
      /\ Course(l) /\ Arrival(l) /\ Orderly(l)
      /\ None \notin Tracks /\ l # None
  BY LayoutTypes, NoneIsNoLoco DEF TrainInvariant, Typed
<1> DEFINE s == StopFeedback(first[l])
<1>a. ASSUME told[l]
      PROVE  /\ first[l] \in Tracks /\ s \in Feedbacks /\ s # Nowhere
             /\ front[l] = s /\ Present(s)
             /\ trackState[first[l]] = "Occupied"
             /\ stateCounter[s] > 0 /\ reporting # s
  <2>1. first[l] \in Tracks
    BY <1>0, <1>a, TrainTracks DEF Orderly
  <2>2. front[l] = s
    BY <1>0, <1>a DEF Arrival
  <2> QED
    BY <1>0, <1>a, <2>1, <2>2, StopLeaves, NowhereIsNoContact, BodyOnCircle
       DEF Arrival, Present
<1> HIDE DEF s
<1>1. CASE told'[l] => /\ told[l] /\ first'[l] = first[l] /\ front'[l] = front[l]
                       /\ trackState'[first[l]] = trackState[first[l]]
                       /\ stateCounter'[s] > 0 /\ reporting' # s
  BY <1>1, <1>a DEF Arrival, s
<1>2. CASE Layout
  <2>1. UNCHANGED <<told, first, trackState, stateCounter, reporting>>
    BY <1>2 DEF Layout, trackVars, trainVars
  <2>2. PICK f \in Feedbacks : At(f)
    BY <1>2 DEF Layout, At
  <2>3. told[l] => ~MoveFront(l, f)
    BY <1>0, <1>a, FrontIntoDestination DEF s
  <2>4. \A m \in Locos \ {l} : MoveFront(m, f) => front'[l] = front[l]
    BY <1>0, FrontMoves
  <2>5. told[l] => front'[l] = front[l]
    BY <2>2, <2>3, <2>4
       DEF At, MoveTail, LoseContact, RegainContact, PutWagon, TakeWagon
  <2> QED
    BY <1>1, <1>a, <2>1, <2>5
<1>3. CASE SetState
  <2>1. UNCHANGED <<told, first, front, trackState>>
    BY <1>3 DEF SetState, trackVars, trainVars, layoutVars
  <2>2. told[l] => stateCounter'[s] > 0 /\ reporting' # s
    BY <1>0, <1>3, <1>a, TakingExplains
  <2> QED
    BY <1>1, <2>1, <2>2
<1>4. ASSUME NEW g \in Feedbacks, Debounce(g) PROVE Arrival(l)'
  <2>1. UNCHANGED <<told, first, front, trackState, reporting>>
    BY <1>4 DEF Debounce, trackVars, trainVars, layoutVars
  <2>2. told[l] => stateCounter'[s] > 0
    BY <1>0, <1>4, <1>a, CountingExplains
  <2> QED
    BY <1>1, <1>a, <2>1, <2>2
<1>5. CASE Occupy
  <2> DEFINE t == TrackOf[reporting]
             m == locoBaseDelayed[t]
  <2>1. /\ UNCHANGED <<first, front, stateCounter>>
        /\ reporting' = Nowhere /\ reporting # Nowhere
        /\ trackState' = [trackState EXCEPT ![t] = "Occupied"]
        /\ m = None => told' = told
        /\ m # None => told' = [told EXCEPT ![m] =
             told[m] \/ (first[m] # None /\ reporting = StopFeedback(first[m]))]
    BY <1>5 DEF Occupy, layoutVars
  <2>2. /\ reporting \in Feedbacks /\ t \in Tracks
        /\ told \in [Locos -> BOOLEAN]
        /\ trackState \in [Tracks -> {"Free", "Occupied"}]
    BY <1>0, <2>1, LayoutTypes DEF Typed, TypeOK, FeedbackTypes, TrainTypes, TrackTypes
  <2> HIDE DEF t, m
  <2>3. told'[l] => \/ told[l]
                    \/ m = l /\ first[l] # None /\ reporting = s
    <3>1. CASE m = l
      <4>1. told'[l] = (told[l] \/ (first[l] # None /\ reporting = s))
        BY <1>0, <2>1, <2>2, <3>1 DEF s
      <4> QED
        BY <3>1, <4>1
    <3>2. CASE m # l
      BY <2>1, <2>2, <3>2
    <3> QED
      BY <3>1, <3>2
  <2>4. CASE told[l]
    <3>1. trackState'[first[l]] = "Occupied"
      BY <1>a, <2>1, <2>2, <2>4
    <3> QED
      BY <1>a, <2>1, <2>4, <3>1 DEF Arrival, s
  <2>5. CASE m = l /\ first[l] # None /\ reporting = s
    <3>1. first[l] \in Tracks /\ t = first[l] /\ s \in Feedbacks /\ s # Nowhere
      BY <1>0, <2>5, TrainTracks, StopLeaves, NowhereIsNoContact DEF s, t
    <3>2. Warm(s)
      BY <2>5 DEF Warm
    <3>3. PICK k \in Locos : locoBaseDelayed[t] = k /\ (Arriving(k, t) \/ Passed(k, t))
      BY <2>2, <3>1, <3>2 DEF TrainInvariant, StopExplained, s
    <3>4. Arriving(l, t)
      BY <2>5, <3>1, <3>3 DEF Passed, m
    <3>5. front[l] = s /\ stateCounter[s] > 0
      BY <2>5, <3>1, <3>4 DEF Arriving, s
    <3>6. trackState'[first[l]] = "Occupied"
      BY <2>1, <2>2, <3>1
    <3> QED
      BY <2>1, <3>1, <3>5, <3>6 DEF Arrival, s
  <2>6. CASE ~told'[l]
    BY <2>6 DEF Arrival
  <2> QED
    BY <2>3, <2>4, <2>5, <2>6
<1>6. CASE Clear
  <2>1. UNCHANGED <<told, first, front, stateCounter, reporting>>
    BY <1>6 DEF Clear, trainVars, layoutVars
  <2>2. told[l] => trackState'[first[l]] = trackState[first[l]]
    BY <1>6, <1>a, ClearKeepsDelayed DEF s
  <2> QED
    BY <1>1, <1>a, <2>1, <2>2
<1>7. ASSUME NEW m \in Locos, Automode(m) PROVE Arrival(l)'
  <2>1. UNCHANGED <<front, trackState, stateCounter, reporting>>
    BY <1>7 DEF Automode, Reserve, Execute, Depart, Refuse, StopReached, ReleaseTrack,
                Release, layoutVars, trackVars
  <2>2. told'[l] => told[l] /\ first'[l] = first[l]
    <3>1. told \in [Locos -> BOOLEAN] /\ first \in [Locos -> TrackOrNone]
      BY <1>0 DEF Typed, TypeOK, TrainTypes
    <3>2. CASE Depart(m)
      <4>1. told' = told /\ first' = [first EXCEPT ![m] = searching[m]]
        BY <3>2 DEF Depart
      <4>2. first[m] = None
        BY <3>2, <1>0 DEF Depart, Typed, Orderly
      <4>3. told[l] => l # m
        BY <1>0, <4>2 DEF Orderly
      <4> QED
        BY <3>1, <4>1, <4>3
    <3>3. CASE StopReached(m)
      <4>1. /\ told' = [told EXCEPT ![m] = FALSE]
            /\ first' = [first EXCEPT ![m] = None]
        BY <3>3 DEF StopReached
      <4> QED
        BY <3>1, <4>1
    <3>4. CASE Reserve(m) \/ Execute(m) \/ Refuse(m) \/ ReleaseTrack(m)
      BY <3>4 DEF Reserve, Execute, Refuse, ReleaseTrack
    <3> QED
      BY <1>7, <3>2, <3>3, <3>4 DEF Automode
  <2> QED
    BY <1>1, <1>a, <2>1, <2>2
<1>8. CASE UNCHANGED <<told, first, front, trackState, stateCounter, reporting>>
  BY <1>1, <1>8, <1>a
<1>9. PowerOn \/ (\E u \in Tracks : Unblock(u)) \/ UNCHANGED vars
      => UNCHANGED <<told, first, front, trackState, stateCounter, reporting>>
  BY DEF PowerOn, Unblock, vars, layoutVars, trackVars, trainVars
<1> QED
  BY <1>2, <1>3, <1>4, <1>5, <1>6, <1>7, <1>8, <1>9 DEF Next

LEMMA TrainNext == TrainInvariant /\ [Next]_vars => TrainInvariant'
<1> SUFFICES ASSUME TrainInvariant, [Next]_vars PROVE TrainInvariant'
  OBVIOUS
<1>0. /\ Typed /\ DelayedFits /\ AheadHeld /\ SensorInvariant
      /\ \A l \in Locos : Course(l) /\ Arrival(l) /\ StandHeld(l)
  BY DEF TrainInvariant
<1>1. Typed' /\ DelayedFits' /\ AheadHeld' /\ SensorInvariant'
  BY <1>0, TypedNext, FitKept, AheadKept, SensedKept
<1>2. \A l \in Locos : Course(l)' /\ StandHeld(l)'
  BY <1>0, CourseKept, StandKept
<1>3. \A l \in Locos : Arrival(l)'
  BY ArrivalKept
<1>4. TracksOwned'
  BY OwnedKept DEF TracksOwned
<1>5. \A t \in Tracks : StopExplained(t)'
  BY ExplainedKept
<1> QED
  BY <1>1, <1>2, <1>3, <1>4, <1>5 DEF TrainInvariant

LEMMA TrainInit == Init => TrainInvariant
<1> SUFFICES ASSUME Init PROVE TrainInvariant
  OBVIOUS
<1>1. Typed /\ DelayedFits /\ AheadHeld
  BY TypedInit, FitInit, AheadInit
<1>2. \A l \in Locos : /\ StartAt[l] \in Feedbacks
                       /\ TrackOf[StartAt[l]] \in Tracks
                       /\ StartAt[l] = StopFeedback(TrackOf[StartAt[l]])
                       /\ TrainOn(TrackOf[StartAt[l]]) = l
  <2>1. SUFFICES ASSUME NEW l \in Locos
                 PROVE  /\ StartAt[l] \in Feedbacks
                        /\ TrackOf[StartAt[l]] \in Tracks
                        /\ TrainOn(TrackOf[StartAt[l]]) = l
    BY TrainsAtStops
  <2>2. TrainOn(TrackOf[StartAt[l]]) = l
    BY TrainsApart DEF TrainOn
  <2> QED
    BY <2>2, LayoutTypes
<1>3. \A l \in Locos : Body(l) = {StartAt[l]}
  BY <1>2, StretchEnds DEF Init, Body
<1>4. \A f : ~Coming(wire, f)
  BY DEF Init, Coming
<1>5. SensorInvariant
  <2>1. ASSUME NEW f \in Feedbacks PROVE Sensed(f)
    <3>1. ~gap[f]
      BY DEF Init
    <3>2. Present(f) => f \in Standing
      BY <1>3, NowhereIsNoContact DEF Init, Present, Standing
    <3>3. f \in Standing => stateCounter[f] = MaxStateCounter /\ stateCounter[f] > 0
      BY LayoutTypes DEF Init
    <3>4. EndsClosed(wire, f)
      BY DEF Init, EndsClosed
    <3> QED
      BY <3>1, <3>2, <3>3, <3>4, ContactIs DEF Sensed
  <2> QED
    BY <2>1 DEF SensorInvariant, Init
<1>6. ASSUME NEW l \in Locos PROVE Course(l) /\ Arrival(l) /\ StandHeld(l)
  <2>1. /\ from[l] = TrackOf[StartAt[l]] /\ front[l] = StartAt[l]
        /\ first[l] = None /\ searching[l] = None /\ dropped[l] = None /\ ~told[l]
    BY DEF Init
  <2>2. lock[from[l]].owner = l
    BY <1>2, <2>1, NoneIsNoLoco DEF Init
  <2>3. Course(l)
    BY <1>2, <1>3, <2>1 DEF Course
  <2> QED
    BY <2>1, <2>2, <2>3 DEF Arrival, StandHeld
<1>7. TracksOwned
  BY <1>2, <1>3 DEF TracksOwned, Init
<1>8. ASSUME NEW t \in Tracks PROVE StopExplained(t)
  <2> DEFINE s == StopFeedback(t)
  <2>1. s \in Feedbacks /\ TrackOf[s] = t /\ s # Nowhere /\ None \notin Tracks
    BY StopLeaves, NowhereIsNoContact, LayoutTypes
  <2>2. SUFFICES ASSUME Warm(s)
                 PROVE  \E l \in Locos : locoBaseDelayed[t] = l /\ Passed(l, t)
    BY DEF StopExplained
  <2>3. s \in Standing
    BY <1>4, <2>1, <2>2 DEF Warm, Init
  <2>4. PICK l \in Locos : s = StartAt[l]
    BY <2>3 DEF Standing
  <2>5. TrainOn(t) = l
    BY <1>2, <2>1, <2>4
  <2>6. locoBaseDelayed[t] = l /\ trackState[t] = "Occupied"
    BY <2>5, NoneIsNoLoco DEF Init
  <2>7. stateCounter[s] > 0 /\ reporting # s /\ first[l] # t /\ searching[l] # t
    BY <2>1, <2>3, LayoutTypes DEF Init
  <2> QED
    BY <2>6, <2>7 DEF Passed
<1> QED
  BY <1>1, <1>5, <1>6, <1>7, <1>8 DEF TrainInvariant

LEMMA TrainAlways == Spec => []TrainInvariant
  BY TrainInit, TrainNext, PTL DEF Spec

(***************************************************************************)
(* Two trains are never in the same track (OneTrainPerTrack), on every       *)
(* circle of three tracks or more, for any number of trains that start on    *)
(* stop feedbacks: every track that a train is on keeps the train as its     *)
(* delayed owner, until Feedback::Debounce has counted the stop feedback of  *)
(* the track out.                                                            *)
(***************************************************************************)
THEOREM TrainsKeptApart == Spec => []OneTrainPerTrack
<1>1. TrainInvariant => OneTrainPerTrack
  <2> SUFFICES ASSUME TrainInvariant, NEW l \in Locos, NEW m \in Locos, l # m,
                      NEW t \in TracksUnder(l), t \in TracksUnder(m)
               PROVE  FALSE
    BY DEF OneTrainPerTrack
  <2>1. \A k \in Locos : t \in TracksUnder(k) => locoBaseDelayed[t] = k
    BY DEF TracksUnder, TrainInvariant, TracksOwned
  <2> QED
    BY <2>1
<1> QED
  BY <1>1, TrainAlways, PTL

(***************************************************************************)
(* The current is never cut by a feedback that lies under a train            *)
(* (NoFalseAlarm): Track::FeedbackStateInternal finds the delayed owner.     *)
(***************************************************************************)
THEOREM NoAlarmUnderTrains == Spec => NoFalseAlarm
<1>1. TrainInvariant /\ [Next]_vars
      => [booster = "Go" /\ booster' = "Stop" =>
            \A l \in Locos : reporting \notin Body(l)]_vars
  <2> SUFFICES ASSUME TrainInvariant, Next, booster = "Go", booster' = "Stop",
                      NEW l \in Locos, reporting \in Body(l)
               PROVE  FALSE
    BY DEF vars
  <2>1. locoBaseDelayed[TrackOf[reporting]] = l /\ l # None
    BY NoneIsNoLoco DEF TrainInvariant, TracksOwned
  <2>2. Occupy
    BY DEF Next, Layout, SetState, Debounce, Clear, Automode, Reserve, Execute, Depart,
           Refuse, StopReached, ReleaseTrack, Unblock, PowerOn
  <2> QED
    BY <2>1, <2>2 DEF Occupy
<1> QED
  BY <1>1, TrainAlways, PTL DEF Spec, NoFalseAlarm

=============================================================================
