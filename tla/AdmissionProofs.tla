-------------------------- MODULE AdmissionProofs ---------------------------
(***************************************************************************)
(* Theorems about module Admission, for every layout, trackgroup and set of  *)
(* counters and any number of trains.                                        *)
(*                                                                           *)
(* Typing comes first: whoever is under way has a route.  Then the protocol  *)
(* of the orientationMutex (GroupInvariant), from which it follows that the  *)
(* tracks of a group agree and that no train is turned that was there before. *)
(* The last part is about the counters: a train's trip (Trip) and what has   *)
(* been counted for it (Counted).                                            *)
(***************************************************************************)
EXTENDS Admission, TLAPS, FiniteSetTheorems

(***************************************************************************)
(* The operators of a lock keep its type.                                    *)
(***************************************************************************)
LEMMA LockOperators ==
  ASSUME NEW k \in Locks, NEW l \in Locos
  PROVE  /\ Reserved(k, l) \in Locks
         /\ Locked(k) \in Locks
         /\ Released(k, l) \in Locks
         /\ FreeLock \in Locks
  BY DEF Locks, LockStates, Owners, Reserved, Locked, Released, FreeLock

(***************************************************************************)
(* Typing, from the moves of a thread to its actions.                        *)
(***************************************************************************)
LEMMA GotoTyped ==
  ASSUME TypeOK, NEW t \in Threads, NEW site \in Sites, Goto(t, site)
  PROVE  /\ at' \in [Threads -> Sites]
         /\ step' \in [Threads -> {"call", "inspect", "turn"}]
         /\ index' \in [Threads -> Nat \ {0}]
         /\ at'[t] = site
         /\ \A u \in Threads : u # t => at'[u] = at[u]
  BY DEF TypeOK, ThreadTypes, Goto

\* A locomotive that moves to a site where it needs a route has one.
LEMMA LocoMoves ==
  ASSUME TypeOK, NEW l \in Locos, NEW site \in Sites \ {"turnTrack"},
         Goto(l, site), work' \in [Locos -> Routes \cup {None}],
         \A m \in Locos : m # l => work'[m] = work[m],
         site \notin {"idle", "giveBack"} => work'[l] \in Routes
  PROVE  WorkOK'
<1>1. l # Operator /\ l \in Threads
  BY LayoutTypes DEF Threads
<1>2. at'[l] = site /\ \A u \in Threads : u # l => at'[u] = at[u]
  BY <1>1, GotoTyped
<1> QED
  BY <1>1, <1>2 DEF TypeOK, WorkOK, Threads

LEMMA NothingMoves ==
  ASSUME TypeOK, UNCHANGED <<at, work>>
  PROVE  WorkOK'
  BY DEF TypeOK, WorkOK

LEMMA Asking ==
  ASSUME TypeOK, NEW t \in Threads, at[t] \in CanSites \cup SetSites
  PROVE  /\ AskedTrack(t) \in Tracks
         /\ AskedOrientation(t) \in BOOLEAN
         /\ Wanted(t) \in BOOLEAN
         /\ AskedFor(t) \in Owners
         /\ at[t] # "turnTrack" => t \in Locos /\ work[t] \in Routes
         /\ at[t] = "turnTrack" => t = Operator
<1>1. at[t] # "turnTrack" => t \in Locos /\ work[t] \in Routes
  BY DEF TypeOK, WorkOK, Threads, CanSites, SetSites
<1>2. AskedTrack(t) \in Tracks /\ AskedOrientation(t) \in BOOLEAN
  BY <1>1, LayoutTypes DEF AskedTrack, AskedOrientation, TypeOK, ThreadTypes
<1>3. Wanted(t) \in BOOLEAN
  BY DEF Wanted
<1>4. AskedFor(t) \in Owners
  BY <1>1, <1>2 DEF AskedFor, TypeOK, Locks, Owners
<1> QED
  BY <1>1, <1>2, <1>3, <1>4 DEF TypeOK, WorkOK, Threads

LEMMA NoTurnTyped == NoTurn \in [track : Tracks, orientation : BOOLEAN]
<1>1. Group[1] \in Tracks
  BY LayoutTypes
<1>2. [track |-> Group[1], orientation |-> TRUE] \in [track : Tracks, orientation : BOOLEAN]
  BY <1>1
<1> QED
  BY <1>2 DEF NoTurn

LEMMA GrantedTyped ==
  ASSUME TypeOK, NEW t \in Threads, at[t] \in CanSites \cup SetSites,
         Granted(t), UNCHANGED <<from, work, caller>>
  PROVE  ThreadTypes' /\ WorkOK'
<1>1. PICK site \in Sites : Goto(t, site) /\ (site = "turnTrack" => FALSE)
        /\ (at[t] = "turnTrack" => site = "idle")
  BY DEF Granted, Sites, CanSites, SetSites
<1>2. /\ at[t] # "turnTrack" => t \in Locos /\ work[t] \in Routes
      /\ at[t] = "turnTrack" => t = Operator
  BY Asking
<1>3. entry' \in [Locos -> Routes \cup {None}]
  BY <1>2 DEF Granted, TypeOK, ThreadTypes
<1>4. turned' \in [track : Tracks, orientation : BOOLEAN]
  BY NoTurnTyped DEF Granted, TypeOK, ThreadTypes
<1>5. giveBack' \in [Locos -> Seq(Tracks \cup Routes)]
  BY DEF Granted, TypeOK, ThreadTypes
<1>6. ThreadTypes'
  BY <1>1, <1>3, <1>4, <1>5, GotoTyped DEF TypeOK, ThreadTypes
<1>7. WorkOK'
  <2>1. CASE at[t] # "turnTrack"
    BY <2>1, <1>1, <1>2, LocoMoves DEF TypeOK, ThreadTypes
  <2>2. CASE at[t] = "turnTrack"
    BY <2>2, <1>1, <1>2, GotoTyped, LayoutTypes DEF TypeOK, WorkOK, Threads
  <2> QED
    BY <2>1, <2>2
<1> QED
  BY <1>6, <1>7

LEMMA UndoTyped ==
  ASSUME TypeOK, NEW l \in Locos, NEW items \in Seq(Tracks \cup Routes),
         Undo(l, items)
  PROVE  /\ at' \in [Threads -> Sites]
         /\ step' \in [Threads -> {"call", "inspect", "turn"}]
         /\ index' \in [Threads -> Nat \ {0}]
         /\ giveBack' \in [Locos -> Seq(Tracks \cup Routes)]
         /\ Goto(l, "giveBack")
<1>1. l \in Threads /\ "giveBack" \in Sites
  BY DEF Threads, Sites
<1>2. Goto(l, "giveBack")
  BY DEF Undo
<1> QED
  BY <1>1, <1>2, GotoTyped DEF Undo, TypeOK, ThreadTypes

LEMMA RefusedTyped ==
  ASSUME TypeOK, NEW t \in Threads, at[t] \in CanSites \cup SetSites,
         Refused(t), UNCHANGED <<from, work, caller>>
  PROVE  ThreadTypes' /\ WorkOK'
<1>1. /\ at[t] # "turnTrack" => t \in Locos /\ work[t] \in Routes
      /\ at[t] = "turnTrack" => t = Operator
  BY Asking
<1>2. turned' \in [track : Tracks, orientation : BOOLEAN]
  BY NoTurnTyped DEF Refused, TypeOK, ThreadTypes
<1>3. entry' \in [Locos -> Routes \cup {None}]
  BY DEF Refused, TypeOK, ThreadTypes
<1>4. CASE at[t] # "turnTrack"
  <2>1. t \in Locos /\ work[t] \in Routes /\ To[work[t]] \in Tracks
    BY <1>1, <1>4, LayoutTypes
  <2> DEFINE X == Tracks \cup Routes
  <2>a. <<work[t]>> \in Seq(X) /\ <<work[t], To[work[t]]>> \in Seq(X) /\ <<>> \in Seq(X)
    BY <2>1
  <2>b. \/ Undo(t, <<work[t]>>) \/ Undo(t, <<work[t], To[work[t]]>>)
        \/ Undo(t, <<>>)
    BY <1>4 DEF Refused
  <2>2. PICK items \in Seq(X) : Undo(t, items)
    BY ONLY <2>a, <2>b, Zenon
  <2>3. "giveBack" \in Sites \ {"turnTrack"}
    BY DEF Sites
  <2>4. ThreadTypes'
    BY <2>1, <2>2, <1>2, <1>3, UndoTyped DEF TypeOK, ThreadTypes
  <2>5. WorkOK'
    BY <2>1, <2>2, <2>3, UndoTyped, LocoMoves DEF TypeOK, ThreadTypes
  <2> QED
    BY <2>4, <2>5
<1>5. CASE at[t] = "turnTrack"
  <2>1. Goto(t, "idle") /\ UNCHANGED giveBack /\ "idle" \in Sites
    BY <1>5 DEF Refused, Sites
  <2>2. ThreadTypes'
    BY <2>1, <1>2, <1>3, GotoTyped DEF TypeOK, ThreadTypes
  <2>3. WorkOK'
    BY <2>1, <1>5, <1>1, GotoTyped, LayoutTypes DEF TypeOK, WorkOK, Threads
  <2> QED
    BY <2>2, <2>3
<1> QED
  BY <1>4, <1>5

(***************************************************************************)
(* The steps of a call.  Who is inside the cluster has called it, and turns  *)
(* tracks only in a call that sets the orientation.                          *)
(***************************************************************************)
StepOK(t) ==
  /\ step[t] # "call" => at[t] \in CanSites \cup SetSites
  /\ step[t] = "turn" => at[t] \in SetSites

Typed == TypeOK /\ \A t \in Threads : StepOK(t)

\* A thread that moves is outside the cluster, the others stay where they are.
LEMMA MovesOut ==
  ASSUME Typed, NEW t \in Threads, NEW site \in Sites, Goto(t, site)
  PROVE  \A u \in Threads : StepOK(u)'
  BY DEF Typed, TypeOK, ThreadTypes, StepOK, Goto

LEMMA StaysIn ==
  ASSUME Typed, UNCHANGED <<at, step>>
  PROVE  \A u \in Threads : StepOK(u)'
  BY DEF Typed, StepOK

\* The end of a call, granted or not, is a move.
LEMMA CallEnds ==
  ASSUME TypeOK, NEW t \in Threads, Granted(t) \/ Refused(t)
  PROVE  \E site \in Sites : Goto(t, site)
<1>1. CASE Granted(t)
  BY <1>1 DEF Granted, Sites, CanSites, SetSites
<1>2. CASE Refused(t)
  BY <1>2 DEF Refused, Undo, Sites
<1> QED
  BY <1>1, <1>2

LEMMA Tuples ==
  ASSUME TypeOK
  PROVE  ClusterTypes /\ CountTypes /\ ThreadTypes /\ WorkOK
         /\ lock \in [Tracks \cup Routes -> Locks]
  BY DEF TypeOK

LEMMA ClusterTyped ==
  ASSUME Typed, NEW t \in Threads, ClusterStep(t)
  PROVE  TypeOK'
<1> TypeOK
  BY DEF Typed
<1> USE Tuples
<1>1. CASE AskNobody(t)
  <2>1. ThreadTypes' /\ WorkOK'
    BY <1>1, GrantedTyped DEF AskNobody, Calls
  <2>2. UNCHANGED <<lock, clusterVars, countVars>>
    BY <1>1 DEF AskNobody
  <2> QED
    BY <2>1, <2>2 DEF TypeOK, ClusterTypes, CountTypes, clusterVars, countVars
<1>2. CASE AskTrack(t)
  <2>1. at[t] \in CanSites \cup SetSites
    BY <1>2 DEF AskTrack, Calls
  <2>2. Granted(t) \/ Refused(t)
    BY <1>2 DEF AskTrack
  <2>3. UNCHANGED <<from, work, caller, lock, countVars, direction,
                    orientationMutex, asker, settled>>
    BY <1>2 DEF AskTrack
  <2>4. ThreadTypes' /\ WorkOK'
    BY <2>1, <2>2, <2>3, GrantedTyped, RefusedTyped
  <2>5. orientation' \in [Tracks -> BOOLEAN]
    BY <1>2, <2>1, Asking DEF AskTrack, ClusterTypes
  <2> QED
    BY <2>3, <2>4, <2>5 DEF TypeOK, ClusterTypes, CountTypes, countVars
<1>3. CASE AskCluster(t)
  <2>1. at[t] \in CanSites \cup SetSites
    BY <1>3 DEF AskCluster, Calls
  <2>2. asker' \in [Threads -> Owners]
    BY <1>3, <2>1, Asking DEF AskCluster, ClusterTypes
  <2>3. settled' \subseteq Tracks
    BY <1>3, LayoutTypes DEF AskCluster, GroupTracks
  <2>4. step' \in [Threads -> {"call", "inspect", "turn"}]
    BY <1>3 DEF AskCluster, ThreadTypes
  <2>5. UNCHANGED <<lock, orientation, direction, countVars, from, entry,
                    work, caller, at, index, turned, giveBack>>
        /\ orientationMutex' = t
    BY <1>3 DEF AskCluster
  <2> QED
    BY <2>2, <2>3, <2>4, <2>5, NothingMoves
    DEF TypeOK, ClusterTypes, CountTypes, ThreadTypes, countVars
<1>4. CASE Inspect(t) /\ at[t] \in CanSites \cup SetSites
  <2>1. UNCHANGED <<lock, countVars, from, work, caller, orientation>>
    BY <1>4 DEF Inspect
  <2>2. direction' \in BOOLEAN
    BY <1>4, Asking DEF Inspect, ClusterTypes
  <2>3. /\ orientationMutex' \in Threads \cup {None}
        /\ asker' \in [Threads -> Owners]
        /\ settled' \subseteq Tracks
    BY <1>4 DEF Inspect, LeaveCluster, ClusterTypes, Owners
  <2>4. ThreadTypes' /\ WorkOK'
    <3>1. CASE Granted(t) \/ Refused(t)
      BY <3>1, <1>4, <2>1, GrantedTyped, RefusedTyped
    <3>2. CASE /\ UNCHANGED <<at, entry, turned, giveBack>>
               /\ step' = [step EXCEPT ![t] = "turn"] \/ UNCHANGED step
               /\ \/ index' = [index EXCEPT ![t] = 1]
                  \/ index' = [index EXCEPT ![t] = index[t] + 1]
      <4>1. index' \in [Threads -> Nat \ {0}]
        BY <3>2 DEF ThreadTypes
      <4>2. step' \in [Threads -> {"call", "inspect", "turn"}]
        BY <3>2 DEF ThreadTypes
      <4> QED
        BY <3>2, <4>1, <4>2, <2>1, NothingMoves DEF ThreadTypes
    <3> QED
      BY <3>1, <3>2, <1>4 DEF Inspect
  <2> QED
    BY <2>1, <2>2, <2>3, <2>4 DEF TypeOK, ClusterTypes, CountTypes, countVars
<1>5. CASE Turn(t) /\ at[t] \in CanSites \cup SetSites
  <2>1. UNCHANGED <<lock, direction, countVars, from, work, caller>>
    BY <1>5 DEF Turn
  <2>2. orientation' \in [Tracks -> BOOLEAN]
    BY <1>5 DEF Turn, ClusterTypes
  <2>3. /\ orientationMutex' \in Threads \cup {None}
        /\ asker' \in [Threads -> Owners]
        /\ settled' \subseteq Tracks
    BY <1>5 DEF Turn, LeaveCluster, ClusterTypes, Owners
  <2>4. ThreadTypes' /\ WorkOK'
    <3>1. CASE Granted(t)
      BY <3>1, <1>5, <2>1, GrantedTyped
    <3>2. CASE /\ UNCHANGED <<at, step, entry, turned, giveBack>>
               /\ index' = [index EXCEPT ![t] = index[t] + 1]
      <4>1. index' \in [Threads -> Nat \ {0}]
        BY <3>2 DEF ThreadTypes
      <4> QED
        BY <3>2, <4>1, <2>1, NothingMoves DEF ThreadTypes
    <3> QED
      BY <3>1, <3>2, <1>5 DEF Turn
  <2> QED
    BY <2>1, <2>2, <2>3, <2>4 DEF TypeOK, ClusterTypes, CountTypes, countVars
<1> QED
  BY <1>1, <1>2, <1>3, <1>4, <1>5 DEF ClusterStep, Inspect, Turn, Typed, StepOK

LEMMA ClusterSteps ==
  ASSUME Typed, NEW t \in Threads, ClusterStep(t)
  PROVE  \A u \in Threads : StepOK(u)'
<1> TypeOK
  BY DEF Typed
<1>1. CASE \E site \in Sites : Goto(t, site)
  BY <1>1, MovesOut
<1>2. CASE UNCHANGED <<at, step>>
  BY <1>2, StaysIn
<1>3. CASE AskCluster(t)
  BY <1>3 DEF AskCluster, Calls, Typed, TypeOK, ThreadTypes, StepOK
<1>4. CASE at[t] \in SetSites /\ step' = [step EXCEPT ![t] = "turn"] /\ UNCHANGED at
  BY <1>4 DEF Typed, TypeOK, ThreadTypes, StepOK
<1>5. CASE Granted(t) \/ Refused(t)
  BY <1>5, <1>1, CallEnds
<1> QED
  BY <1>2, <1>3, <1>4, <1>5
  DEF ClusterStep, AskNobody, AskTrack, Inspect, Turn

(***************************************************************************)
(* The steps of the automode thread and of the operator.                     *)
(***************************************************************************)
LEMMA ReserveTyped ==
  ASSUME TypeOK, NEW l \in Locos, NEW r \in Routes,
         NEW who \in {"search", "timetable"}, ReserveRoute(l, r, who)
  PROVE  /\ lock' \in [Tracks \cup Routes -> Locks]
         /\ work' \in [Locos -> Routes \cup {None}]
         /\ caller' \in [Locos -> {"search", "timetable"}]
         /\ Goto(l, "reserveCan") /\ WorkOK'
<1>1. Goto(l, "reserveCan") /\ "reserveCan" \in Sites \ {"turnTrack"}
  BY DEF ReserveRoute, Sites, CanSites
<1>2. /\ work' \in [Locos -> Routes \cup {None}]
      /\ work'[l] = r /\ \A m \in Locos : m # l => work'[m] = work[m]
  BY Tuples DEF ReserveRoute, ThreadTypes
<1>3. caller' \in [Locos -> {"search", "timetable"}]
  BY Tuples DEF ReserveRoute, ThreadTypes
<1>4. lock' \in [Tracks \cup Routes -> Locks]
  BY Tuples, LockOperators DEF ReserveRoute
<1>5. WorkOK'
  BY <1>1, <1>2, LocoMoves
<1> QED
  BY <1>1, <1>2, <1>3, <1>4, <1>5

\* The lists of what is given back.
LEMMA Lists ==
  ASSUME NEW r \in Routes, NEW x \in Tracks
  PROVE  /\ <<>> \in Seq(Tracks \cup Routes)
         /\ <<r>> \in Seq(Tracks \cup Routes)
         /\ <<r, x>> \in Seq(Tracks \cup Routes)
         /\ <<x, r>> \in Seq(Tracks \cup Routes)
  OBVIOUS

\* A thread goes through a list; a counter goes up or down.
LEMMA IndexMoves ==
  ASSUME TypeOK, NEW t \in Threads,
         \/ index' = [index EXCEPT ![t] = index[t] + 1]
         \/ index' = [index EXCEPT ![t] = 1]
  PROVE  index' \in [Threads -> Nat \ {0}]
<1>1. index \in [Threads -> Nat \ {0}]
  BY DEF TypeOK, ThreadTypes
<1>2. index[t] \in Nat \ {0}
  BY <1>1
<1>3. index[t] + 1 \in Nat \ {0} /\ 1 \in Nat \ {0}
  BY <1>2
<1> QED
  BY <1>1, <1>3

LEMMA CounterMoves ==
  ASSUME TypeOK, NEW c \in Counters, Count(c) \/ CountDown(c)
  PROVE  counter' \in [Counters -> Nat]
<1>1. counter \in [Counters -> Nat]
  BY DEF TypeOK, CountTypes
<1>2. counter[c] \in Nat
  BY <1>1
<1>3. counter[c] + 1 \in Nat /\ (counter[c] > 0 => counter[c] - 1 \in Nat)
  BY <1>2
<1>4. CASE Count(c)
  BY <1>1, <1>3, <1>4 DEF Count
<1>5. CASE CountDown(c)
  BY <1>1, <1>2, <1>3, <1>5 DEF CountDown
<1> QED
  BY <1>4, <1>5

\* The counters of a route, by their place in its list.
LEMMA CounterOf ==
  ASSUME TypeOK, NEW r \in Routes, NEW t \in Threads, index[t] <= Len(Counts[r])
  PROVE  Counts[r][index[t]] \in Counters
<1>1. index[t] \in Nat \ {0} /\ Counts[r] \in Seq(Counters)
  BY LayoutTypes DEF TypeOK, ThreadTypes
<1> QED
  BY <1>1

LEMMA LocoTyped ==
  ASSUME TypeOK, NEW l \in Locos, LocoStep(l)
  PROVE  TypeOK'
<1> USE Tuples
<1> DEFINE r == work[l]
<1>0. l \in Threads /\ l # Operator
  BY LayoutTypes DEF Threads
<1>a. at[l] \notin {"idle", "giveBack"} => r \in Routes /\ To[r] \in Tracks
  BY LayoutTypes DEF WorkOK
<1>b. {"idle", "giveBack", "reserveCan", "reserveSet", "searchCan", "decide",
       "execute", "prepareTo"} \subseteq Sites \ {"turnTrack"}
  BY DEF Sites, CanSites, SetSites
<1>1. ASSUME NEW q \in Routes, Search(l, q) PROVE TypeOK'
  <2>1. ReserveRoute(l, q, "search")
        /\ UNCHANGED <<clusterVars, countVars, from, entry, turned, giveBack>>
    BY <1>1 DEF Search
  <2> QED
    BY <2>1, <1>0, <1>b, ReserveTyped, GotoTyped
    DEF TypeOK, ClusterTypes, CountTypes, ThreadTypes, clusterVars, countVars
<1>2. CASE TryAgain(l)
  <2>1. Goto(l, "decide") /\ UNCHANGED <<lock, clusterVars, countVars, from,
          entry, caller, turned, giveBack>>
    BY <1>2 DEF TryAgain
  <2>2. /\ work' \in [Locos -> Routes \cup {None}]
        /\ work'[l] \in Routes /\ \A m \in Locos : m # l => work'[m] = work[m]
    BY <1>2 DEF TryAgain, ThreadTypes
  <2>3. WorkOK'
    BY <2>1, <2>2, <1>b, LocoMoves
  <2> QED
    BY <2>1, <2>2, <2>3, <1>0, <1>b, GotoTyped
    DEF TypeOK, ClusterTypes, CountTypes, ThreadTypes, clusterVars, countVars
\* What follows changes neither the group nor the work of the thread.
<1> DEFINE Quiet == UNCHANGED <<clusterVars, work, caller, turned>>
<1>c. ASSUME Quiet, lock' \in [Tracks \cup Routes -> Locks], CountTypes',
             from' \in [Locos -> Tracks],
             entry' \in [Locos -> Routes \cup {None}],
             \/ \E items \in Seq(Tracks \cup Routes) : Undo(l, items)
             \/ /\ UNCHANGED giveBack
                /\ \E site \in Sites \ {"turnTrack", "idle"} : Goto(l, site)
                /\ r \in Routes
      PROVE  TypeOK'
  <2>1. CASE \E items \in Seq(Tracks \cup Routes) : Undo(l, items)
    <3>1. WorkOK'
      BY <2>1, <1>c, <1>b, UndoTyped, LocoMoves DEF ThreadTypes
    <3> QED
      BY <2>1, <3>1, <1>c, UndoTyped
      DEF TypeOK, ClusterTypes, ThreadTypes, clusterVars
  <2>2. CASE UNCHANGED giveBack /\ r \in Routes
             /\ \E site \in Sites \ {"turnTrack", "idle"} : Goto(l, site)
    <3>1. PICK site \in Sites \ {"turnTrack", "idle"} : Goto(l, site)
      BY <2>2
    <3>2. WorkOK'
      <4>1. /\ work' \in [Locos -> Routes \cup {None}] /\ work' = work
            /\ work'[l] \in Routes
        BY <1>c, <2>2 DEF ThreadTypes
      <4> QED
        BY <3>1, <4>1, LocoMoves
    <3> QED
      BY <2>2, <3>1, <3>2, <1>c, <1>0, GotoTyped
      DEF TypeOK, ClusterTypes, ThreadTypes, clusterVars
  <2> QED
    BY <1>c, <2>1, <2>2
<1>3. CASE ReserveTrack(l)
  <2>1. Quiet /\ UNCHANGED <<countVars, from, entry>> /\ r \in Routes
    BY <1>3, <1>a DEF ReserveTrack
  <2>2. lock' \in [Tracks \cup Routes -> Locks]
    BY <1>3, <1>a, LockOperators DEF ReserveTrack
  <2>3. (Goto(l, "reserveSet") /\ UNCHANGED giveBack) \/ Undo(l, <<r>>)
    BY <1>3 DEF ReserveTrack
  <2> QED
    BY <2>1, <2>2, <2>3, <1>a, <1>b, <1>c, <1>3, Lists
    DEF CountTypes, ThreadTypes, countVars, ReserveTrack
<1>4. CASE ReserveCounters(l)
  <2>1. Quiet /\ UNCHANGED <<countVars, from, entry, lock>> /\ r \in Routes
    BY <1>4, <1>a DEF ReserveCounters
  <2>2. (Goto(l, "searchCan") /\ UNCHANGED giveBack) \/ Undo(l, <<To[r], r>>)
    BY <1>4 DEF ReserveCounters
  <2> QED
    BY <2>1, <2>2, <1>a, <1>b, <1>c, <1>4, Lists
    DEF CountTypes, ThreadTypes, countVars, ReserveCounters
<1>5. CASE Decide(l)
  <2>1. /\ UNCHANGED <<clusterVars, countVars, from, entry, turned>>
        /\ r \in Routes /\ To[r] \in Tracks
    BY <1>5, <1>a DEF Decide
  <2>2. CASE ReserveRoute(l, r, "timetable") /\ UNCHANGED giveBack
    BY <2>1, <2>2, <1>0, <1>b, ReserveTyped, GotoTyped
    DEF TypeOK, ClusterTypes, CountTypes, ThreadTypes, clusterVars, countVars
  <2>3. CASE UNCHANGED <<work, caller>>
    <3>1. lock' \in [Tracks \cup Routes -> Locks]
      <4>1. \/ UNCHANGED lock
            \/ lock' = [lock EXCEPT ![r] = Reserved(lock[r], l)]
            \/ lock' = [lock EXCEPT ![r] = Locked(lock[r])]
            \/ lock' = [lock EXCEPT ![r] = Locked(@), ![To[r]] = Locked(@)]
        BY <1>5, <2>3 DEF Decide, ReserveRoute
      <4> QED
        BY <4>1, <2>1, LockOperators
    <3>2. \/ Goto(l, "execute") /\ UNCHANGED giveBack
          \/ Undo(l, <<>>) \/ Undo(l, <<r>>) \/ Undo(l, <<To[r], r>>)
          \/ Goto(l, "reserveCan") /\ UNCHANGED giveBack
      BY <1>5 DEF Decide, ReserveRoute
    <3> QED
      BY <2>1, <2>3, <3>1, <3>2, <1>b, <1>c, Lists
      DEF CountTypes, ThreadTypes, countVars
  <2> QED
    BY <1>5, <2>2, <2>3 DEF Decide
<1>6. CASE Execute(l)
  <2>1. Quiet /\ UNCHANGED <<lock, from>> /\ r \in Routes /\ To[r] \in Tracks
    BY <1>6, <1>a DEF Execute
  <2>2. CASE Undo(l, <<r, To[r]>>) /\ UNCHANGED <<countVars, entry>>
    BY <2>1, <2>2, <1>c, Lists DEF CountTypes, ThreadTypes, countVars
  <2>3. CASE /\ executeAtUnlock' =
                 [executeAtUnlock EXCEPT ![r] = @ \/ InUse(lock[r])]
             /\ entry' = [entry EXCEPT ![l] = None]
             /\ Goto(l, "prepareTo") /\ UNCHANGED <<counter, giveBack>>
    BY <2>1, <2>3, <1>b, <1>c DEF CountTypes, ThreadTypes, InUse
  <2>4. CASE /\ index[l] <= Len(Counts[r])
             /\ Count(Counts[r][index[l]])
             /\ index' = [index EXCEPT ![l] = @ + 1]
             /\ UNCHANGED <<executeAtUnlock, at, step, giveBack, entry>>
    <3>1. Counts[r][index[l]] \in Counters
      BY <2>1, <2>4, <1>0, CounterOf
    <3>2. counter' \in [Counters -> Nat]
      BY <3>1, <2>4, CounterMoves
    <3>3. index' \in [Threads -> Nat \ {0}]
      BY <2>4, <1>0, IndexMoves
    <3>4. CountTypes'
      BY <2>4, <3>2 DEF CountTypes
    <3>5. ClusterTypes'
      BY <2>1 DEF ClusterTypes, clusterVars
    <3>6. ThreadTypes'
      BY <2>1, <2>4, <3>3 DEF ThreadTypes
    <3>7. WorkOK'
      BY <2>1, <2>4, NothingMoves
    <3> QED
      BY <2>1, <3>4, <3>5, <3>6, <3>7 DEF TypeOK
  <2> QED
    BY <1>6, <2>2, <2>3, <2>4 DEF Execute
<1>7. CASE Arrive(l)
  <2>1. Quiet /\ UNCHANGED <<lock, countVars, entry>> /\ r \in Routes
        /\ To[r] \in Tracks
    BY <1>7, <1>a DEF Arrive
  <2>2. from' \in [Locos -> Tracks] /\ from[l] \in Tracks
    BY <1>7, <2>1 DEF Arrive, ThreadTypes
  <2>3. Undo(l, <<r>>) \/ Undo(l, <<from[l], r>>)
    BY <1>7 DEF Arrive
  <2> QED
    BY <2>1, <2>2, <2>3, <1>c, Lists DEF CountTypes, ThreadTypes, countVars
<1>8. CASE GiveBack(l)
  <2> DEFINE x == Head(giveBack[l])
  <2>1. x \in Tracks \cup Routes /\ Tail(giveBack[l]) \in Seq(Tracks \cup Routes)
    BY <1>8 DEF GiveBack, ThreadTypes
  <2>2. UNCHANGED <<orientation, direction, orientationMutex, asker, from,
                    entry, work, caller, at, step, turned>>
    BY <1>8 DEF GiveBack
  <2>a. \/ index' = [index EXCEPT ![l] = index[l] + 1]
        \/ index' = [index EXCEPT ![l] = 1]
    BY <1>8 DEF GiveBack
  <2>3. index' \in [Threads -> Nat \ {0}]
    BY <2>a, <1>0, IndexMoves
  <2>4. CASE /\ x \in Routes /\ index[l] <= Len(Counts[x])
             /\ CountDown(Counts[x][index[l]])
             /\ UNCHANGED <<lock, executeAtUnlock, giveBack, settled>>
    <3>1. counter' \in [Counters -> Nat]
      BY <2>4, <1>0, CounterOf, CounterMoves
    <3> QED
      BY <2>2, <2>3, <2>4, <3>1, NothingMoves
      DEF TypeOK, ClusterTypes, CountTypes, ThreadTypes
  <2>5. CASE /\ lock' = [lock EXCEPT ![x] = Released(@, l)]
             /\ executeAtUnlock' = [q \in Routes |-> executeAtUnlock[q] /\ q # x]
             /\ settled' = IF CanRelease(lock[x], l) THEN settled \ {x} ELSE settled
             /\ giveBack' = [giveBack EXCEPT ![l] = Tail(@)]
             /\ UNCHANGED counter
    <3>1. lock' \in [Tracks \cup Routes -> Locks]
      BY <2>1, <2>5, LockOperators
    <3>2. executeAtUnlock' \in [Routes -> BOOLEAN]
      BY <2>5
    <3>3. settled' \subseteq Tracks
      BY <2>5 DEF ClusterTypes
    <3>4. giveBack' \in [Locos -> Seq(Tracks \cup Routes)]
      BY <2>1, <2>5 DEF ThreadTypes
    <3> QED
      BY <2>2, <2>3, <2>5, <3>1, <3>2, <3>3, <3>4, NothingMoves
      DEF TypeOK, ClusterTypes, CountTypes, ThreadTypes
  <2> QED
    BY <1>8, <2>4, <2>5 DEF GiveBack
<1>9. CASE GivenBack(l)
  <2>1. Goto(l, "idle") /\ UNCHANGED <<lock, clusterVars, countVars, from,
          entry, turned, giveBack>>
    BY <1>9 DEF GivenBack
  <2>2. /\ work' \in [Locos -> Routes \cup {None}]
        /\ caller' \in [Locos -> {"search", "timetable"}]
        /\ \A m \in Locos : m # l => work'[m] = work[m]
    BY <1>9 DEF GivenBack, ThreadTypes
  <2>3. WorkOK'
    BY <2>1, <2>2, <1>b, LocoMoves
  <2> QED
    BY <2>1, <2>2, <2>3, <1>0, <1>b, GotoTyped
    DEF TypeOK, ClusterTypes, CountTypes, ThreadTypes, clusterVars, countVars
<1> QED
  BY <1>1, <1>2, <1>3, <1>4, <1>5, <1>6, <1>7, <1>8, <1>9 DEF LocoStep

LEMMA LocoSteps ==
  ASSUME Typed, NEW l \in Locos, LocoStep(l)
  PROVE  \A u \in Threads : StepOK(u)'
<1>0. l \in Threads
  BY DEF Threads
<1>1. CASE \E site \in Sites : Goto(l, site)
  BY <1>0, <1>1, MovesOut
<1>2. CASE UNCHANGED <<at, step>>
  BY <1>2, StaysIn
<1>b. {"idle", "giveBack", "reserveCan", "reserveSet", "searchCan", "decide",
       "execute", "prepareTo"} \subseteq Sites
  BY DEF Sites, CanSites, SetSites
<1>3. ASSUME NEW q \in Routes, Search(l, q) PROVE \E site \in Sites : Goto(l, site)
  BY <1>3, <1>b DEF Search, ReserveRoute
<1>4. CASE TryAgain(l) \/ GivenBack(l) \/ Arrive(l) \/ ReserveTrack(l)
           \/ ReserveCounters(l)
  BY <1>4, <1>1, <1>b
  DEF TryAgain, GivenBack, Arrive, ReserveTrack, ReserveCounters, Undo
<1>5. CASE Decide(l)
  BY <1>5, <1>1, <1>b DEF Decide, ReserveRoute, Undo
<1>6. CASE Execute(l) \/ GiveBack(l)
  BY <1>6, <1>1, <1>2, <1>b DEF Execute, GiveBack, Undo
<1> QED
  BY <1>1, <1>3, <1>4, <1>5, <1>6 DEF LocoStep

LEMMA TurnTrackTyped ==
  ASSUME Typed, NEW x \in ByHand, NEW o \in BOOLEAN, TurnTrack(x, o)
  PROVE  Typed'
<1>0. Operator \in Threads /\ Operator \notin Locos /\ "turnTrack" \in Sites
  BY LayoutTypes DEF Threads, Sites, SetSites
<1>1. TypeOK /\ Goto(Operator, "turnTrack")
      /\ UNCHANGED <<lock, clusterVars, countVars, from, entry, work, caller, giveBack>>
  BY DEF Typed, TurnTrack
<1>2. \A u \in Threads : StepOK(u)'
  BY <1>0, <1>1, MovesOut
<1>3. turned' \in [track : Tracks, orientation : BOOLEAN]
  BY LayoutTypes DEF TurnTrack
<1>4. ThreadTypes'
  BY <1>0, <1>1, <1>3, GotoTyped, Tuples DEF ThreadTypes
<1>5. WorkOK'
  BY <1>0, <1>1, GotoTyped, Tuples DEF WorkOK, Threads
<1>6. ClusterTypes' /\ CountTypes' /\ lock' \in [Tracks \cup Routes -> Locks]
  BY <1>1, Tuples DEF ClusterTypes, CountTypes, clusterVars, countVars
<1> QED
  BY <1>2, <1>4, <1>5, <1>6 DEF Typed, TypeOK

LEMMA TypedInit == Init => Typed
<1> SUFFICES ASSUME Init PROVE Typed
  OBVIOUS
<1>1. lock \in [Tracks \cup Routes -> Locks]
  <2>1. ASSUME NEW x \in Tracks \cup Routes PROVE lock[x] \in Locks
    <3>1. CASE \E l \in Locos : StartAt[l] = x
      <4>1. (CHOOSE l \in Locos : StartAt[l] = x) \in Locos
        BY <3>1
      <4>2. lock[x] = [state |-> "HardLocked",
                       owner |-> CHOOSE l \in Locos : StartAt[l] = x]
        BY <3>1 DEF Init
      <4> QED
        BY <4>1, <4>2 DEF Locks, LockStates, Owners
    <3>2. CASE ~\E l \in Locos : StartAt[l] = x
      BY <3>2 DEF Init, FreeLock, Locks, LockStates, Owners
    <3> QED
      BY <3>1, <3>2
  <2> QED
    BY <2>1 DEF Init
<1>2. ClusterTypes
  BY LayoutTypes DEF Init, ClusterTypes, Owners
<1>3. CountTypes
  BY DEF Init, CountTypes
<1>4. ThreadTypes
  BY LayoutTypes, NoTurnTyped DEF Init, ThreadTypes, Sites
<1>5. WorkOK
  BY DEF Init, WorkOK, Threads
<1>6. \A t \in Threads : StepOK(t)
  BY DEF Init, StepOK
<1> QED
  BY <1>1, <1>2, <1>3, <1>4, <1>5, <1>6 DEF Typed, TypeOK

LEMMA TypedStep == Typed /\ [Next]_vars => Typed'
<1> SUFFICES ASSUME Typed, [Next]_vars PROVE Typed'
  OBVIOUS
<1>0. TypeOK
  BY DEF Typed
<1>1. ASSUME NEW t \in Threads, ClusterStep(t) PROVE Typed'
  BY <1>1, ClusterTyped, ClusterSteps DEF Typed
<1>2. ASSUME NEW l \in Locos, LocoStep(l) PROVE Typed'
  BY <1>2, <1>0, LocoTyped, LocoSteps DEF Typed
<1>3. ASSUME NEW x \in ByHand, NEW o \in BOOLEAN, TurnTrack(x, o) PROVE Typed'
  BY <1>3, TurnTrackTyped
<1>4. CASE UNCHANGED vars
  BY <1>4 DEF vars, clusterVars, countVars, threadVars, Typed, TypeOK,
    ClusterTypes, CountTypes, ThreadTypes, WorkOK, StepOK
<1> QED
  BY <1>1, <1>2, <1>3, <1>4 DEF Next

\* Every thread is always at a place of the program, with the route it works
\* on (LocoBase::AutoMode, Manager::TrackSetLocoOrientation).
THEOREM AdmissionTyped == Spec => []TypeOK
<1>1. Typed => TypeOK
  BY DEF Typed
<1> QED
  BY <1>1, TypedInit, TypedStep, PTL DEF Spec

(***************************************************************************)
(* The protocol of the group.                                                *)
(***************************************************************************)
Agrees(x, d) == (orientation[x] # Inverted[x]) = d

\* A track that is held in a way that keeps the asking locomotive from turning it.
Holds(k, a) == k.state = "HardLocked" \/ (k.state # "Free" /\ k.owner # a)

\* Who is inside has the mutex.
Inside ==
  /\ \A t \in Threads : step[t] # "call" => orientationMutex = t
  /\ orientationMutex # None => step[orientationMutex] # "call"

\* Nobody turns: all agree.  Somebody turns: those before the index agree.
TurnedSoFar ==
  /\ (\A t \in Threads : step[t] # "turn") => \A x \in GroupTracks : Agrees(x, direction)
  /\ \A t \in Threads : step[t] = "turn" =>
       \A j \in DOMAIN Group : j < index[t] => Agrees(Group[j], direction)

\* Settled tracks are held, and those inspected are as they should be.
SettledHeld ==
  /\ settled \subseteq GroupTracks
  /\ settled # {} => orientationMutex # None
  /\ \A x \in settled : Holds(lock[x], asker[orientationMutex])

SettledAgree ==
  \A t \in Threads :
    /\ step[t] = "inspect" =>
         \A j \in DOMAIN Group :
           j < index[t] /\ Group[j] \in settled => Agrees(Group[j], Wanted(t))
    /\ step[t] = "turn" => \A x \in settled : Agrees(x, direction)

\* A call begins with the first track.
CallsAtFirst == \A t \in Threads : Calls(t) => index[t] = 1

GroupInvariant ==
  Typed /\ Inside /\ CallsAtFirst /\ TurnedSoFar /\ SettledHeld /\ SettledAgree

\* A step of one thread leaves the others where they are.
Alone(t) ==
  \A u \in Threads \ {t} :
    /\ at'[u] = at[u] /\ step'[u] = step[u] /\ index'[u] = index[u]
    /\ u \in Locos => from'[u] = from[u] /\ work'[u] = work[u]
    /\ u = Operator => turned' = turned

LEMMA WantedStays ==
  ASSUME Typed, NEW t \in Threads, Alone(t), NEW u \in Threads \ {t},
         step[u] # "call"
  PROVE  Wanted(u)' = Wanted(u)
<1>1. at[u] \in CanSites \cup SetSites /\ TypeOK
  BY DEF Typed, StepOK
<1>2. u \in Locos \/ u = Operator
  BY DEF Threads
<1>3. /\ at[u] # "turnTrack" => u \in Locos
      /\ at[u] = "turnTrack" => u = Operator
  BY <1>1, Asking
<1>4. AskedTrack(u)' = AskedTrack(u) /\ AskedOrientation(u)' = AskedOrientation(u)
  BY <1>3 DEF Alone, AskedTrack, AskedOrientation
<1> QED
  BY <1>4 DEF Wanted

LEMMA GotoAlone ==
  ASSUME TypeOK, NEW t \in Threads, NEW site \in Sites, Goto(t, site)
  PROVE  /\ \A u \in Threads \ {t} :
              at'[u] = at[u] /\ step'[u] = step[u] /\ index'[u] = index[u]
         /\ step'[t] = "call" /\ index'[t] = 1
  BY DEF TypeOK, ThreadTypes, Goto

\* A step outside the cluster that turns no track of the group.
LEMMA Frame ==
  ASSUME GroupInvariant, NEW t \in Threads, Alone(t), Typed',
         step[t] = "call", step'[t] = "call",
         at'[t] \in CanSites \cup SetSites => index'[t] = 1,
         UNCHANGED <<direction, orientationMutex, asker>>,
         \A x \in GroupTracks : orientation'[x] = orientation[x],
         settled' \subseteq settled,
         \A x \in settled' : Holds(lock[x], asker[orientationMutex])
                             => Holds(lock'[x], asker[orientationMutex])
  PROVE  GroupInvariant'
<1>1. \A u \in Threads : step'[u] = step[u]
  BY DEF Alone
<1>2. \A u \in Threads : step[u] # "call" => u # t /\ index'[u] = index[u]
  BY DEF Alone
<1>3. ASSUME NEW u \in Threads, step[u] # "call" PROVE Wanted(u)' = Wanted(u)
  BY <1>3, <1>2, WantedStays DEF GroupInvariant
<1>4. \A j \in DOMAIN Group : Group[j] \in GroupTracks
  BY DEF GroupTracks
<1>5. Inside'
  <2>1. orientationMutex # None => orientationMutex \in Threads
    BY DEF GroupInvariant, Typed, TypeOK, ClusterTypes
  <2> QED
    BY <1>1, <2>1 DEF GroupInvariant, Inside
<1>6. TurnedSoFar'
  BY <1>1, <1>2, <1>4 DEF GroupInvariant, TurnedSoFar, Agrees
<1>7. SettledHeld'
  BY DEF GroupInvariant, SettledHeld
<1>8. SettledAgree'
  <2> SUFFICES ASSUME NEW u \in Threads
               PROVE  /\ step[u] = "inspect" =>
                           \A j \in DOMAIN Group :
                             j < index[u] /\ Group[j] \in settled'
                               => Agrees(Group[j], Wanted(u))'
                      /\ step[u] = "turn" => \A x \in settled' : Agrees(x, direction)'
    BY <1>1, <1>2 DEF SettledAgree
  <2>1. settled' \subseteq GroupTracks
    BY DEF GroupInvariant, SettledHeld
  <2> QED
    BY <1>3, <1>4, <2>1 DEF GroupInvariant, SettledAgree, Agrees
<1>9. CallsAtFirst'
  BY DEF GroupInvariant, CallsAtFirst, Calls, Alone
<1> QED
  BY <1>5, <1>6, <1>7, <1>8, <1>9 DEF GroupInvariant

(***************************************************************************)
(* The automode thread and the operator outside the cluster.                 *)
(***************************************************************************)
LEMMA LocksKeepHolding ==
  ASSUME NEW k \in Locks, NEW l \in Locos, NEW a \in Owners, Holds(k, a)
  PROVE  /\ CanReserve(k, l) => Holds(Reserved(k, l), a)
         /\ Holds(Locked(k), a)
         /\ ~CanRelease(k, l) => Holds(Released(k, l), a)
  BY DEF Holds, CanReserve, InUse, Reserved, Locked, CanRelease, Released, Locks

LEMMA LocoAlone ==
  ASSUME Typed, NEW l \in Locos, LocoStep(l)
  PROVE  /\ Alone(l) /\ step[l] = "call" /\ step'[l] = "call"
         /\ at'[l] \in CanSites \cup SetSites => index'[l] = 1
         /\ UNCHANGED <<orientation, direction, orientationMutex, asker, turned>>
<1>0. l \in Threads /\ TypeOK
  BY DEF Threads, Typed
<1>a. at[l] \notin CanSites \cup SetSites
  BY DEF LocoStep, Search, TryAgain, ReserveTrack, ReserveCounters, Decide,
         Execute, Arrive, GiveBack, GivenBack, CanSites, SetSites
<1>1. step[l] = "call"
  BY <1>0, <1>a DEF Typed, StepOK
<1>2. UNCHANGED <<orientation, direction, orientationMutex, asker, turned>>
  BY DEF LocoStep, Search, TryAgain, ReserveTrack, ReserveCounters, Decide,
         Execute, Arrive, GiveBack, GivenBack, clusterVars
<1>3. \/ \E site \in Sites : Goto(l, site)
      \/ /\ UNCHANGED <<at, step>>
         /\ \/ index' = [index EXCEPT ![l] = index[l] + 1]
            \/ index' = [index EXCEPT ![l] = 1]
  BY DEF LocoStep, Search, TryAgain, ReserveTrack, ReserveCounters, Decide,
         Execute, Arrive, GiveBack, GivenBack, ReserveRoute, Undo, Sites, CanSites,
         SetSites
<1>4. /\ \A u \in Threads \ {l} :
            at'[u] = at[u] /\ step'[u] = step[u] /\ index'[u] = index[u]
      /\ step'[l] = "call"
      /\ at'[l] \in CanSites \cup SetSites => index'[l] = 1
  <2>1. CASE \E site \in Sites : Goto(l, site)
    BY <1>0, <2>1, GotoAlone
  <2>2. CASE /\ UNCHANGED <<at, step>>
             /\ \/ index' = [index EXCEPT ![l] = index[l] + 1]
                \/ index' = [index EXCEPT ![l] = 1]
    BY <1>0, <1>1, <1>a, <2>2 DEF TypeOK, ThreadTypes
  <2> QED
    BY <1>3, <2>1, <2>2
<1>5. \A m \in Locos \ {l} : from'[m] = from[m]
  BY <1>0 DEF LocoStep, Search, TryAgain, ReserveTrack, ReserveCounters, Decide,
         Execute, Arrive, GiveBack, GivenBack, TypeOK, ThreadTypes
<1>6. \A m \in Locos \ {l} : work'[m] = work[m]
  BY <1>0 DEF LocoStep, Search, TryAgain, ReserveTrack, ReserveCounters, Decide,
         Execute, Arrive, GiveBack, GivenBack, ReserveRoute, TypeOK, ThreadTypes
<1> QED
  BY <1>1, <1>2, <1>4, <1>5, <1>6 DEF Alone

LEMMA LocoKeepsGroup ==
  ASSUME GroupInvariant, NEW l \in Locos, LocoStep(l), Typed'
  PROVE  GroupInvariant'
<1> DEFINE a == asker[orientationMutex]
<1>0. Typed /\ TypeOK /\ l \in Threads
  BY DEF GroupInvariant, Typed, Threads
<1>1. /\ Alone(l) /\ step[l] = "call" /\ step'[l] = "call"
      /\ at'[l] \in CanSites \cup SetSites => index'[l] = 1
      /\ UNCHANGED <<orientation, direction, orientationMutex, asker>>
  BY <1>0, LocoAlone
<1>2. CASE GiveBack(l)
  <2>1. settled' \subseteq settled
    BY <1>2 DEF GiveBack
  <2>2. ASSUME NEW x \in settled', Holds(lock[x], a) PROVE Holds(lock'[x], a)
    <3>1. x \in Tracks /\ lock[x] \in Locks /\ a \in Owners
      BY <2>1, <1>0 DEF GroupInvariant, SettledHeld, TypeOK, ClusterTypes
    <3>2. CASE UNCHANGED lock
      BY <2>2, <3>2
    <3>3. CASE /\ lock' = [lock EXCEPT ![Head(giveBack[l])] = Released(@, l)]
               /\ settled' = IF CanRelease(lock[Head(giveBack[l])], l)
                             THEN settled \ {Head(giveBack[l])} ELSE settled
      BY <2>2, <3>1, <3>3, <1>0, LocksKeepHolding DEF TypeOK
    <3> QED
      BY <1>2, <3>2, <3>3 DEF GiveBack
  <2> QED
    BY <1>0, <1>1, <2>1, <2>2, Frame
<1>3. CASE ~GiveBack(l)
  <2>1. UNCHANGED settled
    BY <1>3 DEF LocoStep, Search, TryAgain, ReserveTrack, ReserveCounters,
      Decide, Execute, Arrive, GivenBack, clusterVars
  <2>2. ASSUME NEW x \in settled, Holds(lock[x], a) PROVE Holds(lock'[x], a)
    <3>1. x \in Tracks \cup Routes /\ lock[x] \in Locks /\ a \in Owners
      BY <1>0 DEF GroupInvariant, SettledHeld, TypeOK, ClusterTypes
    <3>2. \/ lock'[x] = lock[x]
          \/ CanReserve(lock[x], l) /\ lock'[x] = Reserved(lock[x], l)
          \/ lock'[x] = Locked(lock[x])
      <4>1. CASE \E r \in Routes, who \in {"search", "timetable"} :
                   ReserveRoute(l, r, who)
        BY <4>1, <3>1, <1>0 DEF ReserveRoute, TypeOK
      <4>2. CASE ReserveTrack(l)
        BY <4>2, <3>1, <1>0 DEF ReserveTrack, TypeOK
      <4>3. CASE Decide(l) /\ lock[work[l]].state # "Free"
        BY <4>3, <3>1, <1>0 DEF Decide, TypeOK, Undo
      <4>4. CASE UNCHANGED lock
        BY <4>4
      <4>5. Decide(l) => work[l] \in Routes
        BY <1>0 DEF Decide, TypeOK, WorkOK
      <4> QED
        BY <4>1, <4>2, <4>3, <4>4, <4>5, <1>3 DEF LocoStep, Search, TryAgain,
          ReserveCounters, Decide, Execute, Arrive, GivenBack
    <3> QED
      BY <2>2, <3>1, <3>2, LocksKeepHolding
  <2> QED
    BY <1>0, <1>1, <2>1, <2>2, Frame
<1> QED
  BY <1>2, <1>3

(***************************************************************************)
(* Calls.                                                                    *)
(***************************************************************************)

\* A call that ends moves its thread, and the operator's only his own wish.
LEMMA EndAlone ==
  ASSUME Typed, NEW t \in Threads, at[t] \in CanSites \cup SetSites,
         Granted(t) \/ Refused(t), UNCHANGED <<from, work>>
  PROVE  /\ Alone(t) /\ step'[t] = "call"
         /\ at'[t] \in CanSites \cup SetSites => index'[t] = 1
<1>0. TypeOK
  BY DEF Typed
<1>1. PICK site \in Sites : Goto(t, site)
  BY <1>0, CallEnds
<1>2. /\ \A u \in Threads \ {t} :
            at'[u] = at[u] /\ step'[u] = step[u] /\ index'[u] = index[u]
      /\ step'[t] = "call" /\ index'[t] = 1
  BY <1>0, <1>1, GotoAlone
<1>3. t # Operator => turned' = turned
  BY <1>0, Asking DEF Granted, Refused
<1> QED
  BY <1>2, <1>3 DEF Alone

\* The call that ends inside the cluster leaves everything agreed behind.
LEMMA LeavesAgreed ==
  ASSUME GroupInvariant, Typed', NEW t \in Threads, step[t] # "call",
         LeaveCluster(t), Granted(t) \/ Refused(t), UNCHANGED <<from, work>>,
         \A x \in GroupTracks : Agrees(x, direction)'
  PROVE  GroupInvariant'
<1>1. at[t] \in CanSites \cup SetSites /\ Typed
  BY DEF GroupInvariant, Typed, StepOK
<1>2. Alone(t) /\ step'[t] = "call"
      /\ (at'[t] \in CanSites \cup SetSites => index'[t] = 1)
  BY <1>1, EndAlone
<1>3. \A u \in Threads : step'[u] = "call"
  BY <1>2 DEF Alone, GroupInvariant, Inside
<1>4. Inside' /\ SettledHeld' /\ SettledAgree' /\ TurnedSoFar'
  BY <1>3 DEF LeaveCluster, Inside, SettledHeld, SettledAgree, TurnedSoFar
<1>5. CallsAtFirst'
  BY <1>2 DEF Alone, GroupInvariant, CallsAtFirst, Calls
<1> QED
  BY <1>4, <1>5 DEF GroupInvariant

LEMMA AskKeepsGroup ==
  ASSUME GroupInvariant, Typed', NEW t \in Threads,
         AskNobody(t) \/ AskTrack(t) \/ AskCluster(t)
  PROVE  GroupInvariant'
<1>0. Typed /\ TypeOK /\ Calls(t)
  BY DEF GroupInvariant, Typed, AskNobody, AskTrack, AskCluster
<1>1. CASE AskNobody(t) \/ AskTrack(t)
  <2>1. Granted(t) \/ Refused(t)
    BY <1>1 DEF AskNobody, AskTrack
  <2>2. UNCHANGED <<lock, from, work, direction, orientationMutex, asker, settled>>
    BY <1>1 DEF AskNobody, AskTrack, clusterVars
  <2>3. Alone(t) /\ step'[t] = "call"
        /\ (at'[t] \in CanSites \cup SetSites => index'[t] = 1)
    BY <1>0, <2>1, <2>2, EndAlone DEF Calls
  <2>4. \A x \in GroupTracks : orientation'[x] = orientation[x]
    BY <1>1, <1>0, LayoutTypes
    DEF AskNobody, AskTrack, clusterVars, GroupTracks, TypeOK, ClusterTypes
  <2> QED
    BY <1>0, <2>2, <2>3, <2>4, Frame DEF Calls
<1>2. CASE AskCluster(t)
  <2>1. /\ step' = [step EXCEPT ![t] = "inspect"]
        /\ orientationMutex = None /\ orientationMutex' = t
        /\ asker' = [asker EXCEPT ![t] = AskedFor(t)]
        /\ UNCHANGED <<lock, orientation, direction, from, work, at, index>>
    BY <1>2 DEF AskCluster
  <2>2. \A u \in Threads : step[u] = "call"
    BY <2>1, LayoutTypes, NoneIsNoLoco DEF GroupInvariant, Inside, Threads
  <2>3. /\ step'[t] = "inspect" /\ \A u \in Threads \ {t} : step'[u] = "call"
        /\ asker'[t] = AskedFor(t)
    BY <2>1, <2>2, <1>0 DEF TypeOK, ThreadTypes, ClusterTypes
  <2>4. Inside'
    BY <2>1, <2>3 DEF Inside
  <2>5. TurnedSoFar'
    BY <2>1, <2>2, <2>3 DEF GroupInvariant, TurnedSoFar, Agrees
  <2>6. SettledHeld'
    <3>1. /\ settled' \subseteq GroupTracks
          /\ \A x \in settled' : Holds(lock[x], AskedFor(t))
      BY <1>2 DEF AskCluster, Holds
    <3> QED
      BY <3>1, <2>1, <2>3, LayoutTypes, NoneIsNoLoco DEF SettledHeld, Threads
  <2>7. SettledAgree'
    <3>1. index'[t] = 1 /\ \A j \in DOMAIN Group : ~(j < 1)
      BY <1>0, <2>1, LayoutTypes DEF GroupInvariant, CallsAtFirst
    <3> QED
      BY <2>3, <3>1 DEF SettledAgree
  <2>8. CallsAtFirst'
    BY <2>1, <2>2, <2>3 DEF GroupInvariant, CallsAtFirst, Calls
  <2> QED
    BY <2>4, <2>5, <2>6, <2>7, <2>8 DEF GroupInvariant
<1> QED
  BY <1>1, <1>2

LEMMA InspectKeepsGroup ==
  ASSUME GroupInvariant, Typed', NEW t \in Threads, Inspect(t)
  PROVE  GroupInvariant'
<1>0. Typed /\ TypeOK /\ step[t] = "inspect" /\ orientationMutex = t
      /\ t # None
  BY LayoutTypes, NoneIsNoLoco
  DEF GroupInvariant, Typed, Inspect, Inside, Threads
<1>1. \A u \in Threads \ {t} : step[u] = "call"
  BY <1>0 DEF GroupInvariant, Inside
<1>2. \A x \in GroupTracks : Agrees(x, direction)
  BY <1>0, <1>1 DEF GroupInvariant, TurnedSoFar
<1>3. UNCHANGED <<lock, orientation, from, work>>
  BY DEF Inspect
<1>4. DOMAIN Group = 1..Len(Group) /\ Len(Group) \in Nat /\ index[t] \in Nat \ {0}
  BY <1>0, LayoutTypes DEF TypeOK, ThreadTypes
<1>5. CASE LeaveCluster(t)
  <2>1. UNCHANGED direction /\ (Granted(t) \/ Refused(t))
    BY <1>5, <1>0 DEF Inspect, LeaveCluster
  <2> QED
    BY <1>0, <1>2, <1>3, <1>5, <2>1, LeavesAgreed DEF Agrees
<1>6. CASE /\ direction = Wanted(t) \/ index[t] > Len(Group)
           /\ direction' = Wanted(t)
           /\ step' = [step EXCEPT ![t] = "turn"]
           /\ index' = [index EXCEPT ![t] = 1]
           /\ UNCHANGED <<orientationMutex, asker, settled, at>>
  <2>1. /\ step'[t] = "turn" /\ index'[t] = 1
        /\ \A u \in Threads \ {t} : step'[u] = "call" /\ index'[u] = index[u]
    BY <1>0, <1>1, <1>6 DEF TypeOK, ThreadTypes
  <2>2. Inside'
    BY <1>0, <1>6, <2>1 DEF Inside
  <2>3. TurnedSoFar'
    BY <1>4, <2>1 DEF TurnedSoFar
  <2>4. SettledHeld'
    BY <1>3, <1>6 DEF GroupInvariant, SettledHeld
  <2>5. ASSUME NEW x \in settled PROVE Agrees(x, Wanted(t))
    <3>1. x \in GroupTracks
      BY DEF GroupInvariant, SettledHeld
    <3>2. CASE direction = Wanted(t)
      BY <3>1, <3>2, <1>2
    <3>3. CASE index[t] > Len(Group)
      <4>1. PICK j \in DOMAIN Group : Group[j] = x
        BY <3>1 DEF GroupTracks
      <4>2. j < index[t]
        BY <3>3, <4>1, <1>4
      <4> QED
        BY <4>1, <4>2, <1>0 DEF GroupInvariant, SettledAgree
    <3> QED
      BY <3>2, <3>3, <1>6
  <2>6. SettledAgree'
    BY <1>3, <1>6, <2>1, <2>5 DEF SettledAgree, Agrees
  <2>7. CallsAtFirst'
    BY <1>6, <2>1, <1>1 DEF GroupInvariant, CallsAtFirst, Calls
  <2> QED
    BY <2>2, <2>3, <2>4, <2>6, <2>7 DEF GroupInvariant
<1>7. CASE /\ index[t] <= Len(Group) /\ MayTurn(t, Group[index[t]])
           /\ index' = [index EXCEPT ![t] = index[t] + 1]
           /\ UNCHANGED <<direction, orientationMutex, asker, settled, at,
                          step, turned>>
  <2>1. /\ index'[t] = index[t] + 1
        /\ \A u \in Threads \ {t} : index'[u] = index[u]
    BY <1>0, <1>7 DEF TypeOK, ThreadTypes
  <2>2. Wanted(t)' = Wanted(t)
    BY <1>3, <1>7 DEF Wanted, AskedTrack, AskedOrientation
  <2>3. Inside' /\ SettledHeld'
    BY <1>3, <1>7 DEF GroupInvariant, Inside, SettledHeld
  <2>4. TurnedSoFar'
    BY <1>0, <1>1, <1>2, <1>3, <1>7 DEF TurnedSoFar, Agrees
  <2>5. Group[index[t]] \in settled => Agrees(Group[index[t]], Wanted(t))
    BY <1>0, <1>7 DEF GroupInvariant, SettledHeld, Holds, MayTurn, Agrees
  <2>6. \A j \in DOMAIN Group : j < index[t] + 1 => j < index[t] \/ j = index[t]
    BY <1>4
  <2>7. SettledAgree'
    BY <1>0, <1>1, <1>3, <1>7, <2>1, <2>2, <2>5, <2>6
    DEF GroupInvariant, SettledAgree, Agrees
  <2>8. CallsAtFirst'
    BY <1>0, <1>7, <2>1 DEF GroupInvariant, CallsAtFirst, Calls
  <2> QED
    BY <2>3, <2>4, <2>7, <2>8 DEF GroupInvariant
<1> QED
  BY <1>4, <1>5, <1>6, <1>7 DEF Inspect

LEMMA TurnKeepsGroup ==
  ASSUME GroupInvariant, Typed', NEW t \in Threads, Turn(t)
  PROVE  GroupInvariant'
<1>0. Typed /\ TypeOK /\ step[t] = "turn" /\ orientationMutex = t
  BY DEF GroupInvariant, Typed, Turn, Inside
<1>1. \A u \in Threads \ {t} : step[u] = "call"
  BY <1>0 DEF GroupInvariant, Inside
<1>2. \A j \in DOMAIN Group : j < index[t] => Agrees(Group[j], direction)
  BY <1>0 DEF GroupInvariant, TurnedSoFar
<1>3. UNCHANGED <<lock, direction, from, work>>
  BY DEF Turn
<1>4. DOMAIN Group = 1..Len(Group) /\ Len(Group) \in Nat /\ index[t] \in Nat \ {0}
  BY <1>0, LayoutTypes DEF TypeOK, ThreadTypes
<1>5. CASE index[t] > Len(Group)
  <2>1. LeaveCluster(t) /\ Granted(t) /\ UNCHANGED orientation
    BY <1>4, <1>5 DEF Turn
  <2>2. \A x \in GroupTracks : Agrees(x, direction)
    BY <1>2, <1>4, <1>5 DEF GroupTracks
  <2> QED
    BY <1>0, <1>3, <2>1, <2>2, LeavesAgreed DEF Agrees
<1>6. CASE index[t] <= Len(Group)
  <2> DEFINE x == Group[index[t]]
  <2>1. /\ orientation' = [orientation EXCEPT ![x] = direction # Inverted[x]]
        /\ index' = [index EXCEPT ![t] = index[t] + 1]
        /\ UNCHANGED <<orientationMutex, asker, settled, at, step>>
    BY <1>4, <1>6 DEF Turn
  <2>2. /\ index'[t] = index[t] + 1
        /\ \A u \in Threads \ {t} : index'[u] = index[u]
    BY <1>0, <2>1 DEF TypeOK, ThreadTypes
  <2>3. x \in Tracks /\ index[t] \in DOMAIN Group
    BY <1>4, <1>6, LayoutTypes
  <2>4. (orientation'[x] # Inverted[x]) = direction'
    <3>1. orientation'[x] = (direction # Inverted[x])
      BY <2>1, <2>3, <1>0 DEF TypeOK, ClusterTypes
    <3>2. direction \in BOOLEAN /\ Inverted[x] \in BOOLEAN
      BY <1>0, <2>3, LayoutTypes DEF TypeOK, ClusterTypes
    <3> QED
      BY <3>1, <3>2, <1>3
  <2>5. \A y \in Tracks : Agrees(y, direction) \/ y = x => Agrees(y, direction)'
    BY <2>1, <2>4, <1>0, <1>3 DEF Agrees, TypeOK, ClusterTypes
  <2>6. TurnedSoFar'
    <3>1. \A j \in DOMAIN Group : Group[j] \in Tracks
      BY LayoutTypes
    <3>2. \A j \in DOMAIN Group : j < index[t] + 1 => j < index[t] \/ j = index[t]
      BY <1>4
    <3>3. \A j \in DOMAIN Group : j < index'[t] => Agrees(Group[j], direction)'
      BY <1>2, <2>2, <2>5, <3>1, <3>2
    <3> QED
      BY <1>0, <1>1, <2>1, <3>3 DEF TurnedSoFar
  <2>7. Inside' /\ SettledHeld'
    BY <1>3, <2>1 DEF GroupInvariant, Inside, SettledHeld
  <2>8. SettledAgree'
    BY <1>0, <1>1, <2>1, <2>5 DEF GroupInvariant, SettledAgree, TypeOK, ClusterTypes
  <2>9. CallsAtFirst'
    BY <1>0, <2>1, <2>2 DEF GroupInvariant, CallsAtFirst, Calls
  <2> QED
    BY <2>6, <2>7, <2>8, <2>9 DEF GroupInvariant
<1> QED
  BY <1>4, <1>5, <1>6

(***************************************************************************)
(* The theorems.                                                             *)
(***************************************************************************)
LEMMA GroupInit == Init => GroupInvariant
<1> SUFFICES ASSUME Init PROVE GroupInvariant
  OBVIOUS
<1>1. Typed
  BY TypedInit
<1>2. Inside /\ CallsAtFirst /\ SettledHeld /\ SettledAgree
  BY DEF Init, Inside, CallsAtFirst, SettledHeld, SettledAgree
<1>3. TurnedSoFar
  <2>1. ASSUME NEW x \in GroupTracks PROVE Agrees(x, direction)
    <3>1. x \in Tracks /\ Inverted[x] \in BOOLEAN
      BY LayoutTypes DEF GroupTracks
    <3>2. orientation[x] = ~Inverted[x] /\ direction = TRUE
      BY <3>1 DEF Init
    <3> QED
      BY <3>1, <3>2 DEF Agrees
  <2> QED
    BY <2>1 DEF Init, TurnedSoFar
<1> QED
  BY <1>1, <1>2, <1>3 DEF GroupInvariant

LEMMA TurnTrackKeepsGroup ==
  ASSUME GroupInvariant, Typed', NEW x \in ByHand, NEW o \in BOOLEAN,
         TurnTrack(x, o)
  PROVE  GroupInvariant'
<1>1. Operator \in Threads /\ Typed /\ TypeOK /\ at[Operator] = "idle"
      /\ Goto(Operator, "turnTrack")
      /\ UNCHANGED <<lock, clusterVars, from, work>>
  BY DEF Threads, GroupInvariant, Typed, TurnTrack
<1>2. Alone(Operator) /\ step'[Operator] = "call" /\ index'[Operator] = 1
  BY <1>1, GotoAlone DEF Alone, Sites, SetSites
<1>3. step[Operator] = "call"
  BY <1>1 DEF Typed, StepOK, CanSites, SetSites
<1> QED
  BY <1>1, <1>2, <1>3, Frame DEF clusterVars

LEMMA GroupStep == GroupInvariant /\ [Next]_vars => GroupInvariant'
<1> SUFFICES ASSUME GroupInvariant, [Next]_vars PROVE GroupInvariant'
  OBVIOUS
<1>1. Typed'
  BY TypedStep DEF GroupInvariant
<1>2. ASSUME NEW t \in Threads, ClusterStep(t) PROVE GroupInvariant'
  BY <1>1, <1>2, AskKeepsGroup, InspectKeepsGroup, TurnKeepsGroup DEF ClusterStep
<1>3. ASSUME NEW l \in Locos, LocoStep(l) PROVE GroupInvariant'
  BY <1>1, <1>3, LocoKeepsGroup
<1>4. ASSUME NEW x \in ByHand, NEW o \in BOOLEAN, TurnTrack(x, o)
      PROVE  GroupInvariant'
  BY <1>1, <1>4, TurnTrackKeepsGroup
<1>5. CASE UNCHANGED vars
  BY <1>1, <1>5 DEF vars, clusterVars, countVars, threadVars, GroupInvariant,
    Inside, CallsAtFirst, Calls, TurnedSoFar, SettledHeld, SettledAgree, Agrees,
    Wanted, AskedTrack, AskedOrientation
<1> QED
  BY <1>2, <1>3, <1>4, <1>5 DEF Next

\* Whenever no thread is at work on a trackgroup all its tracks have its
\* direction, for every group and any number of trains and people that turn
\* it (Cluster::SetLocoBaseOrientation).
THEOREM GroupsAgree == Spec => []GroupAgrees
<1>1. GroupInvariant => GroupAgrees
  <2> SUFFICES ASSUME GroupInvariant, orientationMutex = None
               PROVE  \A x \in GroupTracks : Agrees(x, direction)
    BY DEF GroupAgrees, Agrees
  <2>1. \A t \in Threads : step[t] = "call"
    BY LayoutTypes, NoneIsNoLoco DEF GroupInvariant, Inside, Threads
  <2> QED
    BY <2>1 DEF GroupInvariant, TurnedSoFar
<1> QED
  BY <1>1, GroupInit, GroupStep, PTL DEF Spec

\* No track of a group is turned under a train that held it when the turn
\* began and has held it since (Cluster::CanSetLocoBaseOrientationUnlocked,
\* Track::SetLocoBaseOrientation).
THEOREM NoTrainTurned == Spec => TrainsNotTurned
<1>1. GroupInvariant /\ [Next]_vars =>
        [\A x \in GroupTracks : orientation'[x] # orientation[x]
                               => x \notin settled]_vars
  <2> SUFFICES ASSUME GroupInvariant, Next,
                      NEW x \in GroupTracks, orientation'[x] # orientation[x]
               PROVE  x \notin settled
    BY DEF vars
  <2>0. Typed /\ TypeOK /\ x \in Tracks
    BY LayoutTypes DEF GroupInvariant, Typed, GroupTracks
  <2>1. ASSUME NEW t \in Threads, Turn(t) PROVE x \notin settled
    <3>1. /\ step[t] = "turn" /\ x = Group[index[t]]
          /\ orientation'[x] = (direction # Inverted[x])
      BY <2>0, <2>1 DEF Turn, TypeOK, ClusterTypes
    <3>2. direction \in BOOLEAN /\ Inverted[x] \in BOOLEAN
          /\ orientation[x] \in BOOLEAN
      BY <2>0, LayoutTypes DEF TypeOK, ClusterTypes
    <3>3. ~Agrees(x, direction)
      BY <3>1, <3>2 DEF Agrees
    <3> QED
      BY <3>1, <3>3 DEF GroupInvariant, SettledAgree
  <2>2. ASSUME NEW t \in Threads, AskTrack(t) PROVE FALSE
    BY <2>0, <2>2 DEF AskTrack, TypeOK, ClusterTypes
  <2>3. ASSUME NEW t \in Threads, ClusterStep(t), ~Turn(t), ~AskTrack(t) PROVE FALSE
    BY <2>3 DEF ClusterStep, AskNobody, AskCluster, Inspect, clusterVars
  <2>4. ASSUME NEW l \in Locos, LocoStep(l) PROVE FALSE
    BY <2>0, <2>4, LocoAlone
  <2>5. ASSUME NEW y \in ByHand, NEW o \in BOOLEAN, TurnTrack(y, o) PROVE FALSE
    BY <2>5 DEF TurnTrack, clusterVars
  <2> QED
    BY <2>1, <2>2, <2>3, <2>4, <2>5 DEF Next
<1> QED
  BY <1>1, GroupInit, GroupStep, PTL DEF Spec, TrainsNotTurned

(***************************************************************************)
(* The trip of a train.  A train owns the track it stands on; what it        *)
(* reserves begins there.  From the reservation of a route to its release it *)
(* owns the route and, later, its destination, so nobody else executes or    *)
(* releases the route meanwhile.  The two hypotheses are those of every      *)
(* layout: no two trains start on one track, and a route leads somewhere.    *)
(***************************************************************************)
StartsApart == \A l, m \in Locos : StartAt[l] = StartAt[m] => l = m
RoutesLead == \A r \in Routes : From[r] # To[r]

Owned(x, l) == lock[x].owner = l

Items(q) == {q[i] : i \in 1..Len(q)}

Reserving == {"reserveCan", "reserveTrack", "reserveSet", "reserveCounters", "searchCan"}
Driving == {"prepareTo", "prepareFrom", "running"}

\* What is still given back is the route, a track that is not the train's own,
\* or both; an entry of the timetable is given back with it, or is lost already.
Returns(l) ==
  LET r == work[l] IN
  /\ r \in Routes
  /\ \/ giveBack[l] \in {<<>>, <<r>>}
     \/ \E x \in Tracks \ {from[l]} : giveBack[l] \in {<<x>>, <<r, x>>, <<x, r>>}
  /\ r \in Items(giveBack[l]) => Owned(r, l)
  /\ entry[l] \in {None, r}
  /\ entry[l] = r => r \in Items(giveBack[l]) \/ ~Owned(r, l)

Trip(l) ==
  LET r == work[l] IN
  /\ Owned(from[l], l)
  /\ entry[l] # None => From[entry[l]] = from[l]
  /\ at[l] = "idle" /\ entry[l] # None => ~Owned(entry[l], l)
  /\ at[l] \notin {"idle", "giveBack"} => From[r] = from[l]
  /\ at[l] \in Reserving =>
       /\ Owned(r, l)
       /\ \/ caller[l] = "search" /\ entry[l] = None
          \/ caller[l] = "timetable" /\ entry[l] = r
  /\ at[l] \in {"reserveSet", "reserveCounters", "searchCan"} => Owned(To[r], l)
  /\ at[l] = "decide" => entry[l] = r /\ (Owned(r, l) => Owned(To[r], l))
  /\ at[l] = "execute" => entry[l] = r /\ Owned(r, l) /\ Owned(To[r], l)
  /\ at[l] \in Driving => /\ entry[l] = None /\ Owned(r, l) /\ Owned(To[r], l)
                          /\ executeAtUnlock[r]
  /\ at[l] # "giveBack" => giveBack[l] = <<>>
  /\ at[l] = "giveBack" => Returns(l)

\* The route in a timetable is its train's own or nobody's.
Entries == \A l \in Locos : entry[l] # None => lock[entry[l]].owner \in {None, l}

LocksOK == \A x \in Tracks \cup Routes : Consistent(lock[x])

\* Only a route that is held has been executed.
Executed == \A r \in Routes : executeAtUnlock[r] => lock[r].owner # None

TripInvariant ==
  /\ Typed /\ (\A l \in Locos : Trip(l)) /\ Entries /\ LocksOK /\ Executed

\* What a thread may do to locks: take what is its own or nobody's, and of
\* routes only those that begin under its train; free its own.
LockStep(l) ==
  \A x \in Tracks \cup Routes :
    \/ lock'[x] = lock[x]
    \/ /\ lock[x].owner \in {None, l} /\ lock'[x].owner = l
       /\ Consistent(lock'[x])
       /\ x \in Routes => From[x] = from[l]
    \/ lock[x].owner = l /\ lock'[x] = FreeLock

\* The others are not touched.
Own(l) ==
  \A m \in Locos \ {l} :
    /\ from'[m] = from[m] /\ entry'[m] = entry[m] /\ work'[m] = work[m]
    /\ caller'[m] = caller[m] /\ at'[m] = at[m] /\ giveBack'[m] = giveBack[m]

LEMMA OthersKeepLocks ==
  ASSUME NEW l \in Locos, LockStep(l), NEW m \in Locos \ {l},
         NEW x \in Tracks \cup Routes
  PROVE  Owned(x, m)' <=> Owned(x, m)
  BY NoneIsNoLoco DEF LockStep, Owned, FreeLock

LEMMA OthersTrip ==
  ASSUME TripInvariant, NEW l \in Locos, LockStep(l), Own(l),
         \A r \in Routes : executeAtUnlock[r] /\ lock[r].owner # l => executeAtUnlock'[r],
         NEW m \in Locos \ {l}
  PROVE  Trip(m)'
<1>0. TypeOK /\ Trip(m)
  BY DEF TripInvariant, Typed
<1>1. /\ from'[m] = from[m] /\ entry'[m] = entry[m] /\ work'[m] = work[m]
      /\ caller'[m] = caller[m] /\ at'[m] = at[m] /\ giveBack'[m] = giveBack[m]
  BY DEF Own
<1>2. /\ from[m] \in Tracks /\ entry[m] \in Routes \cup {None}
      /\ at[m] \notin {"idle", "giveBack"} => work[m] \in Routes /\ To[work[m]] \in Tracks
  BY <1>0, LayoutTypes DEF TypeOK, ThreadTypes, WorkOK
<1>3. \A x \in Tracks \cup Routes : Owned(x, m)' <=> Owned(x, m)
  BY OthersKeepLocks
<1>4. \A x \in Tracks \cup Routes : lock'[x].owner = m <=> lock[x].owner = m
  BY <1>3 DEF Owned
<1>5. at[m] \in Driving => executeAtUnlock'[work[m]]
  BY <1>0, <1>2 DEF Trip, Owned, Driving
<1>6. at[m] = "giveBack" => Returns(m)'
  BY <1>0, <1>1, <1>4 DEF Trip, Returns, Owned, Items
<1> QED
  BY <1>0, <1>1, <1>2, <1>4, <1>5, <1>6 DEF Trip, Owned, Reserving, Driving

LEMMA TripFrame ==
  ASSUME TripInvariant, Typed', NEW l \in Locos, LockStep(l), Own(l),
         \A r \in Routes : executeAtUnlock[r] /\ lock[r].owner # l => executeAtUnlock'[r],
         \A r \in Routes : executeAtUnlock'[r] => lock'[r].owner # None,
         entry'[l] # None => lock'[entry'[l]].owner \in {None, l},
         Trip(l)'
  PROVE  TripInvariant'
<1>0. TypeOK /\ (\A m \in Locos : Trip(m)) /\ Entries /\ LocksOK
  BY DEF TripInvariant, Typed
<1>1. \A m \in Locos : Trip(m)'
  BY OthersTrip
<1>2. LocksOK'
  BY <1>0 DEF LocksOK, LockStep, Consistent, FreeLock
<1>3. Executed'
  BY DEF Executed
<1>4. ASSUME NEW m \in Locos \ {l}, entry[m] # None
      PROVE  lock'[entry[m]].owner \in {None, m}
  <2> DEFINE x == entry[m]
  <2>1. x \in Routes
    BY <1>0, <1>4 DEF TypeOK, ThreadTypes
  <2>2. From[x] = from[m] /\ lock[from[m]].owner = m /\ lock[from[l]].owner = l
    BY <1>0, <1>4 DEF Trip, Owned
  <2>3. From[x] # from[l]
    BY <2>2
  <2>4. lock[x].owner \in {None, m}
    BY <1>0, <1>4 DEF Entries
  <2> QED
    BY <2>1, <2>3, <2>4 DEF LockStep, FreeLock
<1>5. Entries'
  BY <1>4 DEF Entries, Own
<1> QED
  BY <1>1, <1>2, <1>3, <1>5 DEF TripInvariant

\* A step that changes none of it.
LEMMA TripStays ==
  ASSUME TripInvariant, Typed', UNCHANGED <<lock, executeAtUnlock>>,
         \A m \in Locos :
           /\ from'[m] = from[m] /\ entry'[m] = entry[m] /\ work'[m] = work[m]
           /\ caller'[m] = caller[m] /\ at'[m] = at[m] /\ giveBack'[m] = giveBack[m]
  PROVE  TripInvariant'
<1>1. Entries' /\ LocksOK' /\ Executed'
  BY DEF TripInvariant, Entries, LocksOK, Executed
<1>2. ASSUME NEW m \in Locos PROVE Trip(m)'
  BY DEF TripInvariant, Trip, Returns, Owned, Items
<1> QED
  BY <1>1, <1>2 DEF TripInvariant

LEMMA ShortLists ==
  ASSUME NEW r, NEW x, r # x
  PROVE  /\ Items(<<>>) = {} /\ Items(<<r>>) = {r} /\ Items(<<x>>) = {x}
         /\ Items(<<r, x>>) = {r, x} /\ Items(<<x, r>>) = {r, x}
         /\ Head(<<r>>) = r /\ Tail(<<r>>) = <<>>
         /\ Head(<<x>>) = x /\ Tail(<<x>>) = <<>>
         /\ Head(<<r, x>>) = r /\ Tail(<<r, x>>) = <<x>>
         /\ Head(<<x, r>>) = x /\ Tail(<<x, r>>) = <<r>>
<1>1. Items(<<>>) = {}
  BY DEF Items
<1>2. \A y : Items(<<y>>) = {y}
  BY DEF Items
<1>3. \A y, z : Items(<<y, z>>) = {y, z}
  <2> SUFFICES ASSUME NEW y, NEW z PROVE Items(<<y, z>>) = {y, z}
    OBVIOUS
  <2>1. Len(<<y, z>>) = 2 /\ 1..2 = {1, 2} /\ <<y, z>>[1] = y /\ <<y, z>>[2] = z
    OBVIOUS
  <2> QED
    BY <2>1 DEF Items
<1>4. \A y : Head(<<y>>) = y /\ Tail(<<y>>) = <<>>
  OBVIOUS
<1>5. \A y, z : Head(<<y, z>>) = y /\ Tail(<<y, z>>) = <<z>>
  OBVIOUS
<1>6. Items(<<x, r>>) = {r, x}
  BY <1>3
<1> QED
  BY <1>1, <1>2, <1>3, <1>4, <1>5, <1>6

LEMMA TripInit == StartsApart /\ Init => TripInvariant
<1> SUFFICES ASSUME StartsApart, Init PROVE TripInvariant
  OBVIOUS
<1>1. Typed
  BY TypedInit
<1>2. ASSUME NEW l \in Locos PROVE Owned(from[l], l)
  <2>1. StartAt[l] \in Tracks /\ from[l] = StartAt[l]
    BY LayoutTypes DEF Init
  <2>2. (CHOOSE m \in Locos : StartAt[m] = StartAt[l]) = l
    BY DEF StartsApart
  <2>3. lock[StartAt[l]] =
          [state |-> "HardLocked",
           owner |-> CHOOSE m \in Locos : StartAt[m] = StartAt[l]]
    BY <2>1 DEF Init
  <2> QED
    BY <2>1, <2>2, <2>3 DEF Owned
<1>3. ASSUME NEW l \in Locos PROVE Trip(l)
  <2>1. at[l] = "idle" /\ giveBack[l] = <<>> /\ entry[l] = None
    BY DEF Init, Threads
  <2> QED
    BY <1>2, <2>1 DEF Trip, Reserving, Driving
<1>4. Entries /\ Executed
  BY DEF Init, Entries, Executed
<1>5. ASSUME NEW x \in Tracks \cup Routes PROVE Consistent(lock[x])
  <2>1. CASE \E l \in Locos : StartAt[l] = x
    <3>1. (CHOOSE l \in Locos : StartAt[l] = x) \in Locos
      BY <2>1
    <3>2. lock[x] = [state |-> "HardLocked",
                     owner |-> CHOOSE l \in Locos : StartAt[l] = x]
      BY <2>1 DEF Init
    <3>3. lock[x].state = "HardLocked" /\ lock[x].owner \in Locos
      BY <3>1, <3>2
    <3> QED
      BY <3>3, NoneIsNoLoco DEF Consistent
  <2>2. CASE ~\E l \in Locos : StartAt[l] = x
    BY <2>2 DEF Init, Consistent, FreeLock
  <2> QED
    BY <2>1, <2>2
<1> QED
  BY <1>1, <1>3, <1>4, <1>5 DEF TripInvariant, LocksOK

\* Who is on its way knows its route and where that leads.
LEMMA UnderWay ==
  ASSUME RoutesLead, TripInvariant, NEW l \in Locos
  PROVE  /\ Typed /\ TypeOK /\ Trip(l) /\ l \in Threads /\ l # None /\ l # Operator
         /\ Owned(from[l], l) /\ from[l] \in Tracks
         /\ at[l] \notin {"idle", "giveBack"} =>
              LET r == work[l] IN
              /\ r \in Routes /\ From[r] = from[l]
              /\ To[r] \in Tracks \ {from[l]}
              /\ giveBack[l] = <<>>
<1>1. Typed /\ TypeOK /\ Trip(l) /\ l \in Threads /\ l # None
  BY NoneIsNoLoco DEF TripInvariant, Typed, Threads
<1>2. from[l] \in Tracks /\ (at[l] \notin {"idle", "giveBack"} => work[l] \in Routes)
  BY <1>1 DEF TypeOK, ThreadTypes, WorkOK
<1>3. at[l] \notin {"idle", "giveBack"} => From[work[l]] = from[l]
  BY <1>1 DEF Trip
<1>4. at[l] # "giveBack" => giveBack[l] = <<>>
  BY <1>1 DEF Trip
<1> QED
  BY <1>1, <1>2, <1>3, <1>4, LayoutTypes DEF RoutesLead, Trip

\* An attempt that is undone.
LEMMA UndoReturns ==
  ASSUME TypeOK, NEW l \in Locos, NEW items, Undo(l, items)
  PROVE  /\ at'[l] = "giveBack" /\ giveBack'[l] = items /\ index'[l] = 1
         /\ \A m \in Locos \ {l} : at'[m] = at[m] /\ giveBack'[m] = giveBack[m]
  BY DEF Undo, Goto, TypeOK, ThreadTypes, Threads

LEMMA GotoTrip ==
  ASSUME TypeOK, NEW l \in Locos, NEW site, Goto(l, site)
  PROVE  /\ at'[l] = site /\ index'[l] = 1
         /\ \A m \in Threads \ {l} : at'[m] = at[m]
  BY DEF Goto, TypeOK, ThreadTypes, Threads

LEMMA GrantedTrip ==
  ASSUME RoutesLead, TripInvariant, Typed', NEW t \in Locos,
         at[t] \in CanSites \cup SetSites, Granted(t),
         UNCHANGED <<lock, countVars, from, work, caller>>
  PROVE  TripInvariant'
<1> DEFINE r == work[t]
<1>0. /\ at[t] \notin {"idle", "giveBack", "turnTrack"}
      /\ TypeOK /\ Trip(t) /\ t \in Threads
      /\ Owned(from[t], t) /\ r \in Routes /\ From[r] = from[t]
      /\ To[r] \in Tracks \ {from[t]} /\ giveBack[t] = <<>> /\ t # None
  <2>1. at[t] \notin {"idle", "giveBack", "turnTrack"}
    BY DEF CanSites, SetSites, TripInvariant, Typed, TypeOK, WorkOK
  <2> QED
    BY <2>1, UnderWay
<1>1. PICK site : /\ Goto(t, site)
                  /\ \/ at[t] = "reserveCan" /\ site = "reserveTrack"
                     \/ at[t] = "reserveSet" /\ site = "reserveCounters"
                     \/ /\ at[t] = "searchCan"
                        /\ site = IF caller[t] = "search" THEN "decide" ELSE "execute"
                     \/ at[t] = "prepareTo" /\ site \in {"prepareFrom", "running"}
                     \/ at[t] = "prepareFrom" /\ site = "running"
  BY <1>0 DEF Granted
<1>2. at'[t] = site /\ \A m \in Locos \ {t} : at'[m] = at[m]
  BY <1>0, <1>1, GotoTrip DEF Threads
<1>3. /\ UNCHANGED <<lock, executeAtUnlock, from, work, caller, giveBack>>
  BY DEF Granted, countVars
<1>4. /\ \A m \in Locos \ {t} : entry'[m] = entry[m]
      /\ entry'[t] = IF at[t] = "searchCan" /\ caller[t] = "search" THEN r ELSE entry[t]
  BY <1>0 DEF Granted, TypeOK, ThreadTypes
<1>5. at[t] \in Reserving => /\ Owned(r, t)
                             /\ \/ caller[t] = "search" /\ entry[t] = None
                                \/ caller[t] = "timetable" /\ entry[t] = r
  BY <1>0 DEF Trip
<1>6. LockStep(t) /\ Own(t)
  BY <1>2, <1>3, <1>4 DEF LockStep, Own
<1>7. entry'[t] # None => lock[entry'[t]].owner \in {None, t}
  BY <1>4, <1>5 DEF TripInvariant, Entries, Owned, Reserving
<1>8. Trip(t)'
  <2>1. entry'[t] # None => From[entry'[t]] = from[t]
    BY <1>0, <1>4 DEF Trip
  <2>2. at[t] \in {"reserveSet", "searchCan"} => Owned(To[r], t)
    BY <1>0 DEF Trip
  <2>3. CASE at[t] = "reserveCan"
    BY <2>3, <2>1, <1>0, <1>1, <1>2, <1>3, <1>4, <1>5
    DEF Trip, Owned, Reserving, Driving
  <2>4. CASE at[t] = "reserveSet"
    BY <2>4, <2>1, <2>2, <1>0, <1>1, <1>2, <1>3, <1>4, <1>5
    DEF Trip, Owned, Reserving, Driving
  <2>5. CASE at[t] = "searchCan"
    BY <2>5, <2>1, <2>2, <1>0, <1>1, <1>2, <1>3, <1>4, <1>5
    DEF Trip, Owned, Reserving, Driving
  <2>6. CASE at[t] \in {"prepareTo", "prepareFrom"}
    <3>1. entry[t] = None /\ Owned(r, t) /\ Owned(To[r], t) /\ executeAtUnlock[r]
      BY <2>6, <1>0 DEF Trip, Driving
    <3>2. site \in Driving
      BY <1>1, <2>6 DEF Driving
    <3> QED
      BY <2>6, <3>1, <3>2, <1>0, <1>2, <1>3, <1>4 DEF Trip, Owned, Reserving, Driving
  <2> QED
    BY <1>1, <2>3, <2>4, <2>5, <2>6
<1> QED
  BY <1>3, <1>6, <1>7, <1>8, TripFrame DEF TripInvariant, Executed

LEMMA RefusedTrip ==
  ASSUME RoutesLead, TripInvariant, Typed', NEW t \in Locos,
         at[t] \in CanSites \cup SetSites, Refused(t),
         UNCHANGED <<lock, countVars, from, work, caller>>
  PROVE  TripInvariant'
<1> DEFINE r == work[t]
<1>0. /\ at[t] \notin {"idle", "giveBack", "turnTrack"}
      /\ TypeOK /\ Trip(t) /\ t \in Threads
      /\ Owned(from[t], t) /\ r \in Routes /\ From[r] = from[t]
      /\ To[r] \in Tracks \ {from[t]} /\ giveBack[t] = <<>> /\ t # None
  <2>1. at[t] \notin {"idle", "giveBack", "turnTrack"}
    BY DEF CanSites, SetSites, TripInvariant, Typed, TypeOK, WorkOK
  <2> QED
    BY <2>1, UnderWay
<1>1. PICK items : /\ Undo(t, items)
                   /\ \/ at[t] \in {"reserveCan", "reserveSet"} /\ items = <<r>>
                      \/ at[t] = "searchCan" /\ items = <<r, To[r]>>
                      \/ at[t] \in {"prepareTo", "prepareFrom"} /\ items = <<>>
  BY <1>0 DEF Refused
<1>2. /\ at'[t] = "giveBack" /\ giveBack'[t] = items
      /\ \A m \in Locos \ {t} : at'[m] = at[m] /\ giveBack'[m] = giveBack[m]
  BY <1>0, <1>1, UndoReturns
<1>3. /\ UNCHANGED <<lock, executeAtUnlock, from, work, caller, entry>>
  BY DEF Refused, countVars
<1>4. LockStep(t) /\ Own(t)
  BY <1>2, <1>3 DEF LockStep, Own
<1>5. entry'[t] # None => lock[entry'[t]].owner \in {None, t}
  BY <1>3 DEF TripInvariant, Entries
<1>6. r # To[r]
  BY <1>0, LayoutTypes
<1>7. ASSUME items = <<>> PROVE Trip(t)'
  <2>1. entry[t] = None
    BY <1>0, <1>1, <1>7 DEF Trip, Driving
  <2>2. Returns(t)'
    BY <2>1, <1>0, <1>2, <1>3, <1>7, LayoutTypes DEF Returns, Items
  <2>3. Trip(t)'
    BY <2>1, <2>2, <1>0, <1>2, <1>3 DEF Trip, Owned, Reserving, Driving
  <2> QED
    BY <2>3
<1>8. ASSUME items # <<>> PROVE Trip(t)'
  <2>1. Owned(r, t) /\ entry[t] \in {None, r}
    BY <1>0, <1>1, <1>8 DEF Trip, Reserving
  <2>a. items = <<r>> \/ items = <<r, To[r]>>
    BY <1>1, <1>8
  <2>b. Items(<<r>>) = {r} /\ Items(<<r, To[r]>>) = {r, To[r]}
    BY <1>6, ShortLists
  <2>2. r \in Items(items) /\ items \in {<<r>>, <<r, To[r]>>}
    BY <2>a, <2>b
  <2>3. Returns(t)'
    BY <2>1, <2>2, <1>0, <1>2, <1>3 DEF Returns, Owned, Items
  <2>4. entry[t] # None => From[entry[t]] = from[t]
    BY <1>0 DEF Trip
  <2>5. Trip(t)'
    BY <2>3, <2>4, <1>0, <1>2, <1>3 DEF Trip, Owned, Reserving, Driving
  <2> QED
    BY <2>5
<1>9. \A q \in Routes : executeAtUnlock'[q] => lock'[q].owner # None
  BY <1>3 DEF TripInvariant, Executed
<1>a. \A q \in Routes : executeAtUnlock[q] /\ lock[q].owner # t => executeAtUnlock'[q]
  BY <1>3
<1>b. Trip(t)'
  BY <1>7, <1>8
<1>c. entry'[t] # None => lock'[entry'[t]].owner \in {None, t}
  BY <1>3, <1>5
<1> QED
  BY <1>4, <1>9, <1>a, <1>b, <1>c, TripFrame

\* Whatever happens inside a trackgroup or in a call of the operator.
LEMMA ClusterTrip ==
  ASSUME RoutesLead, TripInvariant, Typed', NEW t \in Threads, ClusterStep(t)
  PROVE  TripInvariant'
<1>0. Typed /\ TypeOK
  BY DEF TripInvariant, Typed
<1>1. UNCHANGED <<lock, countVars, from, work, caller>>
  BY DEF ClusterStep, AskNobody, AskTrack, AskCluster, Inspect, Turn
<1>2. at[t] \in CanSites \cup SetSites
  BY <1>0 DEF ClusterStep, AskNobody, AskTrack, AskCluster, Inspect, Turn,
    Calls, Typed, StepOK
<1>3. Granted(t) \/ Refused(t) \/ UNCHANGED <<at, entry, giveBack>>
  BY DEF ClusterStep, AskNobody, AskTrack, AskCluster, Inspect, Turn
<1>4. CASE t \in Locos /\ (Granted(t) \/ Refused(t))
  BY <1>1, <1>2, <1>4, GrantedTrip, RefusedTrip
<1>5. CASE UNCHANGED <<at, entry, giveBack>>
  BY <1>1, <1>5, TripStays DEF countVars
<1>6. CASE t = Operator /\ (Granted(t) \/ Refused(t))
  <2>1. at[t] = "turnTrack" /\ t \notin Locos
    BY <1>0, <1>2, <1>6, Asking, LayoutTypes
  <2>2. UNCHANGED <<entry, giveBack>> /\ Goto(t, "idle")
    BY <1>6, <2>1 DEF Granted, Refused
  <2>3. \A m \in Locos : at'[m] = at[m]
    BY <2>1, <2>2 DEF Goto
  <2> QED
    BY <1>1, <2>2, <2>3, TripStays DEF countVars
<1> QED
  BY <1>3, <1>4, <1>5, <1>6 DEF Threads

\* The steps of the automode thread concern its own train.
LEMMA LocoOwn ==
  ASSUME Typed, NEW l \in Locos, LocoStep(l)
  PROVE  Own(l)
<1>0. TypeOK
  BY DEF Typed
<1>1. \A m \in Locos \ {l} : at'[m] = at[m] /\ from'[m] = from[m] /\ work'[m] = work[m]
  BY LocoAlone DEF Alone, Threads
<1>2. \A m \in Locos \ {l} : entry'[m] = entry[m]
  BY <1>0 DEF LocoStep, Search, TryAgain, ReserveTrack, ReserveCounters, Decide,
         Execute, Arrive, GiveBack, GivenBack, TypeOK, ThreadTypes
<1>3. \A m \in Locos \ {l} : caller'[m] = caller[m]
  BY <1>0 DEF LocoStep, Search, TryAgain, ReserveTrack, ReserveCounters, Decide,
         Execute, Arrive, GiveBack, GivenBack, ReserveRoute, TypeOK, ThreadTypes
<1>4. \A m \in Locos \ {l} : giveBack'[m] = giveBack[m]
  BY <1>0 DEF LocoStep, Search, TryAgain, ReserveTrack, ReserveCounters, Decide,
         Execute, Arrive, GiveBack, GivenBack, Undo, TypeOK, ThreadTypes
<1> QED
  BY <1>1, <1>2, <1>3, <1>4 DEF Own

\* What reserving and locking make of a lock.
LEMMA Taking ==
  ASSUME NEW k \in Locks, NEW l \in Locos, Consistent(k)
  PROVE  /\ CanReserve(k, l) => /\ k.owner \in {None, l}
                                /\ Reserved(k, l).owner = l
                                /\ Consistent(Reserved(k, l))
         /\ CanLock(k, l) => /\ k.owner = l /\ Locked(k).owner = l
                             /\ Consistent(Locked(k))
         /\ Released(k, l) = (IF k.owner = l THEN FreeLock ELSE k)
         /\ k.state = "Free" => k.owner = None
         /\ k.state # "Free" => k.owner # None
<1>1. l # None
  BY NoneIsNoLoco
<1>2. CanReserve(k, l) => /\ k.owner \in {None, l}
                          /\ Reserved(k, l).owner = l
                          /\ Consistent(Reserved(k, l))
  BY <1>1 DEF CanReserve, InUse, Reserved, Consistent
<1>3. Locked(k).owner = k.owner /\ Locked(k).state = "HardLocked"
  BY DEF Locked, Locks
<1> QED
  BY <1>1, <1>2, <1>3 DEF CanLock, Consistent, Released, CanRelease

\* The reservation of a route, by the search or for the timetable.
LEMMA ReserveTrip ==
  ASSUME RoutesLead, TripInvariant, Typed', NEW l \in Locos, NEW r \in Routes,
         NEW who \in {"search", "timetable"}, ReserveRoute(l, r, who),
         From[r] = from[l], giveBack[l] = <<>>, Own(l),
         \/ who = "search" /\ entry[l] = None
         \/ who = "timetable" /\ entry[l] = r,
         UNCHANGED <<executeAtUnlock, from, entry, giveBack>>
  PROVE  TripInvariant'
<1>0. /\ TypeOK /\ Trip(l) /\ Owned(from[l], l) /\ from[l] \in Tracks
      /\ lock[r] \in Locks /\ Consistent(lock[r]) /\ l # None
  BY UnderWay DEF TripInvariant, LocksOK, TypeOK
<1>1. lock' = [lock EXCEPT ![r] = Reserved(lock[r], l)] /\ CanReserve(lock[r], l)
      /\ at'[l] = "reserveCan" /\ work'[l] = r /\ caller'[l] = who
  BY <1>0, GotoTrip DEF ReserveRoute, TypeOK, ThreadTypes
<1>2. /\ lock[r].owner \in {None, l} /\ lock'[r].owner = l
      /\ Consistent(lock'[r])
      /\ \A x \in (Tracks \cup Routes) \ {r} : lock'[x] = lock[x]
  <2>1. lock'[r] = Reserved(lock[r], l)
    BY <1>0, <1>1 DEF TypeOK
  <2> QED
    BY <1>0, <1>1, <2>1, Taking DEF TypeOK
<1>3. LockStep(l)
  BY <1>2 DEF LockStep
<1>4. Owned(from[l], l)'
  BY <1>0, <1>2, <1>3, LayoutTypes DEF Owned, LockStep
<1>5. Trip(l)'
  BY <1>1, <1>2, <1>4 DEF Trip, Owned, Reserving, Driving
<1>6. \A q \in Routes : executeAtUnlock'[q] => lock'[q].owner # None
  BY <1>0, <1>2 DEF TripInvariant, Executed
<1>7. entry'[l] # None => lock'[entry'[l]].owner \in {None, l}
  BY <1>2
<1> QED
  BY <1>3, <1>5, <1>6, <1>7, TripFrame

LEMMA SearchTrip ==
  ASSUME RoutesLead, TripInvariant, Typed', NEW l \in Locos, NEW r \in Routes,
         Search(l, r)
  PROVE  TripInvariant'
<1>1. Own(l)
  BY LocoOwn DEF LocoStep, TripInvariant
<1>2. /\ entry[l] = None /\ From[r] = from[l] /\ ReserveRoute(l, r, "search")
      /\ UNCHANGED <<executeAtUnlock, from, entry, giveBack>> /\ at[l] = "idle"
  BY DEF Search, Valid, countVars
<1>3. giveBack[l] = <<>>
  BY <1>2 DEF TripInvariant, Trip
<1> QED
  BY <1>1, <1>2, <1>3, ReserveTrip

LEMMA TryAgainTrip ==
  ASSUME RoutesLead, TripInvariant, Typed', NEW l \in Locos, TryAgain(l)
  PROVE  TripInvariant'
<1>0. TypeOK /\ Trip(l) /\ Owned(from[l], l)
  BY UnderWay
<1>1. Own(l)
  BY LocoOwn DEF LocoStep, TripInvariant
<1>2. /\ at[l] = "idle" /\ entry[l] # None /\ at'[l] = "decide" /\ work'[l] = entry[l]
      /\ UNCHANGED <<lock, executeAtUnlock, from, entry, giveBack>>
  BY <1>0, GotoTrip DEF TryAgain, countVars, TypeOK, ThreadTypes
<1>3. Trip(l)'
  BY <1>0, <1>2 DEF Trip, Owned, Reserving, Driving
<1>4. LockStep(l)
  BY <1>2 DEF LockStep
<1>5. \A q \in Routes : executeAtUnlock'[q] => lock'[q].owner # None
  BY <1>2 DEF TripInvariant, Executed
<1>6. entry'[l] # None => lock'[entry'[l]].owner \in {None, l}
  BY <1>2 DEF TripInvariant, Entries
<1> QED
  BY <1>1, <1>2, <1>3, <1>4, <1>5, <1>6, TripFrame

\* An attempt that is given up when route, destination or neither is held.
LEMMA UndoTrip ==
  ASSUME RoutesLead, TripInvariant, Typed', NEW l \in Locos,
         NEW items, Undo(l, items), LockStep(l), Own(l),
         at[l] \notin {"idle", "giveBack"},
         \A x \in Tracks \cup Routes : lock'[x].owner = lock[x].owner,
         entry[l] \in {None, work[l]},
         \/ items = <<>> /\ (entry[l] = None \/ ~Owned(work[l], l))
         \/ /\ items = <<work[l]>> \/ items = <<work[l], To[work[l]]>>
               \/ items = <<To[work[l]], work[l]>>
            /\ Owned(work[l], l),
         UNCHANGED <<executeAtUnlock, from, entry, work>>
  PROVE  TripInvariant'
<1> DEFINE r == work[l]
<1>0. /\ TypeOK /\ Trip(l) /\ Owned(from[l], l) /\ from[l] \in Tracks
      /\ r \in Routes /\ To[r] \in Tracks \ {from[l]} /\ From[r] = from[l]
  BY UnderWay
<1>1. at'[l] = "giveBack" /\ giveBack'[l] = items
  BY <1>0, UndoReturns
<1>2. r # To[r] /\ r # None
  BY <1>0, LayoutTypes
<1>3. /\ Items(<<>>) = {} /\ Items(<<r>>) = {r} /\ Items(<<r, To[r]>>) = {r, To[r]}
      /\ Items(<<To[r], r>>) = {r, To[r]}
  BY <1>2, ShortLists
<1>4. Returns(l)'
  <2>1. work'[l] = r /\ entry'[l] = entry[l] /\ from'[l] = from[l]
        /\ lock'[r].owner = lock[r].owner
    BY <1>0
  <2>2. CASE items = <<>> /\ (entry[l] = None \/ ~Owned(r, l))
    BY <2>1, <2>2, <1>0, <1>1, <1>2, <1>3 DEF Returns, Owned, Items
  <2>3. CASE items # <<>> /\ Owned(r, l)
    <3>1. r \in Items(giveBack'[l])
      BY <2>3, <1>1, <1>3
    <3>2. \/ items = <<r>>
          \/ \E x \in Tracks \ {from[l]} : items \in {<<x>>, <<r, x>>, <<x, r>>}
      BY <2>3, <1>0
    <3>3. r \in Items(giveBack[l])'
      BY <3>1 DEF Items
    <3> QED
      BY <2>1, <2>3, <3>2, <3>3, <1>0, <1>1 DEF Returns, Owned
  <2> QED
    BY <2>2, <2>3
<1>5. Trip(l)'
  BY <1>0, <1>1, <1>4 DEF Trip, Owned, Reserving, Driving
<1>6. \A q \in Routes : executeAtUnlock'[q] => lock'[q].owner # None
  BY DEF TripInvariant, Executed
<1>7. entry'[l] # None => lock'[entry'[l]].owner \in {None, l}
  BY <1>0 DEF TripInvariant, Entries
<1> QED
  BY <1>5, <1>6, <1>7, TripFrame

LEMMA ReserveTrackTrip ==
  ASSUME RoutesLead, TripInvariant, Typed', NEW l \in Locos, ReserveTrack(l)
  PROVE  TripInvariant'
<1> DEFINE r == work[l]
<1> DEFINE x == To[r]
<1>0. /\ TypeOK /\ Trip(l) /\ Owned(from[l], l) /\ from[l] \in Tracks
      /\ r \in Routes /\ x \in Tracks \ {from[l]} /\ From[r] = from[l]
      /\ x # r /\ giveBack[l] = <<>> /\ at[l] = "reserveTrack"
  BY UnderWay, LayoutTypes DEF ReserveTrack
<1>1. /\ UNCHANGED <<executeAtUnlock, from, entry, work, caller>>
      /\ Own(l)
  BY LocoOwn DEF LocoStep, TripInvariant, ReserveTrack, countVars
<1>2. /\ Owned(r, l)
      /\ \/ caller[l] = "search" /\ entry[l] = None
         \/ caller[l] = "timetable" /\ entry[l] = r
  BY <1>0 DEF Trip, Reserving
<1>3. CASE CanReserve(lock[x], l)
  <2>1. lock' = [lock EXCEPT ![x] = Reserved(lock[x], l)]
        /\ at'[l] = "reserveSet" /\ UNCHANGED giveBack
    BY <1>0, <1>3, GotoTrip DEF ReserveTrack
  <2>2. lock[x] \in Locks /\ Consistent(lock[x])
    BY <1>0 DEF TypeOK, TripInvariant, LocksOK
  <2>3. /\ lock[x].owner \in {None, l} /\ lock'[x].owner = l
        /\ Consistent(lock'[x])
        /\ \A y \in (Tracks \cup Routes) \ {x} : lock'[y] = lock[y]
    <3>1. lock'[x] = Reserved(lock[x], l)
      BY <1>0, <2>1 DEF TypeOK
    <3> QED
      BY <1>0, <1>3, <2>1, <2>2, <3>1, Taking DEF TypeOK
  <2>4. LockStep(l)
    BY <1>0, <2>3, LayoutTypes DEF LockStep
  <2>5. Owned(r, l)' /\ Owned(x, l)' /\ Owned(from[l], l)'
    BY <1>0, <1>1, <1>2, <2>3 DEF Owned
  <2>6. Trip(l)'
    BY <1>0, <1>1, <1>2, <2>1, <2>5 DEF Trip, Owned, Reserving, Driving
  <2>7. \A q \in Routes : executeAtUnlock'[q] => lock'[q].owner # None
    BY <1>0, <1>1, <2>3, LayoutTypes DEF TripInvariant, Executed
  <2>8. entry'[l] # None => lock'[entry'[l]].owner \in {None, l}
    BY <1>1, <1>2, <2>5 DEF Owned
  <2> QED
    BY <1>1, <2>4, <2>6, <2>7, <2>8, TripFrame
<1>4. CASE ~CanReserve(lock[x], l)
  <2>1. Undo(l, <<r>>) /\ UNCHANGED lock
    BY <1>4 DEF ReserveTrack
  <2>2. LockStep(l)
    BY <2>1 DEF LockStep
  <2> QED
    BY <1>0, <1>1, <1>2, <2>1, <2>2, UndoTrip
<1> QED
  BY <1>3, <1>4

LEMMA ReserveCountersTrip ==
  ASSUME RoutesLead, TripInvariant, Typed', NEW l \in Locos, ReserveCounters(l)
  PROVE  TripInvariant'
<1> DEFINE r == work[l]
<1>0. /\ TypeOK /\ Trip(l) /\ Owned(from[l], l) /\ from[l] \in Tracks
      /\ r \in Routes /\ To[r] \in Tracks \ {from[l]} /\ From[r] = from[l]
      /\ giveBack[l] = <<>> /\ at[l] = "reserveCounters"
  BY UnderWay DEF ReserveCounters
<1>1. /\ UNCHANGED <<lock, executeAtUnlock, from, entry, work, caller>>
      /\ Own(l)
  BY LocoOwn DEF LocoStep, TripInvariant, ReserveCounters, countVars
<1>2. /\ Owned(r, l) /\ Owned(To[r], l)
      /\ \/ caller[l] = "search" /\ entry[l] = None
         \/ caller[l] = "timetable" /\ entry[l] = r
  BY <1>0 DEF Trip, Reserving
<1>3. LockStep(l)
  BY <1>1 DEF LockStep
<1>4. CASE Undo(l, <<To[r], r>>)
  BY <1>0, <1>1, <1>2, <1>3, <1>4, UndoTrip
<1>5. CASE Goto(l, "searchCan") /\ UNCHANGED giveBack
  <2>1. at'[l] = "searchCan"
    BY <1>0, <1>5, GotoTrip
  <2>2. Trip(l)'
    BY <1>0, <1>1, <1>2, <1>5, <2>1 DEF Trip, Owned, Reserving, Driving
  <2>3. \A q \in Routes : executeAtUnlock'[q] => lock'[q].owner # None
    BY <1>1 DEF TripInvariant, Executed
  <2>4. entry'[l] # None => lock'[entry'[l]].owner \in {None, l}
    BY <1>1, <1>2 DEF Owned
  <2> QED
    BY <1>1, <1>3, <2>2, <2>3, <2>4, TripFrame
<1> QED
  BY <1>4, <1>5 DEF ReserveCounters

LEMMA DecideTrip ==
  ASSUME RoutesLead, TripInvariant, Typed', NEW l \in Locos, Decide(l)
  PROVE  TripInvariant'
<1> DEFINE r == work[l]
<1> DEFINE x == To[r]
<1>0. /\ TypeOK /\ Trip(l) /\ Owned(from[l], l) /\ from[l] \in Tracks
      /\ r \in Routes /\ x \in Tracks \ {from[l]} /\ From[r] = from[l]
      /\ x # r /\ giveBack[l] = <<>> /\ at[l] = "decide"
  BY UnderWay, LayoutTypes DEF Decide
<1>1. /\ UNCHANGED <<executeAtUnlock, from, entry>> /\ Own(l)
  BY LocoOwn DEF LocoStep, TripInvariant, Decide, countVars
<1>2. /\ entry[l] = r /\ (Owned(r, l) => Owned(x, l)) /\ r # None
      /\ lock[r].owner \in {None, l}
  BY <1>0, LayoutTypes DEF Trip, TripInvariant, Entries
<1>3. /\ lock[r] \in Locks /\ Consistent(lock[r])
      /\ lock[x] \in Locks /\ Consistent(lock[x])
  BY <1>0 DEF TypeOK, TripInvariant, LocksOK
<1>4. CASE ReserveRoute(l, r, "timetable") /\ UNCHANGED giveBack
  BY <1>0, <1>1, <1>2, <1>4, ReserveTrip
<1>5. CASE lock[r].state = "HardLocked" /\ Goto(l, "execute")
           /\ UNCHANGED <<lock, giveBack, work, caller>>
  <2>1. at'[l] = "execute"
    BY <1>0, <1>5, GotoTrip
  <2>2. Owned(r, l) /\ Owned(x, l)
    BY <1>2, <1>3, <1>5, Taking DEF Owned
  <2>3. Trip(l)'
    BY <1>0, <1>1, <1>2, <1>5, <2>1, <2>2 DEF Trip, Owned, Reserving, Driving
  <2>4. LockStep(l)
    BY <1>5 DEF LockStep
  <2>5. \A q \in Routes : executeAtUnlock'[q] => lock'[q].owner # None
    BY <1>1, <1>5 DEF TripInvariant, Executed
  <2>6. entry'[l] # None => lock'[entry'[l]].owner \in {None, l}
    BY <1>1, <1>2, <1>5
  <2> QED
    BY <1>1, <2>3, <2>4, <2>5, <2>6, TripFrame
<1>6. CASE lock[r].state = "Reserved" /\ ~CanLock(lock[r], l)
           /\ Undo(l, <<>>) /\ UNCHANGED <<lock, work, caller>>
  <2>1. ~Owned(r, l)
    BY <1>6 DEF CanLock, Owned
  <2>2. LockStep(l)
    BY <1>6 DEF LockStep
  <2> QED
    BY <1>0, <1>1, <1>2, <1>6, <2>1, <2>2, UndoTrip
<1>7. CASE lock[r].state = "Reserved" /\ CanLock(lock[r], l) /\ ~CanLock(lock[x], l)
           /\ lock' = [lock EXCEPT ![r] = Locked(lock[r])]
           /\ Undo(l, <<r>>) /\ UNCHANGED <<work, caller>>
  <2>1. lock'[r] = Locked(lock[r])
        /\ \A y \in (Tracks \cup Routes) \ {r} : lock'[y] = lock[y]
    BY <1>0, <1>7 DEF TypeOK
  <2>2. lock[r].owner = l /\ lock'[r].owner = l /\ Consistent(lock'[r])
    BY <1>3, <1>7, <2>1, Taking
  <2>3. LockStep(l)
    BY <1>0, <2>1, <2>2 DEF LockStep
  <2>4. \A y \in Tracks \cup Routes : lock'[y].owner = lock[y].owner
    BY <2>1, <2>2
  <2>5. Owned(r, l)
    BY <2>2 DEF Owned
  <2> QED
    BY <1>0, <1>1, <1>2, <1>7, <2>3, <2>4, <2>5, UndoTrip
<1>8. CASE lock[r].state = "Reserved" /\ CanLock(lock[r], l) /\ CanLock(lock[x], l)
           /\ lock' = [lock EXCEPT ![r] = Locked(lock[r]), ![x] = Locked(lock[x])]
           /\ ((Goto(l, "execute") /\ UNCHANGED giveBack) \/ Undo(l, <<x, r>>))
           /\ UNCHANGED <<work, caller>>
  <2>1. lock'[r] = Locked(lock[r]) /\ lock'[x] = Locked(lock[x])
        /\ \A y \in (Tracks \cup Routes) \ {r, x} : lock'[y] = lock[y]
    BY <1>0, <1>8 DEF TypeOK
  <2>2. /\ lock[r].owner = l /\ lock'[r].owner = l /\ Consistent(lock'[r])
        /\ lock[x].owner = l /\ lock'[x].owner = l /\ Consistent(lock'[x])
    BY <1>3, <1>8, <2>1, Taking
  <2>3. LockStep(l)
    BY <1>0, <2>1, <2>2, LayoutTypes DEF LockStep
  <2>4. \A y \in Tracks \cup Routes : lock'[y].owner = lock[y].owner
    BY <2>1, <2>2
  <2>5. Owned(r, l)
    BY <2>2 DEF Owned
  <2>6. CASE Undo(l, <<x, r>>)
    BY <1>0, <1>1, <1>2, <1>8, <2>3, <2>4, <2>5, <2>6, UndoTrip
  <2>7. CASE Goto(l, "execute") /\ UNCHANGED giveBack
    <3>1. at'[l] = "execute"
      BY <1>0, <2>7, GotoTrip
    <3>2. Owned(r, l)' /\ Owned(x, l)' /\ Owned(from[l], l)'
      BY <1>0, <1>1, <1>8, <2>2, <2>4 DEF Owned
    <3>3. Trip(l)'
      BY <1>0, <1>1, <1>2, <1>8, <2>7, <3>1, <3>2
      DEF Trip, Owned, Reserving, Driving
    <3>4. \A q \in Routes : executeAtUnlock'[q] => lock'[q].owner # None
      BY <1>1, <2>4 DEF TripInvariant, Executed
    <3>5. entry'[l] # None => lock'[entry'[l]].owner \in {None, l}
      BY <1>1, <1>2, <2>2
    <3> QED
      BY <1>1, <2>3, <3>3, <3>4, <3>5, TripFrame
  <2> QED
    BY <1>8, <2>6, <2>7
<1> QED
  BY <1>4, <1>5, <1>6, <1>7, <1>8 DEF Decide

LEMMA ExecuteTrip ==
  ASSUME RoutesLead, TripInvariant, Typed', NEW l \in Locos, Execute(l)
  PROVE  TripInvariant'
<1> DEFINE r == work[l]
<1>0. /\ TypeOK /\ Trip(l) /\ Owned(from[l], l) /\ from[l] \in Tracks
      /\ r \in Routes /\ To[r] \in Tracks \ {from[l]} /\ From[r] = from[l]
      /\ giveBack[l] = <<>> /\ at[l] = "execute" /\ l # None
  BY UnderWay DEF Execute
<1>1. UNCHANGED <<lock, from, work, caller>> /\ Own(l) /\ LockStep(l)
  BY LocoOwn DEF LocoStep, TripInvariant, Execute, LockStep
<1>2. entry[l] = r /\ Owned(r, l) /\ Owned(To[r], l)
  BY <1>0 DEF Trip
<1>3. CASE Undo(l, <<r, To[r]>>) /\ UNCHANGED <<countVars, entry>>
  BY <1>0, <1>1, <1>2, <1>3, UndoTrip DEF countVars
<1>4. CASE UNCHANGED <<executeAtUnlock, at, giveBack, entry>>
  <2>1. \A m \in Locos :
          /\ from'[m] = from[m] /\ entry'[m] = entry[m] /\ work'[m] = work[m]
          /\ caller'[m] = caller[m] /\ at'[m] = at[m] /\ giveBack'[m] = giveBack[m]
    BY <1>1, <1>4
  <2> QED
    BY <1>1, <1>4, <2>1, TripStays
<1>5. CASE /\ executeAtUnlock' = [executeAtUnlock EXCEPT ![r] = @ \/ InUse(lock[r])]
           /\ entry' = [entry EXCEPT ![l] = None]
           /\ Goto(l, "prepareTo") /\ UNCHANGED giveBack
  <2>1. at'[l] = "prepareTo" /\ entry'[l] = None
    BY <1>0, <1>5, GotoTrip DEF TypeOK, ThreadTypes
  <2>2. InUse(lock[r])
    BY <1>0, <1>2 DEF InUse, Owned
  <2>3. executeAtUnlock'[r] = TRUE
    BY <1>0, <1>5, <2>2 DEF TypeOK, CountTypes
  <2>4. \A q \in Routes \ {r} : executeAtUnlock'[q] = executeAtUnlock[q]
    BY <1>0, <1>5 DEF TypeOK, CountTypes
  <2>5. Trip(l)'
    BY <1>0, <1>1, <1>2, <1>5, <2>1, <2>3 DEF Trip, Owned, Reserving, Driving
  <2>6. \A q \in Routes : executeAtUnlock'[q] => lock'[q].owner # None
    BY <1>0, <1>1, <1>2, <2>4 DEF TripInvariant, Executed, Owned
  <2>7. \A q \in Routes : executeAtUnlock[q] /\ lock[q].owner # l => executeAtUnlock'[q]
    BY <2>3, <2>4
  <2> QED
    BY <1>1, <2>1, <2>5, <2>6, <2>7, TripFrame
<1> QED
  BY <1>3, <1>4, <1>5 DEF Execute

LEMMA ArriveTrip ==
  ASSUME RoutesLead, TripInvariant, Typed', NEW l \in Locos, Arrive(l)
  PROVE  TripInvariant'
<1> DEFINE r == work[l]
<1> DEFINE x == from[l]
<1>0. /\ TypeOK /\ Trip(l) /\ Owned(x, l) /\ x \in Tracks
      /\ r \in Routes /\ To[r] \in Tracks \ {x} /\ From[r] = x
      /\ giveBack[l] = <<>> /\ at[l] = "running"
  <2>1. at[l] = "running" /\ at[l] \notin {"idle", "giveBack"}
    BY DEF Arrive
  <2> QED
    BY <2>1, UnderWay
<1>a. r # None /\ r # x
  BY <1>0, LayoutTypes
<1>1. UNCHANGED <<lock, executeAtUnlock, entry, work, caller>> /\ Own(l) /\ LockStep(l)
  BY LocoOwn DEF LocoStep, TripInvariant, Arrive, LockStep, countVars
<1>2. entry[l] = None /\ Owned(r, l) /\ Owned(To[r], l)
  BY <1>0 DEF Trip, Driving
<1>3. from'[l] = To[r] /\ at'[l] = "giveBack" /\ giveBack'[l] = <<x, r>>
  BY <1>0, UndoReturns DEF Arrive, TypeOK, ThreadTypes
<1>4. Returns(l)'
  <2>1. \E y \in Tracks \ {from'[l]} : giveBack'[l] = <<y, r>>
    BY <1>0, <1>3
  <2>2. Owned(r, l)' /\ work'[l] = r /\ entry'[l] = None
    BY <1>1, <1>2 DEF Owned
  <2> QED
    BY <1>0, <1>a, <2>1, <2>2 DEF Returns
<1>5. Trip(l)'
  BY <1>1, <1>2, <1>3, <1>4 DEF Trip, Owned, Reserving, Driving
<1>6. \A q \in Routes : executeAtUnlock'[q] => lock'[q].owner # None
  BY <1>1 DEF TripInvariant, Executed
<1> QED
  BY <1>1, <1>2, <1>5, <1>6, TripFrame

\* What is given back, and what remains.
LEMMA ReturnsNext ==
  ASSUME TypeOK, RoutesLead, NEW l \in Locos, Returns(l), giveBack[l] # <<>>
  PROVE  LET r == work[l]
             y == Head(giveBack[l])
             rest == Tail(giveBack[l])
         IN  /\ y \in Tracks \cup Routes
             /\ \/ y = r /\ r \in Items(giveBack[l]) /\ r \notin Items(rest)
                \/ /\ y \in Tracks \ {from[l]}
                   /\ r \in Items(rest) <=> r \in Items(giveBack[l])
             /\ \/ rest \in {<<>>, <<r>>}
                \/ \E x \in Tracks \ {from[l]} : rest = <<x>>
<1> DEFINE r == work[l]
<1>0. r \in Routes
  BY DEF Returns
<1>1. \A x \in Tracks : r # x
  BY <1>0, LayoutTypes
<1>2. CASE giveBack[l] = <<r>>
  <2>1. Head(<<r>>) = r /\ Tail(<<r>>) = <<>> /\ Items(<<r>>) = {r} /\ Items(<<>>) = {}
    BY <1>1, LayoutTypes, ShortLists
  <2> QED
    BY <1>0, <1>2, <2>1
<1>3. ASSUME NEW x \in Tracks \ {from[l]},
             giveBack[l] = <<x>> \/ giveBack[l] = <<r, x>> \/ giveBack[l] = <<x, r>>
      PROVE  /\ Head(giveBack[l]) \in Tracks \cup Routes
             /\ \/ /\ Head(giveBack[l]) = r /\ r \in Items(giveBack[l])
                   /\ r \notin Items(Tail(giveBack[l]))
                \/ /\ Head(giveBack[l]) \in Tracks \ {from[l]}
                   /\ r \in Items(Tail(giveBack[l])) <=> r \in Items(giveBack[l])
             /\ \/ Tail(giveBack[l]) \in {<<>>, <<r>>}
                \/ Tail(giveBack[l]) = <<x>>
  <2>1. r # x
    BY <1>1
  <2>2. /\ Items(<<>>) = {} /\ Items(<<r>>) = {r} /\ Items(<<x>>) = {x}
        /\ Items(<<r, x>>) = {r, x} /\ Items(<<x, r>>) = {r, x}
    BY <2>1, ShortLists
  <2>3. /\ Head(<<x>>) = x /\ Tail(<<x>>) = <<>>
        /\ Head(<<r, x>>) = r /\ Tail(<<r, x>>) = <<x>>
        /\ Head(<<x, r>>) = x /\ Tail(<<x, r>>) = <<r>>
    BY <2>1, ShortLists
  <2>4. CASE giveBack[l] = <<x>>
    BY <2>1, <2>2, <2>3, <2>4
  <2>5. CASE giveBack[l] = <<r, x>>
    BY <1>0, <2>1, <2>2, <2>3, <2>5
  <2>6. CASE giveBack[l] = <<x, r>>
    BY <2>1, <2>2, <2>3, <2>6
  <2> QED
    BY <1>3, <2>4, <2>5, <2>6
<1> QED
  BY <1>2, <1>3 DEF Returns

LEMMA GiveBackTrip ==
  ASSUME RoutesLead, TripInvariant, Typed', NEW l \in Locos, GiveBack(l)
  PROVE  TripInvariant'
<1> DEFINE r == work[l]
<1> DEFINE y == Head(giveBack[l])
<1> DEFINE rest == Tail(giveBack[l])
<1>0. /\ TypeOK /\ Trip(l) /\ Owned(from[l], l) /\ from[l] \in Tracks
      /\ at[l] = "giveBack" /\ giveBack[l] # <<>> /\ l # None
  BY UnderWay DEF GiveBack
<1>1. UNCHANGED <<from, entry, work, caller, at>> /\ Own(l)
  BY LocoOwn DEF LocoStep, TripInvariant, GiveBack
<1>2. Returns(l) /\ r \in Routes /\ r # None
  BY <1>0, LayoutTypes DEF Trip, Returns
<1>3. CASE UNCHANGED <<lock, executeAtUnlock, giveBack>>
  <2>1. \A m \in Locos :
          /\ from'[m] = from[m] /\ entry'[m] = entry[m] /\ work'[m] = work[m]
          /\ caller'[m] = caller[m] /\ at'[m] = at[m] /\ giveBack'[m] = giveBack[m]
    BY <1>1, <1>3
  <2> QED
    BY <1>3, <2>1, TripStays
<1>4. CASE /\ lock' = [lock EXCEPT ![y] = Released(lock[y], l)]
           /\ executeAtUnlock' = [q \in Routes |-> executeAtUnlock[q] /\ q # y]
           /\ giveBack' = [giveBack EXCEPT ![l] = rest]
  <2>1. /\ y \in Tracks \cup Routes
        /\ \/ y = r /\ r \in Items(giveBack[l]) /\ r \notin Items(rest)
           \/ /\ y \in Tracks \ {from[l]}
              /\ r \in Items(rest) <=> r \in Items(giveBack[l])
        /\ \/ rest \in {<<>>, <<r>>}
           \/ \E x \in Tracks \ {from[l]} : rest = <<x>>
    BY <1>0, <1>2, ReturnsNext
  <2>2. y = r => Owned(r, l)
    BY <1>2, <2>1, LayoutTypes DEF Returns
  <2>3. y # from[l] /\ (y # r => y \notin Routes)
    BY <1>0, <1>2, <2>1, LayoutTypes
  <2>4. /\ lock'[y] = IF lock[y].owner = l THEN FreeLock ELSE lock[y]
        /\ \A x \in (Tracks \cup Routes) \ {y} : lock'[x] = lock[x]
    <3>1. lock[y] \in Locks /\ Consistent(lock[y])
      BY <1>0, <2>1 DEF TypeOK, TripInvariant, LocksOK
    <3>2. lock'[y] = Released(lock[y], l)
      BY <1>0, <1>4, <2>1 DEF TypeOK
    <3>3. \A x \in (Tracks \cup Routes) \ {y} : lock'[x] = lock[x]
      BY <1>0, <1>4, <2>1 DEF TypeOK
    <3> QED
      BY <3>1, <3>2, <3>3, Taking
  <2>5. LockStep(l)
    BY <2>4 DEF LockStep
  <2>6. giveBack'[l] = rest
    BY <1>0, <1>4 DEF TypeOK, ThreadTypes
  <2>7. /\ Owned(from[l], l)'
        /\ y = r => ~Owned(r, l)'
        /\ y # r => (Owned(r, l)' <=> Owned(r, l))
    <3>1. lock'[from[l]] = lock[from[l]] /\ from'[l] = from[l] /\ work'[l] = r
      BY <1>0, <1>1, <2>3, <2>4
    <3>2. y = r => lock'[r].owner # l
      BY <1>0, <2>2, <2>4 DEF Owned, FreeLock
    <3>3. y # r => lock'[r] = lock[r]
      BY <1>2, <2>4
    <3> QED
      BY <1>0, <3>1, <3>2, <3>3 DEF Owned
  <2>8. Returns(l)'
    <3>1. from'[l] = from[l] /\ work'[l] = r /\ entry'[l] = entry[l]
      BY <1>1
    <3>2. /\ r \in Items(rest) => Owned(r, l)'
          /\ entry[l] = r => r \in Items(rest) \/ ~Owned(r, l)'
      <4>1. CASE y = r
        BY <4>1, <2>1, <2>7, <1>2, LayoutTypes
      <4>2. CASE y # r
        BY <4>2, <2>1, <2>7, <1>2 DEF Returns
      <4> QED
        BY <4>1, <4>2
    <3>3. entry[l] \in {None, r}
      BY <1>2 DEF Returns
    <3> QED
      BY <1>2, <2>1, <2>6, <3>1, <3>2, <3>3 DEF Returns, Items
  <2>9. Trip(l)'
    BY <1>0, <1>1, <2>7, <2>8 DEF Trip, Owned, Reserving, Driving
  <2>a. \A q \in Routes : executeAtUnlock'[q] => lock'[q].owner # None
    BY <1>0, <1>4, <2>4 DEF TripInvariant, Executed
  <2>b. \A q \in Routes : executeAtUnlock[q] /\ lock[q].owner # l => executeAtUnlock'[q]
    BY <1>0, <1>4, <2>2, <2>3 DEF TypeOK, CountTypes, Owned
  <2>c. entry'[l] # None => lock'[entry'[l]].owner \in {None, l}
    <3>1. entry'[l] = entry[l] /\ (entry[l] # None => entry[l] = r)
      BY <1>1, <1>2 DEF Returns
    <3>2. entry[l] # None => lock[entry[l]].owner \in {None, l}
      BY DEF TripInvariant, Entries
    <3> QED
      BY <1>2, <2>4, <3>1, <3>2 DEF FreeLock
  <2> QED
    BY <1>1, <2>5, <2>9, <2>a, <2>b, <2>c, TripFrame
<1> QED
  BY <1>3, <1>4 DEF GiveBack

LEMMA GivenBackTrip ==
  ASSUME RoutesLead, TripInvariant, Typed', NEW l \in Locos, GivenBack(l)
  PROVE  TripInvariant'
<1>0. /\ TypeOK /\ Trip(l) /\ Owned(from[l], l)
      /\ at[l] = "giveBack" /\ giveBack[l] = <<>>
  BY UnderWay DEF GivenBack
<1>1. /\ UNCHANGED <<lock, executeAtUnlock, from, entry, giveBack>>
      /\ Own(l) /\ LockStep(l) /\ at'[l] = "idle"
  BY <1>0, LocoOwn, GotoTrip
  DEF LocoStep, TripInvariant, GivenBack, LockStep, countVars
<1>2. entry[l] # None => ~Owned(entry[l], l)
  <2>1. Items(<<>>) = {}
    BY DEF Items
  <2> QED
    BY <1>0, <2>1 DEF Trip, Returns
<1>3. Trip(l)'
  BY <1>0, <1>1, <1>2 DEF Trip, Owned, Reserving, Driving
<1>4. \A q \in Routes : executeAtUnlock'[q] => lock'[q].owner # None
  BY <1>1 DEF TripInvariant, Executed
<1>5. entry'[l] # None => lock'[entry'[l]].owner \in {None, l}
  BY <1>1 DEF TripInvariant, Entries
<1> QED
  BY <1>1, <1>3, <1>4, <1>5, TripFrame

LEMMA TripStep ==
  ASSUME RoutesLead, TripInvariant, [Next]_vars
  PROVE  TripInvariant'
<1>0. Typed'
  BY TypedStep DEF TripInvariant
<1>1. ASSUME NEW t \in Threads, ClusterStep(t) PROVE TripInvariant'
  BY <1>0, <1>1, ClusterTrip
<1>2. ASSUME NEW l \in Locos, LocoStep(l) PROVE TripInvariant'
  BY <1>0, <1>2, SearchTrip, TryAgainTrip, ReserveTrackTrip, ReserveCountersTrip,
     DecideTrip, ExecuteTrip, ArriveTrip, GiveBackTrip, GivenBackTrip DEF LocoStep
<1>3. ASSUME NEW x \in ByHand, NEW o \in BOOLEAN, TurnTrack(x, o) PROVE TripInvariant'
  <2>1. UNCHANGED <<lock, executeAtUnlock, from, entry, work, caller, giveBack>>
        /\ Goto(Operator, "turnTrack")
    BY <1>3 DEF TurnTrack, countVars
  <2>2. \A m \in Locos : at'[m] = at[m]
    BY <2>1, LayoutTypes DEF Goto
  <2>3. \A m \in Locos :
          /\ from'[m] = from[m] /\ entry'[m] = entry[m] /\ work'[m] = work[m]
          /\ caller'[m] = caller[m] /\ at'[m] = at[m] /\ giveBack'[m] = giveBack[m]
    BY <2>1, <2>2
  <2> QED
    BY <1>0, <2>1, <2>3, TripStays
<1>4. CASE UNCHANGED vars
  <2>1. /\ UNCHANGED <<lock, executeAtUnlock>>
        /\ \A m \in Locos :
             /\ from'[m] = from[m] /\ entry'[m] = entry[m] /\ work'[m] = work[m]
             /\ caller'[m] = caller[m] /\ at'[m] = at[m] /\ giveBack'[m] = giveBack[m]
    BY <1>4 DEF vars, countVars, threadVars
  <2> QED
    BY <1>0, <2>1, TripStays
<1> QED
  BY <1>1, <1>2, <1>3, <1>4 DEF Next

(***************************************************************************)
(* What has been counted and not been counted back, as places in the lists   *)
(* of the routes.  A route that is being executed is counted up to the index *)
(* of its thread, one that is executed completely, one that is given back    *)
(* from the index on.  Every counter is at least the number of its places:   *)
(* Execute adds a place only with a count, and the release takes it away     *)
(* only once, because two trains never have the same route.                  *)
(***************************************************************************)
Back(r, l) == at[l] = "giveBack" /\ giveBack[l] # <<>> /\ Head(giveBack[l]) = r

Places(r) ==
  {i \in 1..Len(Counts[r]) :
     IF executeAtUnlock[r]
     THEN \A l \in Locos : Back(r, l) => i >= index[l]
     ELSE \E l \in Locos : at[l] = "execute" /\ work[l] = r /\ i < index[l]}

Outstanding(c) ==
  {p \in Routes \X Nat : p[2] \in Places(p[1]) /\ Counts[p[1]][p[2]] = c}

Counted ==
  \A c \in Counters : /\ IsFiniteSet(Outstanding(c))
                      /\ Cardinality(Outstanding(c)) <= counter[c]

LEMMA PlacesOf ==
  ASSUME NEW r \in Routes, NEW c
  PROVE  /\ Places(r) \subseteq 1..Len(Counts[r]) /\ Len(Counts[r]) \in Nat
         /\ \A i \in Places(r) : Counts[r][i] = c => <<r, i>> \in Outstanding(c)
<1>1. Len(Counts[r]) \in Nat
  BY LayoutTypes
<1>2. Places(r) \subseteq 1..Len(Counts[r])
  BY DEF Places
<1>3. ASSUME NEW i \in Places(r), Counts[r][i] = c PROVE <<r, i>> \in Outstanding(c)
  <2>1. i \in Nat
    BY <1>1, <1>2
  <2> QED
    BY <1>3, <2>1 DEF Outstanding
<1> QED
  BY <1>1, <1>2, <1>3

\* Fewer places, and no counter counts down.
LEMMA CountedFrame ==
  ASSUME TypeOK, Counted, UNCHANGED counter,
         \A r \in Routes : Places(r)' \subseteq Places(r)
  PROVE  Counted'
<1> SUFFICES ASSUME NEW c \in Counters
             PROVE  /\ IsFiniteSet(Outstanding(c)')
                    /\ Cardinality(Outstanding(c)') <= counter[c]
  BY DEF Counted
<1>1. Outstanding(c)' \in SUBSET Outstanding(c)
  BY DEF Outstanding
<1>2. IsFiniteSet(Outstanding(c)) /\ Cardinality(Outstanding(c)) <= counter[c]
      /\ counter[c] \in Nat
  BY DEF Counted, TypeOK, CountTypes
<1>3. Cardinality(Outstanding(c)) \in Nat
  BY <1>2, FS_CardinalityType
<1>4. IsFiniteSet(Outstanding(c)')
      /\ Cardinality(Outstanding(c)') <= Cardinality(Outstanding(c))
  BY <1>1, <1>2, FS_Subset
<1>5. Cardinality(Outstanding(c)') \in Nat
  BY <1>4, FS_CardinalityType
<1> QED
  BY <1>2, <1>3, <1>4, <1>5

\* One place more, and its counter counts.
LEMMA CountedUp ==
  ASSUME TypeOK, Counted, NEW r \in Routes, NEW i \in 1..Len(Counts[r]),
         counter' = [counter EXCEPT ![Counts[r][i]] = @ + 1],
         \A q \in Routes \ {r} : Places(q)' \subseteq Places(q),
         Places(r)' \subseteq Places(r) \cup {i}
  PROVE  Counted'
<1> SUFFICES ASSUME NEW c \in Counters
             PROVE  /\ IsFiniteSet(Outstanding(c)')
                    /\ Cardinality(Outstanding(c)') <= counter'[c]
  BY DEF Counted
<1>0. Counts[r][i] \in Counters
  BY LayoutTypes
<1>1. IsFiniteSet(Outstanding(c)) /\ Cardinality(Outstanding(c)) <= counter[c]
      /\ counter[c] \in Nat
  BY DEF Counted, TypeOK, CountTypes
<1>2. Cardinality(Outstanding(c)) \in Nat
  BY <1>1, FS_CardinalityType
<1>3. CASE c # Counts[r][i]
  <2>1. counter'[c] = counter[c]
    BY <1>0, <1>3 DEF TypeOK, CountTypes
  <2>2. Outstanding(c)' \in SUBSET Outstanding(c)
    BY <1>3 DEF Outstanding
  <2>3. IsFiniteSet(Outstanding(c)')
        /\ Cardinality(Outstanding(c)') <= Cardinality(Outstanding(c))
    BY <2>2, <1>1, FS_Subset
  <2>4. Cardinality(Outstanding(c)') \in Nat
    BY <2>3, FS_CardinalityType
  <2> QED
    BY <1>1, <1>2, <2>1, <2>3, <2>4
<1>4. CASE c = Counts[r][i]
  <2> DEFINE S == Outstanding(c) \cup {<<r, i>>}
  <2>1. counter'[c] = counter[c] + 1
    BY <1>0, <1>4 DEF TypeOK, CountTypes
  <2>2. Outstanding(c)' \in SUBSET S
    BY DEF Outstanding
  <2>3. IsFiniteSet(S)
        /\ Cardinality(S) \in {Cardinality(Outstanding(c)), Cardinality(Outstanding(c)) + 1}
    BY <1>1, FS_AddElement
  <2>4. IsFiniteSet(Outstanding(c)') /\ Cardinality(Outstanding(c)') <= Cardinality(S)
    BY <2>2, <2>3, FS_Subset
  <2>5. Cardinality(Outstanding(c)') \in Nat /\ Cardinality(S) \in Nat
    BY <2>3, <2>4, FS_CardinalityType
  <2> HIDE DEF S
  <2> QED
    BY <1>1, <1>2, <2>1, <2>3, <2>4, <2>5
<1> QED
  BY <1>3, <1>4

\* A place is taken away, and its counter counts down.
LEMMA CountedDown ==
  ASSUME TypeOK, Counted, NEW r \in Routes, NEW i \in 1..Len(Counts[r]),
         CountDown(Counts[r][i]), i \in Places(r),
         \A q \in Routes \ {r} : Places(q)' \subseteq Places(q),
         Places(r)' \subseteq Places(r) \ {i}
  PROVE  Counted'
<1> SUFFICES ASSUME NEW c \in Counters
             PROVE  /\ IsFiniteSet(Outstanding(c)')
                    /\ Cardinality(Outstanding(c)') <= counter'[c]
  BY DEF Counted
<1>0. Counts[r][i] \in Counters
  BY LayoutTypes
<1>1. IsFiniteSet(Outstanding(c)) /\ Cardinality(Outstanding(c)) <= counter[c]
      /\ counter[c] \in Nat
  BY DEF Counted, TypeOK, CountTypes
<1>2. Cardinality(Outstanding(c)) \in Nat
  BY <1>1, FS_CardinalityType
<1>3. CASE c # Counts[r][i]
  <2>1. counter'[c] = counter[c]
    BY <1>0, <1>3 DEF TypeOK, CountTypes, CountDown
  <2>2. Outstanding(c)' \in SUBSET Outstanding(c)
    BY <1>3 DEF Outstanding
  <2>3. IsFiniteSet(Outstanding(c)')
        /\ Cardinality(Outstanding(c)') <= Cardinality(Outstanding(c))
    BY <2>2, <1>1, FS_Subset
  <2>4. Cardinality(Outstanding(c)') \in Nat
    BY <2>3, FS_CardinalityType
  <2> QED
    BY <1>1, <1>2, <2>1, <2>3, <2>4
<1>4. CASE c = Counts[r][i]
  <2> DEFINE S == Outstanding(c) \ {<<r, i>>}
  <2>1. counter'[c] = IF counter[c] > 0 THEN counter[c] - 1 ELSE counter[c]
    BY <1>0, <1>4 DEF TypeOK, CountTypes, CountDown
  <2>2. Outstanding(c)' \in SUBSET S
    <3>1. Outstanding(c)' \subseteq Outstanding(c)
      BY DEF Outstanding
    <3>2. <<r, i>> \notin Outstanding(c)'
      BY DEF Outstanding
    <3> QED
      BY <3>1, <3>2
  <2>3. <<r, i>> \in Outstanding(c)
    BY <1>4, PlacesOf
  <2>4. IsFiniteSet(S) /\ Cardinality(S) = Cardinality(Outstanding(c)) - 1
    BY <1>1, <2>3, FS_RemoveElement
  <2>5. IsFiniteSet(Outstanding(c)') /\ Cardinality(Outstanding(c)') <= Cardinality(S)
    BY <2>2, <2>4, FS_Subset
  <2>6. Cardinality(Outstanding(c)') \in Nat /\ Cardinality(S) \in Nat
    BY <2>4, <2>5, FS_CardinalityType
  <2> HIDE DEF S
  <2> QED
    BY <1>1, <1>2, <2>1, <2>4, <2>5, <2>6
<1> QED
  BY <1>3, <1>4

\* A thread that neither counts nor releases.
LEMMA PlacesStay ==
  ASSUME NEW t \in Threads, UNCHANGED executeAtUnlock,
         \A m \in Locos \ {t} : /\ at'[m] = at[m] /\ work'[m] = work[m]
                                /\ giveBack'[m] = giveBack[m] /\ index'[m] = index[m],
         index'[t] = 1 \/ at'[t] # "execute",
         ~(at[t] = "giveBack" /\ giveBack[t] # <<>>)
  PROVE  \A r \in Routes : Places(r)' \subseteq Places(r)
<1> SUFFICES ASSUME NEW r \in Routes, NEW i \in Places(r)' PROVE i \in Places(r)
  OBVIOUS
<1>1. i \in 1..Len(Counts[r]) /\ i > 0
  BY PlacesOf DEF Places
<1>2. CASE executeAtUnlock[r]
  <2>1. \A m \in Locos : Back(r, m)' => i >= index'[m]
    BY <1>2 DEF Places
  <2>2. ASSUME NEW m \in Locos, Back(r, m) PROVE i >= index[m]
    <3>1. m # t
      BY <2>2 DEF Back
    <3>2. Back(r, m)'
      BY <2>2, <3>1 DEF Back
    <3> QED
      BY <2>1, <3>1, <3>2
  <2> QED
    BY <1>1, <1>2, <2>2 DEF Places
<1>3. CASE ~executeAtUnlock[r]
  <2>1. PICK m \in Locos : at'[m] = "execute" /\ work'[m] = r /\ i < index'[m]
    BY <1>3 DEF Places
  <2>2. m # t
    BY <1>1, <2>1
  <2> QED
    BY <1>1, <1>3, <2>1, <2>2 DEF Places
<1> QED
  BY <1>2, <1>3

LEMMA ClusterCounted ==
  ASSUME TripInvariant, Counted, NEW t \in Threads, ClusterStep(t)
  PROVE  Counted'
<1>0. Typed /\ TypeOK
  BY DEF TripInvariant, Typed
<1>1. UNCHANGED <<countVars, from, work>>
  BY DEF ClusterStep, AskNobody, AskTrack, AskCluster, Inspect, Turn
<1>2. at[t] \in CanSites \cup SetSites
  BY <1>0 DEF ClusterStep, AskNobody, AskTrack, AskCluster, Inspect, Turn,
    Calls, Typed, StepOK
<1>3. at[t] # "giveBack" /\ at[t] # "execute"
  BY <1>2 DEF CanSites, SetSites
<1>4. CASE Granted(t) \/ Refused(t)
  <2>1. Alone(t)
    BY <1>0, <1>1, <1>2, <1>4, EndAlone
  <2>2. index'[t] = 1
    BY <1>0, <1>4, CallEnds, GotoAlone
  <2>3. \A m \in Locos \ {t} : giveBack'[m] = giveBack[m]
    BY <1>0, <1>4 DEF Granted, Refused, Undo, TypeOK, ThreadTypes
  <2>4. \A m \in Locos \ {t} : /\ at'[m] = at[m] /\ work'[m] = work[m]
                               /\ giveBack'[m] = giveBack[m] /\ index'[m] = index[m]
    BY <2>1, <2>3 DEF Alone, Threads
  <2>5. \A r \in Routes : Places(r)' \subseteq Places(r)
    BY <1>1, <1>3, <2>2, <2>4, PlacesStay DEF countVars
  <2> QED
    BY <1>0, <1>1, <2>5, CountedFrame DEF countVars
<1>5. CASE /\ UNCHANGED <<at, giveBack>>
           /\ \/ UNCHANGED index
              \/ index' = [index EXCEPT ![t] = 1]
              \/ index' = [index EXCEPT ![t] = @ + 1]
  <2>1. \A m \in Locos \ {t} : /\ at'[m] = at[m] /\ work'[m] = work[m]
                               /\ giveBack'[m] = giveBack[m] /\ index'[m] = index[m]
    BY <1>0, <1>1, <1>5 DEF TypeOK, ThreadTypes, Threads
  <2>2. \A r \in Routes : Places(r)' \subseteq Places(r)
    BY <1>1, <1>3, <1>5, <2>1, PlacesStay DEF countVars
  <2> QED
    BY <1>0, <1>1, <2>2, CountedFrame DEF countVars
<1> QED
  BY <1>4, <1>5 DEF ClusterStep, AskNobody, AskTrack, AskCluster, Inspect, Turn

\* A route that is given back is its train's own.
LEMMA BackOwns ==
  ASSUME RoutesLead, TripInvariant, NEW l \in Locos, NEW r \in Routes, Back(r, l)
  PROVE  Owned(r, l)
<1>1. TypeOK /\ Returns(l) /\ giveBack[l] # <<>> /\ Head(giveBack[l]) = r
  BY UnderWay DEF Back, Trip
<1>2. r = work[l] /\ r \in Items(giveBack[l])
  BY <1>1, ReturnsNext, LayoutTypes
<1> QED
  BY <1>1, <1>2 DEF Returns

LEMMA ExecuteCounted ==
  ASSUME RoutesLead, TripInvariant, Counted, NEW l \in Locos, Execute(l)
  PROVE  Counted'
<1> DEFINE i == index[l]
<1>a. at[l] = "execute" /\ TypeOK /\ l \in Threads /\ work[l] \in Routes
  <2>1. at[l] = "execute"
    BY DEF Execute
  <2> QED
    BY <2>1, UnderWay
<1>r. PICK r \in Routes : r = work[l]
  BY <1>a
<1>0. /\ TypeOK /\ l \in Threads /\ r \in Routes /\ at[l] = "execute"
      /\ i \in Nat \ {0} /\ Len(Counts[r]) \in Nat
  <2>1. at[l] = "execute"
    BY <1>a
  <2>2. TypeOK /\ l \in Threads /\ r \in Routes
    BY <1>a
  <2> QED
    BY <2>1, <2>2, LayoutTypes DEF TypeOK, ThreadTypes
<1>1. \A m \in Locos \ {l} : /\ at'[m] = at[m] /\ work'[m] = work[m]
                             /\ giveBack'[m] = giveBack[m] /\ index'[m] = index[m]
  <2>1. LocoStep(l) /\ Typed
    BY DEF LocoStep, TripInvariant
  <2> QED
    BY <2>1, LocoOwn, LocoAlone DEF Own, Alone, Threads
<1>2. work'[l] = r
  BY <1>r DEF Execute
<1>3. CASE Undo(l, <<r, To[r]>>) /\ UNCHANGED countVars
  <2>1. index'[l] = 1
    BY <1>0, <1>3, UndoReturns
  <2>2. \A q \in Routes : Places(q)' \subseteq Places(q)
    BY <1>0, <1>1, <1>3, <2>1, PlacesStay DEF countVars
  <2> QED
    BY <1>0, <1>3, <2>2, CountedFrame DEF countVars
<1>4. CASE /\ i <= Len(Counts[r]) /\ Count(Counts[r][i])
           /\ index' = [index EXCEPT ![l] = @ + 1]
           /\ UNCHANGED <<executeAtUnlock, at, giveBack>>
  <2>1. index'[l] = i + 1 /\ i \in 1..Len(Counts[r])
        /\ counter' = [counter EXCEPT ![Counts[r][i]] = @ + 1]
    BY <1>0, <1>4 DEF TypeOK, ThreadTypes, Count
  <2>2. ASSUME NEW q \in Routes, NEW j \in Places(q)'
        PROVE  j \in Places(q) \/ (q = r /\ j = i)
    <3>1. j \in 1..Len(Counts[q]) /\ j \in Nat
      BY DEF Places
    <3>2. CASE executeAtUnlock[q]
      <4>1. \A m \in Locos : Back(q, m)' => j >= index'[m]
        BY <1>4, <3>2 DEF Places
      <4>2. ASSUME NEW m \in Locos, Back(q, m) PROVE j >= index[m]
        <5>1. m # l
          BY <1>0, <4>2 DEF Back
        <5>2. Back(q, m)'
          BY <4>2, <1>4 DEF Back
        <5> QED
          BY <1>1, <4>1, <5>1, <5>2
      <4> QED
        BY <3>1, <3>2, <4>2 DEF Places
    <3>3. CASE ~executeAtUnlock[q]
      <4>1. PICK m \in Locos : at'[m] = "execute" /\ work'[m] = q /\ j < index'[m]
        BY <1>4, <3>3 DEF Places
      <4>2. CASE m = l
        <5>1. q = r /\ (j < i \/ j = i)
          BY <1>0, <1>2, <2>1, <3>1, <4>1, <4>2
        <5> QED
          BY <1>0, <1>r, <3>1, <3>3, <5>1 DEF Places
      <4>3. CASE m # l
        BY <1>1, <3>1, <3>3, <4>1, <4>3 DEF Places
      <4> QED
        BY <4>2, <4>3
    <3> QED
      BY <3>2, <3>3
  <2>3. /\ \A q \in Routes \ {r} : Places(q)' \subseteq Places(q)
        /\ Places(r)' \subseteq Places(r) \cup {i}
    BY <1>0, <2>2
  <2> QED
    BY <1>0, <2>1, <2>3, CountedUp
<1>5. CASE /\ i > Len(Counts[r])
           /\ executeAtUnlock' = [executeAtUnlock EXCEPT ![r] = @ \/ InUse(lock[r])]
           /\ Goto(l, "prepareTo") /\ UNCHANGED <<counter, giveBack>>
  <2>1. at'[l] = "prepareTo"
    BY <1>0, <1>5, GotoTrip
  <2>2. \A q \in Routes \ {r} : executeAtUnlock'[q] = executeAtUnlock[q]
    BY <1>0, <1>5 DEF TypeOK, CountTypes
  <2>3. executeAtUnlock[r] => executeAtUnlock'[r]
    BY <1>0, <1>5 DEF TypeOK, CountTypes
  <2>4. ASSUME NEW q \in Routes, NEW j \in Places(q)' PROVE j \in Places(q)
    <3>1. j \in 1..Len(Counts[q]) /\ j \in Nat
      BY DEF Places
    <3>2. CASE executeAtUnlock[q]
      <4>1. \A m \in Locos : Back(q, m)' => j >= index'[m]
        BY <2>2, <2>3, <3>2 DEF Places
      <4>2. ASSUME NEW m \in Locos, Back(q, m) PROVE j >= index[m]
        <5>1. m # l
          BY <1>0, <4>2 DEF Back
        <5>2. Back(q, m)'
          BY <4>2, <1>1, <5>1 DEF Back
        <5> QED
          BY <1>1, <4>1, <5>1, <5>2
      <4> QED
        BY <3>1, <3>2, <4>2 DEF Places
    <3>3. CASE ~executeAtUnlock[q] /\ q = r
      BY <1>0, <1>r, <1>5, <3>1, <3>3 DEF Places
    <3>4. CASE ~executeAtUnlock[q] /\ q # r
      <4>1. PICK m \in Locos : at'[m] = "execute" /\ work'[m] = q /\ j < index'[m]
        BY <2>2, <3>4 DEF Places
      <4>2. m # l
        BY <2>1, <4>1
      <4> QED
        BY <1>1, <3>1, <3>4, <4>1, <4>2 DEF Places
    <3> QED
      BY <3>2, <3>3, <3>4
  <2>5. \A q \in Routes : Places(q)' \subseteq Places(q)
    BY <2>4
  <2> QED
    BY <1>0, <1>5, <2>5, CountedFrame
<1> QED
  BY <1>0, <1>r, <1>3, <1>4, <1>5 DEF Execute

LEMMA GiveBackCounted ==
  ASSUME RoutesLead, TripInvariant, Counted, NEW l \in Locos, GiveBack(l)
  PROVE  Counted'
<1> DEFINE i == index[l]
<1>0. /\ TypeOK /\ l \in Threads /\ at[l] = "giveBack" /\ giveBack[l] # <<>>
      /\ i \in Nat \ {0}
  <2>1. TypeOK /\ l \in Threads
    BY UnderWay
  <2> QED
    BY <2>1 DEF GiveBack, TypeOK, ThreadTypes
<1>x. PICK x : x = Head(giveBack[l])
  OBVIOUS
<1>1. \A m \in Locos \ {l} : /\ at'[m] = at[m] /\ work'[m] = work[m]
                             /\ giveBack'[m] = giveBack[m] /\ index'[m] = index[m]
  <2>1. LocoStep(l) /\ Typed
    BY DEF LocoStep, TripInvariant
  <2> QED
    BY <2>1, LocoOwn, LocoAlone DEF Own, Alone, Threads
<1>2. UNCHANGED at
  BY DEF GiveBack
<1>3. \A q \in Routes : Back(q, l) <=> q = x
  BY <1>0, <1>x DEF Back
<1>4. x \in Routes => \A m \in Locos \ {l} : ~Back(x, m) /\ ~Owned(x, m)
  BY <1>3, BackOwns DEF Owned
\* Of another route nothing is done, and l executes none.
<1>5. ASSUME NEW q \in Routes, executeAtUnlock'[q] = executeAtUnlock[q], q # x,
             NEW j \in Places(q)'
      PROVE  j \in Places(q)
  <2>1. j \in 1..Len(Counts[q])
    BY DEF Places
  <2>2. CASE executeAtUnlock[q]
    <3>1. \A m \in Locos : Back(q, m)' => j >= index'[m]
      BY <1>5, <2>2 DEF Places
    <3>2. ASSUME NEW m \in Locos, Back(q, m) PROVE j >= index[m]
      <4>1. m # l
        BY <1>3, <1>5, <3>2
      <4>2. Back(q, m)'
        BY <1>1, <3>2, <4>1 DEF Back
      <4> QED
        BY <1>1, <3>1, <4>1, <4>2
    <3> QED
      BY <2>1, <2>2, <3>2 DEF Places
  <2>3. CASE ~executeAtUnlock[q]
    <3>1. PICK m \in Locos : at'[m] = "execute" /\ work'[m] = q /\ j < index'[m]
      BY <1>5, <2>3 DEF Places
    <3>2. m # l
      BY <1>0, <1>2, <3>1
    <3> QED
      BY <1>1, <2>1, <2>3, <3>1, <3>2 DEF Places
  <2> QED
    BY <2>2, <2>3
<1>6. CASE /\ x \in Routes /\ executeAtUnlock[x] /\ i <= Len(Counts[x])
           /\ CountDown(Counts[x][i])
           /\ index' = [index EXCEPT ![l] = @ + 1]
           /\ UNCHANGED <<executeAtUnlock, giveBack>>
  <2>1. index'[l] = i + 1 /\ i \in 1..Len(Counts[x])
    <3>1. Len(Counts[x]) \in Nat
      BY <1>6, LayoutTypes
    <3> QED
      BY <1>0, <1>6, <3>1 DEF TypeOK, ThreadTypes
  <2>2. i \in Places(x)
    <3>1. \A m \in Locos : Back(x, m) => i >= index[m]
      BY <1>0, <1>4, <1>6
    <3> QED
      BY <1>6, <2>1, <3>1 DEF Places
  <2>3. ASSUME NEW j \in Places(x)' PROVE j \in Places(x) \ {i}
    <3>1. j \in 1..Len(Counts[x]) /\ j \in Nat
      BY <1>6, PlacesOf DEF Places
    <3>2. \A m \in Locos : Back(x, m)' => j >= index'[m]
      BY <1>6 DEF Places
    <3>3. Back(x, l)'
      BY <1>0, <1>x, <1>2, <1>6 DEF Back
    <3>4. j >= i + 1
      BY <2>1, <3>2, <3>3
    <3>5. \A m \in Locos : Back(x, m) => j >= index[m]
      BY <1>0, <1>4, <1>6, <3>1, <3>4
    <3>6. j \in Places(x)
      BY <1>6, <3>1, <3>5 DEF Places
    <3> QED
      BY <1>0, <3>1, <3>4, <3>6
  <2>4. \A q \in Routes \ {x} : Places(q)' \subseteq Places(q)
    BY <1>5, <1>6
  <2>5. Places(x)' \subseteq Places(x) \ {i}
    BY <2>3
  <2> QED
    BY <1>0, <1>6, <2>1, <2>2, <2>4, <2>5, CountedDown
<1>7. CASE /\ executeAtUnlock' = [q \in Routes |-> executeAtUnlock[q] /\ q # x]
           /\ UNCHANGED counter
  <2>1. ASSUME NEW q \in Routes, q # x PROVE executeAtUnlock'[q] = executeAtUnlock[q]
    BY <1>0, <1>7, <2>1 DEF TypeOK, CountTypes
  <2>2. ASSUME x \in Routes, NEW j \in Places(x)' PROVE FALSE
    <3>1. ~executeAtUnlock'[x]
      BY <1>7, <2>2
    <3>2. PICK m \in Locos : at'[m] = "execute" /\ work'[m] = x
      BY <2>2, <3>1 DEF Places
    <3>3. m # l
      BY <1>0, <1>2, <3>2
    <3>4. Owned(x, m)
      BY <1>1, <3>2, <3>3 DEF TripInvariant, Trip
    <3> QED
      BY <1>4, <2>2, <3>3, <3>4
  <2>3. \A q \in Routes : Places(q)' \subseteq Places(q)
    BY <1>5, <2>1, <2>2
  <2> QED
    BY <1>0, <1>7, <2>3, CountedFrame
<1> QED
  BY <1>x, <1>6, <1>7 DEF GiveBack

LEMMA LocoCounted ==
  ASSUME RoutesLead, TripInvariant, Counted, NEW l \in Locos, LocoStep(l)
  PROVE  Counted'
<1>0. TypeOK /\ l \in Threads /\ Typed /\ Trip(l)
  BY UnderWay
<1>1. CASE Execute(l) \/ GiveBack(l)
  BY <1>1, ExecuteCounted, GiveBackCounted
<1>2. CASE ~Execute(l) /\ ~GiveBack(l)
  <2>1. \A m \in Locos \ {l} : /\ at'[m] = at[m] /\ work'[m] = work[m]
                               /\ giveBack'[m] = giveBack[m] /\ index'[m] = index[m]
    BY <1>0, LocoOwn, LocoAlone DEF Own, Alone, Threads
  <2>2. UNCHANGED countVars
    BY <1>2 DEF LocoStep, Search, TryAgain, ReserveTrack, ReserveCounters,
      Decide, Arrive, GivenBack
  <2>3. index'[l] = 1
    <3>1. \E site : Goto(l, site)
      BY <1>2 DEF LocoStep, Search, TryAgain, ReserveTrack, ReserveCounters,
        Decide, Arrive, GivenBack, ReserveRoute, Undo
    <3> QED
      BY <1>0, <3>1, GotoTrip
  <2>4. ~(at[l] = "giveBack" /\ giveBack[l] # <<>>)
    BY <1>2 DEF LocoStep, Search, TryAgain, ReserveTrack, ReserveCounters,
      Decide, Arrive, GivenBack
  <2>5. \A r \in Routes : Places(r)' \subseteq Places(r)
    BY <1>0, <2>1, <2>2, <2>3, <2>4, PlacesStay DEF countVars
  <2> QED
    BY <1>0, <2>2, <2>5, CountedFrame DEF countVars
<1> QED
  BY <1>1, <1>2

\* A counter counts up only below its maximum.
Bounded == \A c \in Counters : counter[c] <= MaxCount[c]

LEMMA BoundedStep ==
  ASSUME TypeOK, Bounded, [Next]_vars
  PROVE  Bounded'
<1>0. counter \in [Counters -> Nat] /\ MaxCount \in [Counters -> Nat]
  BY LayoutTypes DEF TypeOK, CountTypes
<1>1. ASSUME NEW k, Count(k) PROVE Bounded'
  <2>1. counter[k] < MaxCount[k] /\ counter' = [counter EXCEPT ![k] = counter[k] + 1]
    BY <1>1 DEF Count, CheckCount
  <2>2. ASSUME NEW c \in Counters PROVE counter'[c] <= MaxCount[c]
    <3>1. CASE c = k
      BY <1>0, <2>1, <3>1
    <3>2. CASE c # k
      BY <1>0, <2>1, <3>2 DEF Bounded
    <3> QED
      BY <3>1, <3>2
  <2> QED
    BY <2>2 DEF Bounded
<1>2. ASSUME NEW k, CountDown(k) PROVE Bounded'
  <2>1. counter' = [counter EXCEPT ![k] = IF counter[k] > 0 THEN counter[k] - 1
                                          ELSE counter[k]]
    BY <1>2 DEF CountDown
  <2>2. ASSUME NEW c \in Counters PROVE counter'[c] <= MaxCount[c]
    <3>1. counter[c] \in Nat /\ counter[c] <= MaxCount[c] /\ MaxCount[c] \in Nat
      BY <1>0 DEF Bounded
    <3>2. CASE c = k
      BY <1>0, <2>1, <3>1, <3>2
    <3>3. CASE c # k
      BY <1>0, <2>1, <3>1, <3>3
    <3> QED
      BY <3>2, <3>3
  <2> QED
    BY <2>2 DEF Bounded
<1>3. CASE UNCHANGED counter
  BY <1>3 DEF Bounded
<1>4. ASSUME NEW l \in Locos, LocoStep(l) PROVE Bounded'
  <2>1. CASE Execute(l)
    BY <2>1, <1>1, <1>3 DEF Execute, countVars
  <2>2. CASE GiveBack(l)
    BY <2>2, <1>2, <1>3 DEF GiveBack
  <2>3. CASE ~Execute(l) /\ ~GiveBack(l)
    BY <1>3, <1>4, <2>3 DEF LocoStep, Search, TryAgain, ReserveTrack,
      ReserveCounters, Decide, Arrive, GivenBack, countVars
  <2> QED
    BY <2>1, <2>2, <2>3
<1>5. ASSUME NEW t \in Threads, ClusterStep(t) PROVE UNCHANGED counter
  BY <1>5 DEF ClusterStep, AskNobody, AskTrack, AskCluster, Inspect, Turn, countVars
<1>6. ASSUME NEW x \in ByHand, NEW o \in BOOLEAN, TurnTrack(x, o)
      PROVE  UNCHANGED counter
  BY <1>6 DEF TurnTrack, countVars
<1>7. UNCHANGED vars => UNCHANGED counter
  BY DEF vars, countVars
<1> QED
  BY <1>3, <1>4, <1>5, <1>6, <1>7 DEF Next

AdmissionInvariant == TripInvariant /\ Counted /\ Bounded

LEMMA AdmissionInit == StartsApart /\ Init => AdmissionInvariant
<1> SUFFICES ASSUME StartsApart, Init PROVE AdmissionInvariant
  OBVIOUS
<1>1. TripInvariant
  BY TripInit
<1>2. Bounded
  BY LayoutTypes DEF Init, Bounded
<1>3. ASSUME NEW c \in Counters
      PROVE  IsFiniteSet(Outstanding(c)) /\ Cardinality(Outstanding(c)) <= counter[c]
  <2>1. \A r \in Routes : Places(r) = {}
    BY DEF Init, Places, Threads
  <2>2. Outstanding(c) = {}
    BY <2>1 DEF Outstanding
  <2>3. counter[c] = 0
    BY DEF Init
  <2> QED
    BY <2>2, <2>3, FS_EmptySet
<1> QED
  BY <1>1, <1>2, <1>3 DEF AdmissionInvariant, Counted

LEMMA AdmissionStep ==
  ASSUME RoutesLead, AdmissionInvariant, [Next]_vars
  PROVE  AdmissionInvariant'
<1>0. TripInvariant /\ Counted /\ Bounded /\ TypeOK
  BY DEF AdmissionInvariant, TripInvariant, Typed
<1>1. TripInvariant'
  BY <1>0, TripStep
<1>2. Bounded'
  BY <1>0, BoundedStep
<1>3. ASSUME NEW t \in Threads, ClusterStep(t) PROVE Counted'
  BY <1>0, <1>3, ClusterCounted
<1>4. ASSUME NEW l \in Locos, LocoStep(l) PROVE Counted'
  BY <1>0, <1>4, LocoCounted
<1>5. ASSUME NEW x \in ByHand, NEW o \in BOOLEAN, TurnTrack(x, o) PROVE Counted'
  <2>1. UNCHANGED <<countVars, work, giveBack>> /\ Goto(Operator, "turnTrack")
        /\ Operator \in Threads
    BY <1>5 DEF TurnTrack, Threads
  <2>2. "turnTrack" \in Sites /\ \A m \in Locos : m # Operator
    BY LayoutTypes DEF Sites, SetSites
  <2>3. \A m \in Locos : at'[m] = at[m] /\ index'[m] = index[m]
    BY <1>0, <2>1, <2>2, GotoAlone DEF Threads
  <2>4. index'[Operator] = 1
    BY <1>0, <2>1, <2>2, GotoAlone
  <2>5. at[Operator] # "giveBack"
    BY <1>5 DEF TurnTrack
  <2>6. \A r \in Routes : Places(r)' \subseteq Places(r)
    BY <2>1, <2>3, <2>4, <2>5, PlacesStay DEF countVars
  <2> QED
    BY <1>0, <2>1, <2>6, CountedFrame DEF countVars
<1>6. CASE UNCHANGED vars
  <2>1. UNCHANGED <<executeAtUnlock, at, work, giveBack, index>>
    BY <1>6 DEF vars, countVars, threadVars
  <2>2. ASSUME NEW r \in Routes PROVE Places(r)' = Places(r)
    BY <2>1, Zenon DEF Places, Back
  <2>3. \A r \in Routes : Places(r)' \subseteq Places(r)
    BY <2>2
  <2> QED
    BY <1>0, <1>1, <1>2, <1>6, <2>3, CountedFrame
    DEF vars, countVars, AdmissionInvariant
<1> QED
  BY <1>1, <1>2, <1>3, <1>4, <1>5, <1>6 DEF AdmissionInvariant, Next

\* Every train under way has its own place in a counter.
LEMMA UnderWayCounted ==
  ASSUME RoutesLead, AdmissionInvariant, NEW c \in Counters
  PROVE  Cardinality({l \in Locos : /\ at[l] = "running"
                                    /\ \E i \in DOMAIN Counts[work[l]] :
                                         Counts[work[l]][i] = c}) <= counter[c]
<1> DEFINE R == {l \in Locos : /\ at[l] = "running"
                               /\ \E i \in DOMAIN Counts[work[l]] :
                                    Counts[work[l]][i] = c}
<1> DEFINE place(l) == CHOOSE i \in DOMAIN Counts[work[l]] : Counts[work[l]][i] = c
<1> DEFINE f == [l \in R |-> <<work[l], place(l)>>]
<1>0. TripInvariant /\ TypeOK /\ Counted
  BY DEF AdmissionInvariant, TripInvariant, Typed
<1>1. ASSUME NEW l \in R
      PROVE  /\ work[l] \in Routes /\ Owned(work[l], l)
             /\ <<work[l], place(l)>> \in Outstanding(c)
  <2>1. l \in Locos /\ at[l] = "running" /\ work[l] \in Routes
    BY <1>0 DEF TypeOK, WorkOK
  <2>2. Owned(work[l], l) /\ executeAtUnlock[work[l]]
    BY <1>0, <2>1 DEF TripInvariant, Trip, Driving
  <2>3. place(l) \in DOMAIN Counts[work[l]] /\ Counts[work[l]][place(l)] = c
    OBVIOUS
  <2>4. DOMAIN Counts[work[l]] = 1..Len(Counts[work[l]])
    BY <2>1, LayoutTypes
  <2>5. \A m \in Locos : ~Back(work[l], m)
    <3> SUFFICES ASSUME NEW m \in Locos, Back(work[l], m) PROVE FALSE
      OBVIOUS
    <3>1. Owned(work[l], m)
      BY <1>0, <2>1, BackOwns
    <3> QED
      BY <2>1, <2>2, <3>1 DEF Owned, Back
  <2> HIDE DEF place
  <2>6. place(l) \in Places(work[l])
    BY <2>2, <2>3, <2>4, <2>5 DEF Places
  <2>7. PICK r \in Routes : r = work[l]
    BY <2>1
  <2>8. PICK j : j = place(l)
    OBVIOUS
  <2>9. j \in Places(r) /\ Counts[r][j] = c
    BY <2>3, <2>6, <2>7, <2>8
  <2>a. <<r, j>> \in Outstanding(c)
    BY <2>9, PlacesOf
  <2>b. <<work[l], place(l)>> \in Outstanding(c)
    BY <2>7, <2>8, <2>a
  <2> QED
    BY <2>1, <2>2, <2>b
<1> HIDE DEF place, R
<1>2. ASSUME NEW l \in R, NEW m \in R, work[l] = work[m] PROVE l = m
  <2>1. Owned(work[l], l) /\ Owned(work[m], m)
    BY <1>1
  <2> QED
    BY <1>2, <2>1 DEF Owned
<1>3. f \in Injection(R, Outstanding(c))
  <2>1. f \in [R -> Outstanding(c)]
    BY <1>1
  <2>2. \A l, m \in R : f[l] = f[m] => l = m
    BY <1>2
  <2> QED
    BY <2>1, <2>2 DEF Injection, IsInjective
<1>4. IsFiniteSet(Outstanding(c)) /\ Cardinality(Outstanding(c)) <= counter[c]
      /\ counter[c] \in Nat
  BY <1>0 DEF Counted, TypeOK, CountTypes
<1> HIDE DEF f
<1>5. IsFiniteSet(R) /\ Cardinality(R) <= Cardinality(Outstanding(c))
  BY <1>3, <1>4, FS_Injection
<1>6. Cardinality(R) \in Nat /\ Cardinality(Outstanding(c)) \in Nat
  BY <1>4, <1>5, FS_CardinalityType
<1>7. Cardinality(R) <= counter[c]
  BY <1>4, <1>5, <1>6
<1> QED
  BY <1>7 DEF R

\* A counter is always within its bounds, and every train under way on a route
\* that counts it has been counted, whatever attempts failed half way, for any
\* number of trains and lists of counters (Counter::Count, Route::Execute,
\* Route::ReleaseInternal).
THEOREM CountersAdmit ==
  ASSUME StartsApart, RoutesLead
  PROVE  Spec => []TrainsAdmitted
<1>1. Init => AdmissionInvariant
  BY AdmissionInit
<1>2. AdmissionInvariant /\ [Next]_vars => AdmissionInvariant'
  BY AdmissionStep
<1>3. AdmissionInvariant => TrainsAdmitted
  BY UnderWayCounted DEF AdmissionInvariant, Bounded, TrainsAdmitted
<1> QED
  BY <1>1, <1>2, <1>3, PTL DEF Spec

=============================================================================
