---------------------------- MODULE RouteProofs ----------------------------
(***************************************************************************)
(* What a train may rely on: theorems about module Interlocking for every    *)
(* number of locomotives and every layout on which a route shares nothing    *)
(* with the one before it.                                                   *)
(***************************************************************************)
EXTENDS InterlockingProofs

(***************************************************************************)
(* The layouts and the operation for which the theorems hold                 *)
(***************************************************************************)

\* What a train on route r touches, with and without the destination.
Way(r) == {Parts[r][i] : i \in 1..Len(Parts[r])}
Footprint(r) == {ToTrack[r]} \cup Way(r)

\* A route shares nothing with the one before it, nor do they lead back.
RoutesApart ==
  /\ \A r \in Routes :
       FromTrack[r] \notin Footprint(r) /\ ToTrack[r] \notin Way(r)
  /\ \A q, r \in Routes : FromTrack[q] = ToTrack[r] =>
       Footprint(q) \cap (Footprint(r) \cup {FromTrack[r]}) = {}

\* A timetable has only entries the locomotive has reserved itself, and the
\* operator releases nothing.
OwnPlans ==
  /\ {"timetable", "removal", "releaseRoute", "releaseItem"} \cap Disturbances
       = {}
  /\ \A r \in Routes : FollowUp[r] \notin Routes

(***************************************************************************)
(* Where a train is on its journey, without a look at any lock               *)
(***************************************************************************)

\* The locomotive gives back what it has passed.
Leaving(l) ==
  \/ pc[l] = "free"
  \/ pc[l] \in {"unlock", "undo"} /\ caller[l] = "queue"

\* It works on a route it wants to run on.
Seeking(l) == pc[l] \notin {"idle", "dequeue", "throw"} /\ ~Leaving(l)

Following(l) ==
  /\ first[l] # None => FromTrack[first[l]] = from[l]
  /\ second[l] # None => FromTrack[second[l]] = ToTrack[first[l]]
  /\ follow[l] \notin Routes

Planning(l) ==
  plan[l] # <<>> =>
    /\ Tail(plan[l]) = <<>>
    /\ from[l] # None /\ second[l] = None
    /\ Head(plan[l]).after \notin Routes
    /\ FromTrack[Head(plan[l]).route] = EndTrack(l)

Preparation(l) ==
  /\ pc[l] = "dequeue" => plan[l] # <<>> /\ second[l] = None
  /\ Seeking(l) =>
       /\ from[l] # None /\ second[l] = None
       /\ FromTrack[work[l]] = EndTrack(l)
       /\ plan[l] # <<>> => Head(plan[l]).route = work[l]
  /\ caller[l] = "queue" => pc[l] \in {"unlock", "undo"}
  /\ pc[l] \in {"reserve", "check"} /\ caller[l] = "search" => plan[l] = <<>>

\* What is given back is not what the train needs.
Unneeded(l, x) ==
  /\ x # from[l]
  /\ first[l] # None => x # first[l] /\ x \notin Footprint(first[l])

Spare(l, r) == \A x \in Way(r) \cup {r} : Unneeded(l, x)

Apart(q, r) == q # r /\ Way(q) \cap Way(r) = {}

Passing(l) ==
  /\ ~Leaving(l) => freeTracks[l] = <<>> /\ freeRoutes[l] = <<>>
  /\ Leaving(l) =>
       /\ second[l] = None
       /\ \A i \in 1..Len(freeTracks[l]) : Unneeded(l, freeTracks[l][i])
       /\ \A i \in 1..Len(freeRoutes[l]) : Spare(l, freeRoutes[l][i])
       /\ \A i, j \in 1..Len(freeRoutes[l]) : i # j =>
            Apart(freeRoutes[l][i], freeRoutes[l][j])
       /\ pc[l] # "free" =>
            /\ Spare(l, work[l])
            /\ \A i \in 1..Len(freeRoutes[l]) : Apart(freeRoutes[l][i], work[l])

Journey == \A l \in Locos :
  Following(l) /\ Planning(l) /\ Preparation(l) /\ Passing(l)

(***************************************************************************)
(* What a locomotive owns for certain                                        *)
(***************************************************************************)
HoldsRoute == {"reserve", "check", "lock", "ready", "enter", "execute",
               "abort", "undoTrack", "unlock", "undo"}

\* For the ride, for what it prepares, and for what it gives back.
RideNeeds(l, x) ==
  \/ \E r \in Active(l) : x = r \/ x \in HeldMembers(r)
  \/ x = from[l] /\ x # None /\ (first[l] = None \/ x \notin FreeingTracks)

WorkNeeds(l, x) ==
  \/ pc[l] \in HoldsRoute /\ x = work[l]
  \/ /\ pc[l] \in {"reserve", "lock"}
     /\ \E i \in 0..Len(Parts[work[l]]) : i < next[l] /\ x = Member(work[l], i)
  \/ pc[l] \in {"check", "ready", "enter", "execute"} /\ x \in Footprint(work[l])

PassedNeeds(l, x) ==
  \/ \E i \in 1..Len(freeRoutes[l]) :
       x = freeRoutes[l][i] \/ x \in Elements \cap Way(freeRoutes[l][i])
  \/ pc[l] = "unlock" /\ caller[l] = "queue" /\ x \in Elements \cap Way(work[l])

Must(l, x) == RideNeeds(l, x) \/ WorkNeeds(l, x) \/ PassedNeeds(l, x)

Holds(l) == \A x \in Lockables : Must(l, x) => lock[x].owner = l

Holding == \A l \in Locos : Holds(l)

\* The entry at the front of a timetable is nobody else's.
PlanOwned == \A l \in Locos :
  plan[l] # <<>> => lock[Head(plan[l]).route].owner \in {None, l}

Parked(l, r) ==
  \/ r \in Active(l)
  \/ \E i \in 1..Len(freeRoutes[l]) : r = freeRoutes[l][i]
  \/ /\ pc[l] \in {"lock", "ready", "enter", "execute", "abort", "undoTrack",
                   "unlock", "undo"}
     /\ r = work[l]

HardLocks == \A l \in Locos : \A r \in Routes :
  lock[r].owner = l /\ lock[r].state = "HardLocked" => Parked(l, r)

HoldInv == Holding /\ PlanOwned /\ HardLocks

(***************************************************************************)
(* What it may own                                                           *)
(***************************************************************************)
\* For the ride and the entry at the front of the timetable, for what it works
\* on, and until it is given back.
RideMay(l, x) ==
  \/ x = from[l]
  \/ \E r \in Active(l) : x = r \/ x \in Footprint(r)
  \/ /\ plan[l] # <<>>
     /\ x = Head(plan[l]).route \/ x \in Footprint(Head(plan[l]).route)

WorkMay(l, x) ==
  \/ /\ pc[l] = "reserve"
     /\ \/ x = work[l]
        \/ \E i \in 0..Len(Parts[work[l]]) :
             i < next[l] /\ x = Member(work[l], i)
  \/ /\ pc[l] \in {"check", "abort", "undoTrack"}
     /\ x = work[l] \/ x \in Footprint(work[l])
  \/ pc[l] = "unlock" /\ (x = work[l] \/ x \in Way(work[l]))
  \/ /\ pc[l] = "undo"
     /\ \/ x = work[l]
        \/ \E i \in 1..Len(Parts[work[l]]) :
             i >= next[l] /\ x = Parts[work[l]][i]
  \/ /\ pc[l] \in {"unlock", "undo", "dropTrack"} /\ caller[l] = "drop"
     /\ x = ToTrack[work[l]]

PassedMay(l, x) ==
  \/ \E i \in 1..Len(freeTracks[l]) : x = freeTracks[l][i]
  \/ \E i \in 1..Len(freeRoutes[l]) :
       x = freeRoutes[l][i] \/ x \in Way(freeRoutes[l][i])

May(l, x) == RideMay(l, x) \/ WorkMay(l, x) \/ PassedMay(l, x)

\* A locomotive that aborts a route also drops the destination.
Tidy(l) ==
  /\ pc[l] = "abort" => caller[l] = "drop"
  /\ \A x \in Lockables : lock[x].owner = l => May(l, x)

LeakInv == \A l \in Locos : Tidy(l)

(***************************************************************************)
(* Relations "At unlock", switches and signals                               *)
(***************************************************************************)
\* Nobody operates the elements but the locomotives.
HandsOff ==
  {"executeRoute", "throwElement", "foreign"} \cap Disturbances = {}

\* The relations "At unlock" operate elements of the route itself, or signals,
\* and an element is in the same state wherever the route names it.
RelationsFit ==
  /\ \A r \in Routes : \A i \in 1..Len(AtUnlock[r]) :
       AtUnlock[r][i] \in Way(r) \cup Signals
  /\ \A r \in Routes : \A i, j \in 1..Len(Parts[r]) :
       Parts[r][i] = Parts[r][j] => Setting[r][i] = Setting[r][j]

\* The release of a route a train has run on, and nothing else, executes its
\* relations "At unlock".
Awaits(l, r) ==
  \/ r \in Active(l)
  \/ \E i \in 1..Len(freeRoutes[l]) : r = freeRoutes[l][i]
  \/ pc[l] = "unlock" /\ caller[l] = "queue" /\ r = work[l]

PendingOwned == \A r \in Routes : atUnlock[r] => \E l \in Locos : Awaits(l, r)

UnlockPassed == \A l \in Locos : pc[l] = "unlock" => caller[l] = "queue"

Setup == \A l \in Locos : pc[l] = "execute" =>
  \A i \in 1..Len(Parts[work[l]]) :
    i < next[l] /\ Parts[work[l]][i] \in Elements \ Signals =>
      position[Parts[work[l]][i]] = Setting[work[l]][i]

SwitchInv ==
  /\ pc[Operator] = "idle"
  /\ PendingOwned /\ UnlockPassed /\ Setup /\ SwitchesSet

\* A signal is cleared for the track a route begins at; if a route may be
\* refused while it is executed, the signal is the last that is operated.  The
\* relations "At unlock" do not clear signals.
SignalsFit ==
  /\ \A r \in Routes : \A i \in 1..Len(Parts[r]) :
       Parts[r][i] \in Signals /\ Setting[r][i] # StopAspect =>
         /\ Parts[r][i] \in TrackSignals[FromTrack[r]]
         /\ "refusal" \in Disturbances => i = Len(Parts[r])
  /\ \A r \in Routes : \A i \in 1..Len(AtUnlock[r]) :
       AtUnlock[r][i] \in Signals => UnlockSetting[r][i] = StopAspect

Clears(r, s) == \E i \in 1..Len(Parts[r]) :
  s = Parts[r][i] /\ Setting[r][i] # StopAspect

\* A locomotive runs on a route that clears the signal, has it to set to stop
\* with a track it has left, or is about to run on the route.
Cleared(l, s) ==
  \/ \E r \in Active(l) : Clears(r, s)
  \/ /\ lock[s].owner = l
     /\ \E i \in 1..Len(freeTracks[l]) : s \in TrackSignals[freeTracks[l][i]]
  \/ /\ pc[l] = "execute"
     /\ \E i \in 1..Len(Parts[work[l]]) :
          /\ i < next[l]
          /\ s = Parts[work[l]][i] /\ Setting[work[l]][i] # StopAspect

SignalInv ==
  /\ pc[Operator] = "idle"
  /\ \A l \in Locos : freeTracks[l] # <<>> => pc[l] = "free"
  /\ \A s \in Signals : position[s] # StopAspect =>
       \E l \in Locos : Cleared(l, s)


(***************************************************************************)
(* Steps of others                                                           *)
(***************************************************************************)

\* The steps of the thread of a locomotive, the operator's appending to its
\* timetable included.
Acts(l) == ProcedureStep(l) \/ LocoStep(l) \/ LocoBegins(l)

\* Nothing of a locomotive changes but, perhaps, the locks it owns.
Rests(l) ==
  /\ pc'[l] = pc[l] /\ work'[l] = work[l] /\ next'[l] = next[l]
  /\ caller'[l] = caller[l]
  /\ from'[l] = from[l] /\ first'[l] = first[l] /\ second'[l] = second[l]
  /\ follow'[l] = follow[l] /\ plan'[l] = plan[l]
  /\ freeTracks'[l] = freeTracks[l] /\ freeRoutes'[l] = freeRoutes[l]

\* It neither gains nor loses a lock.
LocksKept(l) ==
  \A x \in Lockables :
    lock[x].owner = l \/ lock'[x].owner = l => lock'[x] = lock[x]

\* A step changes one lock at most: the locomotive takes an item that is its
\* own or free, or it frees one of its own.
Changes(m, x, k) ==
  /\ lock' = [lock EXCEPT ![x] = k]
  /\ \/ lock[x].owner \in {None, m} /\ k.owner = m
     \/ lock[x].owner = m /\ k = FreeLock

Touches(m) ==
  lock' = lock \/ \E x \in Lockables, k \in Locks : Changes(m, x, k)

\* The steps of a thread change its own variables only.
LEMMA OthersRest ==
  ASSUME TypeInv, NEW l \in Locos, NEW t \in Threads, t # l,
         ProcedureStep(t) \/ (t \in Locos /\ (LocoStep(t) \/ LocoBegins(t)))
  PROVE  Rests(l)
<1> USE DEF TypeInv, TypeOK, ThreadTypes, TrainTypes, Threads, Rests, Proceed,
            Goto, Settle, Enter
<1>1. ASSUME ProcedureStep(t) PROVE Rests(l)
  <2>1. CASE CheckExecute(t) \/ BeginExecute(t) \/ ExecuteRefused(t)
    BY <2>1 DEF CheckExecute, BeginExecute, ExecuteRefused, ExecuteFails,
                trainVars, queueVars
  <2>2. CASE ExecuteMember(t)
    BY <2>2 DEF ExecuteMember, ExecuteFails, trainVars, queueVars
  <2>3. CASE RouteExecuted(t)
    BY <2>3 DEF RouteExecuted, trainVars, queueVars
  <2>4. CASE BeginRelease(t) \/ UnlockMember(t) \/ UnlockDone(t)
    BY <2>4 DEF BeginRelease, UnlockMember, UnlockDone, trainVars, queueVars
  <2>5. CASE UndoMember(t) \/ RouteReleased(t)
    BY <2>5 DEF UndoMember, RouteReleased, ReturnFromRelease, trainVars,
                queueVars
  <2> QED BY <1>1, <2>1, <2>2, <2>3, <2>4, <2>5 DEF ProcedureStep
<1>2. ASSUME t \in Locos, LocoStep(t) PROVE Rests(l)
  <2>1. CASE ReserveMember(t) \/ RouteReserved(t) \/ CheckReserved(t)
    BY <2>1 DEF ReserveMember, RouteReserved, CheckReserved, trainVars,
                queueVars
  <2>2. CASE Dequeue(t) \/ DecideReserve(t) \/ DecideLock(t)
    BY <2>2 DEF Dequeue, DecideReserve, DecideLock, EnterReserve, trainVars,
                queueVars
  <2>3. CASE DecideExecute(t) \/ DecideRefused(t) \/ LockMember(t)
    BY <2>3 DEF DecideExecute, DecideRefused, LockMember, trainVars, queueVars
  <2>4. CASE RouteLocked(t) \/ UndoTrack(t) \/ DropTrack(t)
    BY <2>4 DEF RouteLocked, UndoTrack, DropTrack, trainVars, queueVars
  <2>5. CASE FreeTrack(t) \/ FreeRoute(t) \/ FreeDone(t)
    BY <2>5 DEF FreeTrack, FreeRoute, FreeDone, threadVars, trainVars,
                queueVars
  <2> QED BY <1>2, <2>1, <2>2, <2>3, <2>4, <2>5 DEF LocoStep
<1>3. ASSUME t \in Locos, LocoBegins(t) PROVE Rests(l)
  <2>1. ASSUME NEW r \in Routes, SearchRoute(t, r) PROVE Rests(l)
    BY <2>1 DEF SearchRoute, EnterReserve, trainVars, queueVars
  <2>2. ASSUME NEW r \in Routes, NEW a \in {RouteAuto, RouteStop},
               AddTimeTable(t, r, a)
        PROVE  Rests(l)
    BY <2>2 DEF AddTimeTable, threadVars, trainVars, queueVars
  <2>3. ASSUME NEW u \in Tracks, PlaceLoco(t, u) PROVE Rests(l)
    BY <2>3 DEF PlaceLoco, threadVars, queueVars
  <2>4. CASE PlanFollowUp(t) \/ StartLoco(t) \/ ReleaseLoco(t)
    BY <2>4 DEF PlanFollowUp, StartLoco, ReleaseLoco, threadVars, trainVars,
                queueVars
  <2>5. CASE ReachFirst(t) \/ ReachStop(t)
    BY <2>5 DEF ReachFirst, ReachStop
  <2> QED BY <1>3, <2>1, <2>2, <2>3, <2>4, <2>5 DEF LocoBegins
<1> QED BY <1>1, <1>2, <1>3

\* What a thread works on, and the members of routes, are lockable.
LEMMA MembersLockable ==
  ASSUME NEW r \in Routes
  PROVE  /\ r \in Lockables /\ ToTrack[r] \in Tracks /\ ToTrack[r] \in Lockables
         /\ FromTrack[r] \in Tracks /\ FromTrack[r] \in Lockables
         /\ \A i \in 0..Len(Parts[r]) :
              Member(r, i) \in Footprint(r) /\ Member(r, i) \in Tracks \cup Elements
         /\ \A i \in 1..Len(Parts[r]) :
              /\ Parts[r][i] \in Way(r)
              /\ Parts[r][i] \in Tracks \cup Elements
         /\ Way(r) \subseteq Footprint(r)
         /\ Footprint(r) \subseteq Tracks \cup Elements
         /\ \A x \in Footprint(r) : \E i \in 0..Len(Parts[r]) : x = Member(r, i)
         /\ \A x \in Way(r) : \E i \in 1..Len(Parts[r]) : x = Parts[r][i]
         /\ r \notin Footprint(r)
<1> USE LayoutTypes, RelationTypes, KindsDiffer
    DEF Lockables, Member, Footprint, Way
<1>1. Len(Parts[r]) \in Nat
  OBVIOUS
<1>2. \A i \in 1..Len(Parts[r]) : Parts[r][i] \in Tracks \cup Elements
  OBVIOUS
<1>3. \A x \in Footprint(r) : \E i \in 0..Len(Parts[r]) : x = Member(r, i)
  <2> SUFFICES ASSUME NEW x \in Footprint(r)
               PROVE  \E i \in 0..Len(Parts[r]) : x = Member(r, i)
    OBVIOUS
  <2>1. CASE x = ToTrack[r]
    BY <2>1, <1>1
  <2>2. ASSUME NEW i \in 1..Len(Parts[r]), x = Parts[r][i]
        PROVE  \E j \in 0..Len(Parts[r]) : x = Member(r, j)
    BY <2>2, <1>1
  <2> QED BY <2>1, <2>2
<1> QED BY <1>1, <1>2, <1>3

\* Releasing an item touches one lock.
LEMMA ReleaseTouches ==
  ASSUME ItemTypes, NEW x \in Lockables, NEW m \in Locos,
         lock' = [lock EXCEPT ![x] = Released(@, m)]
  PROVE  Touches(m)
<1>1. CASE lock[x].owner = m
  BY <1>1, NoneIsNoLoco
     DEF Touches, Changes, Released, CanRelease, FreeLock, Locks, LockStates,
         Owners, ItemTypes
<1>2. CASE lock[x].owner # m
  BY <1>2, NoneIsNoLoco DEF Touches, Released, CanRelease, ItemTypes
<1> QED BY <1>1, <1>2

\* Taking an item touches one lock.
LEMMA TakeTouches ==
  ASSUME ItemTypes, NEW x \in Lockables, NEW m \in Locos,
         \/ /\ CanReserve(lock[x], m)
            /\ lock' = [lock EXCEPT ![x] = Reserved(@, m)]
         \/ /\ CanLock(lock[x], m)
            /\ lock' = [lock EXCEPT ![x] = Locked(@)]
         \/ /\ ~InUse(lock[x])
            /\ lock' = [lock EXCEPT ![x] = Locked(Reserved(@, m))]
  PROVE  Touches(m)
<1>1. lock[x] \in Locks
  BY DEF ItemTypes
<1> DEFINE R == Reserved(lock[x], m)
           L == Locked(lock[x])
           P == Locked(Reserved(lock[x], m))
<1>2. R \in Locks /\ L \in Locks /\ P \in Locks
  BY <1>1, LockTypes DEF Owners
<1>3. /\ CanReserve(lock[x], m) =>
           R.owner = m /\ lock[x].owner \in {None, m}
      /\ CanLock(lock[x], m) => L.owner = m /\ lock[x].owner = m
      /\ ~InUse(lock[x]) => P.owner = m /\ lock[x].owner = None
  BY <1>1 DEF Locks, CanReserve, CanLock, InUse, Reserved, Locked
<1> HIDE DEF R, L, P
<1>4. \/ CanReserve(lock[x], m) /\ lock' = [lock EXCEPT ![x] = R]
      \/ CanLock(lock[x], m) /\ lock' = [lock EXCEPT ![x] = L]
      \/ ~InUse(lock[x]) /\ lock' = [lock EXCEPT ![x] = P]
  BY DEF R, L, P
<1> QED BY <1>2, <1>3, <1>4 DEF Touches, Changes

\* A step of a locomotive touches one lock at most.
LEMMA ActsTouch ==
  ASSUME TypeInv, NEW m \in Locos, Acts(m)
  PROVE  Touches(m)
<1> USE DEF TypeInv, TypeOK, ThreadTypes, WorkOK, RouteLabels, Labels, Threads
<1>1. ASSUME lock' = lock PROVE Touches(m)
  BY <1>1 DEF Touches
<1>2. ASSUME ProcedureStep(m) PROVE Touches(m)
  <2>1. CASE UndoMember(m)
    <3>1. /\ Parts[work[m]][next[m]] \in Lockables
          /\ lock' = [lock EXCEPT ![Parts[work[m]][next[m]]] = Released(@, m)]
      BY <2>1, MemberTypes, KindsDiffer
         DEF UndoMember, ReleaseItem, Lockables, Id
    <3> QED BY <3>1, ReleaseTouches
  <2>2. CASE RouteReleased(m)
    <3>1. /\ work[m] \in Lockables
          /\ lock' = [lock EXCEPT ![work[m]] = Released(@, m)]
      BY <2>2, KindsDiffer DEF RouteReleased, Lockables, Id
    <3> QED BY <3>1, ReleaseTouches
  <2>3. CASE CheckExecute(m) \/ BeginExecute(m) \/ ExecuteRefused(m)
             \/ ExecuteMember(m) \/ RouteExecuted(m)
    BY <2>3, <1>1 DEF CheckExecute, BeginExecute, ExecuteRefused,
                      ExecuteMember, RouteExecuted
  <2>4. CASE BeginRelease(m) \/ UnlockMember(m) \/ UnlockDone(m)
    BY <2>4, <1>1 DEF BeginRelease, UnlockMember, UnlockDone
  <2> QED BY <1>2, <2>1, <2>2, <2>3, <2>4 DEF ProcedureStep
<1>3. ASSUME LocoStep(m) PROVE Touches(m)
  <2>1. CASE ReserveMember(m)
    <3>1. Member(work[m], next[m]) \in Lockables
      BY <2>1, MemberTypes DEF ReserveMember, Lockables
    <3> QED BY <2>1, <3>1, TakeTouches, <1>1 DEF ReserveMember
  <2>2. CASE LockMember(m)
    <3>1. Member(work[m], next[m]) \in Lockables
      BY <2>2, MemberTypes DEF LockMember, Lockables
    <3> QED BY <2>2, <3>1, TakeTouches, <1>1 DEF LockMember
  <2>3. CASE DecideReserve(m) \/ DecideLock(m)
    <3>1. work[m] \in Lockables
      BY <2>3 DEF DecideReserve, DecideLock, Lockables
    <3> QED BY <2>3, <3>1, TakeTouches
            DEF DecideReserve, EnterReserve, DecideLock
  <2>4. CASE UndoTrack(m) \/ DropTrack(m)
    <3>1. ToTrack[work[m]] \in Lockables
      BY <2>4, LayoutTypes DEF UndoTrack, DropTrack, Lockables
    <3> QED BY <2>4, <3>1, ReleaseTouches DEF UndoTrack, DropTrack, ReleaseItem
  <2>5. CASE FreeTrack(m)
    <3>1. Head(freeTracks[m]) \in Lockables
      BY <2>5 DEF FreeTrack, TrainTypes, Lockables
    <3> QED BY <2>5, <3>1, ReleaseTouches DEF FreeTrack, ReleaseItem
  <2>6. CASE RouteReserved(m) \/ CheckReserved(m) \/ Dequeue(m)
             \/ DecideExecute(m) \/ DecideRefused(m) \/ RouteLocked(m)
    BY <2>6, <1>1 DEF RouteReserved, CheckReserved, Dequeue, DecideExecute,
                      DecideRefused, RouteLocked
  <2>7. CASE FreeRoute(m) \/ FreeDone(m)
    BY <2>7, <1>1 DEF FreeRoute, FreeDone
  <2> QED BY <1>3, <2>1, <2>2, <2>3, <2>4, <2>5, <2>6, <2>7 DEF LocoStep
<1>4. ASSUME LocoBegins(m) PROVE Touches(m)
  <2>1. ASSUME NEW r \in Routes, SearchRoute(m, r) PROVE Touches(m)
    BY <2>1, TakeTouches DEF SearchRoute, EnterReserve, Lockables
  <2>2. ASSUME NEW r \in Routes, NEW a \in {RouteAuto, RouteStop},
               AddTimeTable(m, r, a)
        PROVE  Touches(m)
    BY <2>2, <1>1 DEF AddTimeTable
  <2>3. ASSUME NEW t \in Tracks, PlaceLoco(m, t) PROVE Touches(m)
    BY <2>3, TakeTouches DEF PlaceLoco, Lockables
  <2>4. CASE PlanFollowUp(m) \/ StartLoco(m) \/ ReleaseLoco(m)
             \/ ReachFirst(m) \/ ReachStop(m)
    BY <2>4, <1>1 DEF PlanFollowUp, StartLoco, ReleaseLoco, ReachFirst,
                      ReachStop
  <2> QED BY <1>4, <2>1, <2>2, <2>3, <2>4 DEF LocoBegins
<1> QED BY <1>2, <1>3, <1>4 DEF Acts

\* A step is of the locomotive itself, or it leaves alone what the locomotive
\* owns, or a feedback gives back a track of it that is released when free.
LEMMA WhoSteps ==
  ASSUME TypeInv, PendingInv, OwnPlans, [Next]_vars, NEW l \in Locos
  PROVE  \/ Acts(l)
         \/ Rests(l) /\ LocksKept(l)
         \/ Rests(l) /\ \E t \in Tracks : FeedbackFree(t) /\ lock[t].owner = l
<1> DEFINE Quiet == Rests(l) /\ LocksKept(l)
<1>1. ASSUME NEW m \in Locos, m # l, Acts(m) PROVE Quiet
  <2>1. Rests(l)
    BY <1>1, OthersRest DEF Acts, Threads
  <2>2. Touches(m)
    BY <1>1, ActsTouch
  <2>3. LocksKept(l)
    BY <2>2, <1>1, NoneIsNoLoco
       DEF Touches, Changes, LocksKept, FreeLock, TypeInv, TypeOK, ItemTypes
  <2> QED BY <2>1, <2>3
<1>2. ASSUME ProcedureStep(Operator) PROVE Quiet
  <2>1. Rests(l)
    BY <1>2, OthersRest, KindsDiffer DEF Threads
  <2>2. lock' = lock
    BY <1>2 DEF ProcedureStep, CheckExecute, BeginExecute, ExecuteRefused,
                ExecuteMember, RouteExecuted, BeginRelease, UnlockMember,
                UnlockDone, UndoMember, RouteReleased, PendingInv, OperatorOK
  <2> QED BY <2>1, <2>2 DEF LocksKept
<1>3. ASSUME OperatorStep PROVE Quiet
  <2> USE KindsDiffer
      DEF Rests, LocksKept, TypeInv, TypeOK, ThreadTypes, Threads, OwnPlans
  <2>1. ASSUME NEW r \in Routes, OperatorExecutes(r) PROVE Quiet
    BY <2>1 DEF OperatorExecutes, Operate, Proceed, Goto, trainVars, queueVars
  <2>2. ASSUME NEW r \in Routes, OperatorReleasesRoute(r) PROVE Quiet
    BY <2>2 DEF OperatorReleasesRoute
  <2>3. ASSUME NEW e \in Elements, OperatorThrows(e) PROVE Quiet
    BY <2>3 DEF OperatorThrows, Operate, Proceed, Goto, trainVars, queueVars
  <2>4. ASSUME NEW x \in Tracks \cup Elements, OperatorReleasesItem(x)
        PROVE  Quiet
    BY <2>4 DEF OperatorReleasesItem
  <2>5. ASSUME ElementThrown PROVE Quiet
    BY <2>5 DEF ElementThrown, Settle, Proceed, Goto, trainVars, queueVars
  <2> QED BY <1>3, <2>1, <2>2, <2>3, <2>4, <2>5 DEF OperatorStep
<1>4. ASSUME NEW t \in Tracks, FeedbackFree(t)
      PROVE  Rests(l) /\ (LocksKept(l) \/ lock[t].owner = l)
  <2>1. Rests(l)
    BY <1>4 DEF FeedbackFree, Rests, threadVars, trainVars, queueVars
  <2>2. t \in Lockables /\ lock[t].owner \in Locos
    BY <1>4 DEF FeedbackFree, Lockables, TypeInv, TypeOK, ItemTypes, Locks,
                Owners
  <2>3. lock' = [lock EXCEPT ![t] = FreeLock]
    BY <1>4, <2>2 DEF FeedbackFree, ReleaseItem, Released, CanRelease
  <2> QED BY <2>1, <2>2, <2>3, NoneIsNoLoco
          DEF LocksKept, FreeLock, TypeInv, TypeOK, ItemTypes
<1>5. ASSUME NEW e \in Elements, NEW p \in Positions, ForeignCommand(e, p)
      PROVE  Quiet
  BY <1>5 DEF ForeignCommand, Rests, LocksKept, threadVars, trainVars,
              queueVars
<1>6. ASSUME UNCHANGED vars PROVE Quiet
  BY <1>6 DEF vars, Rests, LocksKept, threadVars, trainVars, queueVars
<1> HIDE DEF Quiet
<1>7. \/ Acts(l)
      \/ Quiet
      \/ Rests(l) /\ \E t \in Tracks : FeedbackFree(t) /\ lock[t].owner = l
  <2>1. ASSUME NEW t \in Threads, ProcedureStep(t) PROVE Acts(l) \/ Quiet
    BY <2>1, <1>1, <1>2 DEF Acts, Threads
  <2>2. ASSUME NEW m \in Locos, LocoStep(m) \/ LocoBegins(m)
        PROVE  Acts(l) \/ Quiet
    BY <2>2, <1>1 DEF Acts
  <2>3. ASSUME Environment
        PROVE  Quiet
               \/ (Rests(l) /\ \E t \in Tracks :
                                  FeedbackFree(t) /\ lock[t].owner = l)
    <3>1. ASSUME NEW t \in Tracks, FeedbackFree(t), lock[t].owner # l
          PROVE  Quiet
      BY <3>1, <1>4 DEF Quiet
    <3> QED BY <2>3, <3>1, <1>4, <1>5 DEF Environment
  <2> QED BY <2>1, <2>2, <2>3, <1>3, <1>6 DEF Next
<1> QED BY <1>7 DEF Quiet

(***************************************************************************)
(* The journey                                                               *)
(***************************************************************************)
JourneyOf(l) == Following(l) /\ Planning(l) /\ Preparation(l) /\ Passing(l)

\* A route shares nothing with the one before it, nor does it use the track
\* that one begins at.
LEMMA Disjoint ==
  ASSUME RoutesApart, NEW q \in Routes, NEW r \in Routes,
         FromTrack[q] = ToTrack[r]
  PROVE  /\ q # r
         /\ FromTrack[r] \notin Footprint(q)
         /\ \A x \in Footprint(q) : x \notin Footprint(r)
         /\ \A x \in Footprint(r) : x \notin Footprint(q)
<1>1. Footprint(q) \cap (Footprint(r) \cup {FromTrack[r]}) = {}
  BY DEF RoutesApart
<1>2. FromTrack[q] \notin Footprint(q) /\ ToTrack[r] \in Footprint(r)
  BY DEF RoutesApart, Footprint
<1> QED BY <1>1, <1>2

\* A locomotive that rests stays where it is on its journey.
LEMMA RestingJourney ==
  ASSUME NEW l \in Locos, JourneyOf(l), Rests(l)
  PROVE  JourneyOf(l)'
<1>1. Following(l)' /\ Planning(l)'
  BY DEF JourneyOf, Following, Planning, EndTrack, Rests
<1>2. Preparation(l)'
  BY DEF JourneyOf, Preparation, Leaving, Seeking, EndTrack, Rests
<1>3. /\ \A x : Unneeded(l, x) <=> Unneeded(l, x)'
      /\ \A r : Spare(l, r) <=> Spare(l, r)'
  BY DEF Unneeded, Spare, Rests
<1>4. Passing(l)'
  BY <1>3 DEF JourneyOf, Passing, Leaving, Rests
<1> QED BY <1>1, <1>2, <1>4 DEF JourneyOf

\* The labels of a thread that works on a route for its train.
LEMMA SeekingLabels ==
  ASSUME TypeInv, NEW l \in Locos
  PROVE  Seeking(l) <=>
           \/ pc[l] \in {"reserve", "check", "decide", "lock", "ready", "enter",
                         "execute", "abort", "undoTrack", "dropTrack"}
           \/ pc[l] \in {"unlock", "undo"} /\ caller[l] # "queue"
BY KindsDiffer
   DEF Seeking, Leaving, TypeInv, TypeOK, ThreadTypes, Labels, Threads, WorkOK

\* The steps of a procedure on a route do not touch the journey.
LEMMA ProcedureJourney ==
  ASSUME TypeInv, NEW l \in Locos, JourneyOf(l),
         UNCHANGED <<from, first, second, follow, plan, freeTracks, freeRoutes>>,
         work'[l] = work[l],
         pc[l] # "free", pc'[l] # "free",
         Leaving(l) => Leaving(l)',
         ~Leaving(l) => Seeking(l) /\ Seeking(l)',
         caller'[l] = caller[l] \/ caller'[l] \in {"timetable", "drop"},
         pc'[l] \in {"reserve", "check"} /\ caller'[l] = "search" =>
           pc[l] = "reserve" /\ caller[l] = "search",
         pc'[l] \notin {"dequeue", "idle", "throw"}
  PROVE  JourneyOf(l)'
<1>1. Following(l)' /\ Planning(l)'
  BY DEF JourneyOf, Following, Planning, EndTrack
<1>2. Preparation(l)'
  BY DEF JourneyOf, Preparation, Leaving, Seeking, EndTrack
<1>3. /\ \A x : Unneeded(l, x) <=> Unneeded(l, x)'
      /\ \A r : Spare(l, r) <=> Spare(l, r)'
  BY DEF Unneeded, Spare
<1>4. Passing(l)'
  <2>1. CASE Leaving(l)
    BY <1>3, <2>1 DEF JourneyOf, Passing
  <2>2. CASE ~Leaving(l)
    BY <2>2 DEF JourneyOf, Passing, Seeking
  <2> QED BY <2>1, <2>2
<1> QED BY <1>1, <1>2, <1>4 DEF JourneyOf

\* A list with one element, the tail of a list, the routes a train has taken.
LEMMA OneElement ==
  ASSUME NEW e
  PROVE  /\ Append(<<>>, e) # <<>> /\ Head(Append(<<>>, e)) = e
         /\ Tail(Append(<<>>, e)) = <<>>
OBVIOUS

\* What is left of a list when its first element is taken.
LEMMA TailElements ==
  ASSUME NEW S, NEW s \in Seq(S), s # <<>>
  PROVE  /\ 1 \in 1..Len(s) /\ Head(s) = s[1]
         /\ \A i \in 1..Len(Tail(s)) : i + 1 \in 1..Len(s) /\ Tail(s)[i] = s[i + 1]
OBVIOUS

\* The elements of two lists, one after the other.
LEMMA JoinElements ==
  ASSUME NEW S, NEW s \in Seq(S), NEW t \in Seq(S)
  PROVE  \A i \in 1..Len(s \o t) : (s \o t)[i] \in S
<1>1. s \o t \in Seq(S)
  OBVIOUS
<1> QED BY <1>1

\* The track that is left is the one the train was on.
LEMMA LeftList ==
  ASSUME NEW S, NEW a \in S, NEW b
  PROVE  Left(a, b) \in Seq(S)
BY DEF Left

\* The routes a train has taken, the first one first.
LEMMA RunningRoutes ==
  ASSUME TypeInv, NEW l \in Locos
  PROVE  /\ \A i \in 1..Len(Running(l)) : /\ Running(l)[i] \in Routes
                                        /\ Running(l)[i] \in Active(l)
         /\ \A i, j \in 1..Len(Running(l)) : i # j =>
              /\ second[l] # None
              /\ \/ Running(l)[i] = first[l] /\ Running(l)[j] = second[l]
                 \/ Running(l)[i] = second[l] /\ Running(l)[j] = first[l]
         /\ \A r \in Active(l) : \E i \in 1..Len(Running(l)) : r = Running(l)[i]
<1>1. /\ second[l] # None => first[l] # None
      /\ first[l] \in Routes \cup {None} /\ second[l] \in Routes \cup {None}
  BY DEF TypeInv, TypeOK, TrainTypes, TrainOK
<1>2. CASE first[l] = None
  BY <1>1, <1>2 DEF Running, Active
<1>3. CASE first[l] # None /\ second[l] = None
  <2>1. Running(l) = <<first[l]>>
    BY <1>1, <1>3 DEF Running
  <2> QED BY <1>1, <1>3, <2>1 DEF Active
<1>4. CASE first[l] # None /\ second[l] # None
  <2>1. /\ Len(Running(l)) = 2
        /\ Running(l)[1] = first[l] /\ Running(l)[2] = second[l]
    BY <1>1, <1>4 DEF Running
  <2>2. 1..Len(Running(l)) = {1, 2}
    BY <2>1
  <2> QED BY <1>1, <1>4, <2>1, <2>2 DEF Active
<1> QED BY <1>1, <1>2, <1>3, <1>4

\* They share nothing.
LEMMA RunningApart ==
  ASSUME TypeInv, RoutesApart, NEW l \in Locos, Following(l),
         NEW i \in 1..Len(Running(l)), NEW j \in 1..Len(Running(l)), i # j
  PROVE  Apart(Running(l)[i], Running(l)[j])
<1>1. /\ second[l] # None
      /\ \/ Running(l)[i] = first[l] /\ Running(l)[j] = second[l]
         \/ Running(l)[i] = second[l] /\ Running(l)[j] = first[l]
  BY RunningRoutes
<1>2. first[l] \in Routes /\ second[l] \in Routes
  BY <1>1 DEF TypeInv, TypeOK, TrainTypes, TrainOK
<1>3. FromTrack[second[l]] = ToTrack[first[l]]
  BY <1>1 DEF Following
<1>4. /\ second[l] # first[l]
      /\ \A x \in Way(second[l]) : x \notin Way(first[l])
  BY <1>2, <1>3, Disjoint DEF Footprint
<1> QED BY <1>1, <1>4 DEF Apart

\* Each step of a locomotive takes it on its journey.
LEMMA ActsJourney ==
  ASSUME TypeInv, TypeInv', OwnPlans, RoutesApart, NEW l \in Locos,
         JourneyOf(l), Acts(l)
  PROVE  JourneyOf(l)'
<1> USE DEF TypeInv, TypeOK, ThreadTypes, TrainTypes, Threads
<1>1. ASSUME CheckExecute(l) \/ BeginExecute(l) \/ ExecuteRefused(l)
      PROVE  JourneyOf(l)'
  BY <1>1, ProcedureJourney, KindsDiffer
     DEF CheckExecute, BeginExecute, ExecuteRefused, ExecuteFails, Enter,
         Proceed, Goto, Seeking, Leaving, trainVars, queueVars
<1>2. ASSUME ExecuteMember(l) PROVE JourneyOf(l)'
  <2>1. /\ UNCHANGED <<trainVars, plan, queueVars>> /\ work' = work
        /\ pc[l] = "execute" /\ pc'[l] \in {"execute", "abort"}
        /\ caller'[l] \in {caller[l], "drop"}
    BY <1>2, KindsDiffer DEF ExecuteMember, ExecuteFails, Proceed, Goto
  <2> QED
    BY <2>1, ProcedureJourney DEF Seeking, Leaving, trainVars, queueVars
<1>3. ASSUME BeginRelease(l) \/ UnlockMember(l) \/ UnlockDone(l) \/ UndoMember(l)
      PROVE  JourneyOf(l)'
  BY <1>3, ProcedureJourney
     DEF BeginRelease, UnlockMember, UnlockDone, UndoMember, ReleaseLabel,
         Enter, Proceed, Goto, Seeking, Leaving, trainVars, queueVars,
         JourneyOf, Preparation
<1>4. ASSUME ReserveMember(l) \/ RouteReserved(l) \/ LockMember(l)
             \/ RouteLocked(l) \/ UndoTrack(l)
      PROVE  JourneyOf(l)'
  BY <1>4, ProcedureJourney
     DEF ReserveMember, RouteReserved, LockMember, RouteLocked, UndoTrack,
         ReleaseLabel, Proceed, Goto, Seeking, Leaving, trainVars, queueVars,
         JourneyOf, Preparation
<1>5. ASSUME DecideReserve(l) \/ DecideLock(l) \/ DecideExecute(l)
      PROVE  JourneyOf(l)'
  BY <1>5, ProcedureJourney
     DEF DecideReserve, DecideLock, DecideExecute, EnterReserve, Enter,
         Proceed, Goto, Seeking, Leaving, trainVars, queueVars
<1>6. ASSUME RouteReleased(l) PROVE JourneyOf(l)'
  <2>1. /\ UNCHANGED <<trainVars, plan, queueVars>>
        /\ pc[l] = "undo"
        /\ \/ /\ caller[l] = "drop" /\ pc'[l] = "dropTrack"
              /\ work'[l] = work[l] /\ caller'[l] = "drop"
           \/ caller[l] = "queue" /\ pc'[l] = "free" /\ caller'[l] = "none"
           \/ caller[l] # "queue" /\ pc'[l] = "idle" /\ caller'[l] = "none"
    BY <1>6 DEF RouteReleased, ReturnFromRelease, Settle, Proceed, Goto
  <2> HIDE DEF TypeInv, TypeOK, ThreadTypes, TrainTypes
  <2>2. Following(l)' /\ Planning(l)'
    BY <2>1 DEF JourneyOf, Following, Planning, EndTrack, trainVars
  <2>3. Preparation(l)'
    BY <2>1 DEF JourneyOf, Preparation, Leaving, Seeking, EndTrack, trainVars
  <2>4. /\ \A x : Unneeded(l, x) <=> Unneeded(l, x)'
        /\ \A r : Spare(l, r) <=> Spare(l, r)'
    BY <2>1 DEF Unneeded, Spare, trainVars
  <2>5. Passing(l)'
    BY <2>1, <2>4 DEF JourneyOf, Passing, Leaving, trainVars, queueVars
  <2> QED BY <2>2, <2>3, <2>5 DEF JourneyOf
<1>7. ASSUME DecideRefused(l) \/ DropTrack(l) \/ FreeDone(l) \/ StartLoco(l)
      PROVE  JourneyOf(l)'
  BY <1>7, KindsDiffer
     DEF DecideRefused, DropTrack, FreeDone, StartLoco, Settle, Proceed, Goto,
         Seeking, Leaving, threadVars, trainVars, queueVars, JourneyOf,
         Following, Planning, Preparation, Passing, Unneeded, EndTrack
<1>8. ASSUME CheckReserved(l) PROVE JourneyOf(l)'
  <2>1. CASE caller[l] = "search" /\ pc'[l] = "dequeue"
    <3>1. /\ plan' = [plan EXCEPT ![l] = Append(<<>>, [route |-> work[l],
                                            after |-> FollowUp[work[l]]])]
          /\ UNCHANGED <<work, next, caller, trainVars, queueVars>>
      BY <1>8, <2>1 DEF CheckReserved, JourneyOf, Preparation, Goto
    <3>2. /\ plan'[l] # <<>> /\ Tail(plan'[l]) = <<>>
          /\ Head(plan'[l]).route = work[l]
          /\ Head(plan'[l]).after = FollowUp[work[l]]
      BY <3>1, OneElement
    <3>3. /\ Seeking(l) /\ ~Leaving(l)
          /\ work[l] \in Routes
      BY <1>8, <2>1 DEF CheckReserved, Seeking, Leaving, WorkOK, RouteLabels,
                        Labels
    <3>4. ~Leaving(l)' /\ ~Seeking(l)'
      BY <2>1 DEF Leaving, Seeking
    <3> QED
      BY <2>1, <3>1, <3>2, <3>3, <3>4
         DEF JourneyOf, Following, Planning, Preparation, Passing, EndTrack,
             OwnPlans, trainVars, queueVars
  <2>2. CASE pc'[l] # "dequeue"
    BY <1>8, <2>2, ProcedureJourney
       DEF CheckReserved, Goto, Seeking, Leaving, trainVars, queueVars
  <2> QED BY <1>8, <2>1, <2>2 DEF CheckReserved, Goto
<1>9. ASSUME Dequeue(l) PROVE JourneyOf(l)'
  <2>1. FromTrack[Head(plan[l]).route] = EndTrack(l)
    BY <1>9 DEF Dequeue, JourneyOf, Planning
  <2>2. /\ pc'[l] = "decide" /\ work'[l] = Head(plan[l]).route
        /\ UNCHANGED <<caller, plan, trainVars, queueVars>>
        /\ plan[l] # <<>> /\ pc[l] \in {"idle", "dequeue"}
    BY <1>9, <2>1 DEF Dequeue, Goto
  <2> HIDE DEF TypeInv, TypeOK, ThreadTypes, TrainTypes
  <2>3. Following(l)' /\ Planning(l)'
    BY <2>2 DEF JourneyOf, Following, Planning, EndTrack, trainVars
  <2>4. Preparation(l)'
    BY <2>1, <2>2
       DEF JourneyOf, Preparation, Planning, Leaving, Seeking, EndTrack,
           trainVars
  <2>5. Passing(l)'
    BY <2>2 DEF JourneyOf, Passing, Leaving, queueVars
  <2> QED BY <2>3, <2>4, <2>5 DEF JourneyOf
<1>10. ASSUME RouteExecuted(l) PROVE JourneyOf(l)'
  <2>1. Tail(plan[l]) = <<>> /\ work[l] \in Routes /\ l # Operator
        /\ Head(plan[l]).after \notin Routes
    BY <1>10, KindsDiffer
       DEF RouteExecuted, JourneyOf, Planning, WorkOK, RouteLabels, Labels,
           TrainOK, Serving
  <2>0. /\ plan' = [plan EXCEPT ![l] = Tail(plan[l])]
        /\ follow' = [follow EXCEPT ![l] = Head(plan[l]).after]
        /\ UNCHANGED <<from, queueVars>>
    BY <1>10, <2>1 DEF RouteExecuted
  <2>2. /\ pc'[l] = "idle" /\ plan'[l] = <<>> /\ from'[l] = from[l]
        /\ IF first[l] = None
           THEN first'[l] = work[l] /\ second'[l] = second[l]
           ELSE first'[l] = first[l] /\ second'[l] = work[l]
        /\ follow'[l] \notin Routes
        /\ caller'[l] = "none"
        /\ UNCHANGED queueVars
    <3>1. /\ pc'[l] = "idle" /\ caller'[l] = "none"
          /\ IF first[l] = None
             THEN first'[l] = work[l] /\ second'[l] = second[l]
             ELSE first'[l] = first[l] /\ second'[l] = work[l]
      BY <1>10, <2>1 DEF RouteExecuted, Settle, Proceed, Goto
    <3>2. plan'[l] = <<>> /\ follow'[l] \notin Routes
      BY <2>1, <2>0
    <3> QED BY <3>1, <3>2, <2>0
  <2>3. Seeking(l) /\ ~Leaving(l) /\ ~Seeking(l)' /\ ~Leaving(l)'
    BY <1>10, <2>2 DEF RouteExecuted, Seeking, Leaving
  <2> QED
    BY <2>1, <2>2, <2>3
       DEF JourneyOf, Following, Planning, Preparation, Passing, EndTrack,
           queueVars
<1>11. ASSUME FreeTrack(l) PROVE JourneyOf(l)'
  <2>1. /\ UNCHANGED <<threadVars, trainVars, plan, freeRoutes>>
        /\ pc[l] = "free"
        /\ freeTracks'[l] = Tail(freeTracks[l])
        /\ \A i \in 1..Len(freeTracks'[l]) :
             /\ i + 1 \in 1..Len(freeTracks[l])
             /\ freeTracks'[l][i] = freeTracks[l][i + 1]
    BY <1>11, TailElements DEF FreeTrack
  <2> HIDE DEF TypeInv, TypeOK, ThreadTypes, TrainTypes
  <2>2. Leaving(l) /\ Leaving(l)' /\ ~Seeking(l)'
    BY <2>1 DEF Leaving, Seeking, threadVars
  <2>3. Following(l)' /\ Planning(l)' /\ Preparation(l)'
    BY <2>1, <2>2
       DEF JourneyOf, Following, Planning, Preparation, EndTrack, threadVars,
           trainVars
  <2>4. /\ \A x : Unneeded(l, x) <=> Unneeded(l, x)'
        /\ \A r : Spare(l, r) <=> Spare(l, r)'
    BY <2>1 DEF Unneeded, Spare, trainVars
  <2>5. Passing(l)'
    BY <2>1, <2>2, <2>4 DEF JourneyOf, Passing, threadVars, trainVars
  <2> QED BY <2>3, <2>5 DEF JourneyOf
<1>12. ASSUME FreeRoute(l) PROVE JourneyOf(l)'
  <2>1. /\ UNCHANGED <<trainVars, plan, freeTracks>>
        /\ pc[l] = "free" /\ pc'[l] \in {"unlock", "undo"}
        /\ caller'[l] = "queue" /\ work'[l] = freeRoutes[l][1]
        /\ 1 \in 1..Len(freeRoutes[l])
        /\ freeRoutes'[l] = Tail(freeRoutes[l])
        /\ \A i \in 1..Len(freeRoutes'[l]) :
             /\ i + 1 \in 1..Len(freeRoutes[l]) /\ i + 1 # 1
             /\ freeRoutes'[l][i] = freeRoutes[l][i + 1]
        /\ \A i, j \in 1..Len(freeRoutes'[l]) : i # j => i + 1 # j + 1
    BY <1>12, TailElements
       DEF FreeRoute, Enter, Proceed, Goto, ReleaseLabel
  <2> HIDE DEF TypeInv, TypeOK, ThreadTypes, TrainTypes
  <2>2. Leaving(l) /\ Leaving(l)' /\ ~Seeking(l)'
    BY <2>1 DEF Leaving, Seeking
  <2>3. Following(l)' /\ Planning(l)' /\ Preparation(l)'
    BY <2>1, <2>2
       DEF JourneyOf, Following, Planning, Preparation, EndTrack, trainVars
  <2>4. /\ \A x : Unneeded(l, x) <=> Unneeded(l, x)'
        /\ \A r : Spare(l, r) <=> Spare(l, r)'
    BY <2>1 DEF Unneeded, Spare, trainVars
  <2>5. Passing(l)
    BY DEF JourneyOf
  <2>6. Passing(l)'
    BY <2>1, <2>2, <2>4, <2>5 DEF Passing, trainVars
  <2> QED BY <2>3, <2>6 DEF JourneyOf
<1>13. ASSUME NEW r \in Routes, SearchRoute(l, r) PROVE JourneyOf(l)'
  <2>1. /\ UNCHANGED <<trainVars, plan, queueVars>>
        /\ pc[l] = "idle" /\ pc'[l] = "reserve" /\ caller'[l] = "search"
        /\ work'[l] = r /\ FromTrack[r] = EndTrack(l)
        /\ from[l] # None /\ second[l] = None /\ plan[l] = <<>>
    BY <1>13 DEF SearchRoute, SeeksRoute, EnterReserve, Enter, Proceed, Goto
  <2> QED
    BY <2>1
       DEF JourneyOf, Following, Planning, Preparation, Passing, EndTrack,
           Leaving, Seeking, trainVars, queueVars
<1>14. ASSUME NEW t \in Tracks, PlaceLoco(l, t) PROVE JourneyOf(l)'
  BY <1>14
     DEF PlaceLoco, TrainOK, JourneyOf, Following, Planning, Preparation,
         Passing, EndTrack, Leaving, Seeking, threadVars, queueVars
<1>15. ASSUME PlanFollowUp(l) \/ (\E r \in Routes, a \in {RouteAuto, RouteStop} :
                                  AddTimeTable(l, r, a))
       PROVE  JourneyOf(l)'
  BY <1>15 DEF PlanFollowUp, AddTimeTable, JourneyOf, Following, OwnPlans
<1>16. ASSUME ReleaseLoco(l) PROVE JourneyOf(l)'
  <2>1. /\ from'[l] = None /\ first'[l] = None /\ second'[l] = None
        /\ pc[l] = "idle" /\ pc'[l] = "free"
        /\ plan[l] = <<>> /\ UNCHANGED <<follow, plan, caller>>
        /\ freeRoutes'[l] = Running(l)
    BY <1>16 DEF ReleaseLoco, OwnPlans, Goto
  <2>2. Leaving(l)' /\ ~Seeking(l)'
    BY <2>1 DEF Leaving, Seeking
  <2>3. \A x \in Lockables : Unneeded(l, x)'
    BY <2>1, KindsDiffer DEF Unneeded
  <2>4. /\ \A i \in 1..Len(freeTracks'[l]) : freeTracks'[l][i] \in Lockables
        /\ \A i \in 1..Len(freeRoutes'[l]) : freeRoutes'[l][i] \in Routes
    BY DEF Lockables
  <2>5. \A q \in Routes : Spare(l, q)'
    BY <2>3, MembersLockable DEF Lockables, Spare
  <2>6. \A i, j \in 1..Len(freeRoutes'[l]) : i # j =>
          Apart(freeRoutes'[l][i], freeRoutes'[l][j])
    BY <2>1, RunningApart DEF JourneyOf
  <2> HIDE DEF TypeInv, TypeOK, ThreadTypes, TrainTypes
  <2>7. Following(l)' /\ Planning(l)' /\ Preparation(l)'
    BY <2>1, <2>2 DEF JourneyOf, Following, Planning, Preparation
  <2>8. Passing(l)'
    BY <2>1, <2>2, <2>3, <2>4, <2>5, <2>6 DEF Passing
  <2> QED BY <2>7, <2>8 DEF JourneyOf
<1>17. ASSUME ReachFirst(l) PROVE JourneyOf(l)'
  <2>1. PICK r \in Routes, q \in Routes, a \in Tracks :
          r = first[l] /\ q = second[l] /\ a = from[l]
    BY <1>17 DEF ReachFirst, TrainOK
  <2>2. /\ from'[l] = ToTrack[r] /\ first'[l] = q /\ second'[l] = None
        /\ pc[l] = "idle" /\ pc'[l] = "free"
        /\ UNCHANGED <<follow, plan, caller>>
        /\ freeTracks'[l] = Left(a, ToTrack[r])
        /\ freeRoutes'[l] = <<r>>
    BY <1>17, <2>1 DEF ReachFirst, Goto
  <2>3. Leaving(l)' /\ ~Seeking(l)'
    BY <2>2 DEF Leaving, Seeking
  <2>4. q # None /\ r # None
    BY KindsDiffer DEF Lockables
  <2> HIDE DEF TypeInv, TypeOK, ThreadTypes, TrainTypes
  <2>5. a = FromTrack[r] /\ FromTrack[q] = ToTrack[r] /\ plan[l] = <<>>
    BY <2>1, <2>4 DEF JourneyOf, Following, Planning
  <2>6. Following(l)' /\ Planning(l)' /\ Preparation(l)'
    BY <2>2, <2>3, <2>5 DEF JourneyOf, Following, Planning, Preparation
  <2>7. q # r /\ a \notin Footprint(q) /\ \A x \in Footprint(r) : x \notin Footprint(q)
    BY <2>5, Disjoint
  <2>8. Spare(l, r)'
    BY <2>2, <2>7, MembersLockable, KindsDiffer
       DEF Spare, Unneeded, RoutesApart, Lockables
  <2>9. a # ToTrack[r] => Unneeded(l, a)'
    BY <2>2, <2>7, KindsDiffer DEF Unneeded
  <2>10. /\ \A i \in 1..Len(freeTracks'[l]) :
              freeTracks'[l][i] = a /\ a # ToTrack[r]
         /\ \A i \in 1..Len(freeRoutes'[l]) : freeRoutes'[l][i] = r
         /\ \A i, j \in 1..Len(freeRoutes'[l]) : i = j
    BY <2>2 DEF Left
  <2>11. Passing(l)'
    BY <2>2, <2>3, <2>8, <2>9, <2>10 DEF Passing
  <2> QED BY <2>6, <2>11 DEF JourneyOf
<1>18. ASSUME ReachStop(l), second[l] = None PROVE JourneyOf(l)'
  <2>1. PICK r \in Routes, a \in Tracks \cup {None} : r = first[l] /\ a = from[l]
    BY <1>18 DEF ReachStop
  <2>2. /\ from'[l] = ToTrack[r] /\ first'[l] = None /\ second'[l] = None
        /\ pc[l] = "idle" /\ pc'[l] = "free"
        /\ UNCHANGED <<follow, plan, caller>>
        /\ freeTracks'[l] = Left(a, ToTrack[r])
        /\ freeRoutes'[l] = Running(l)
    BY <1>18, <2>1 DEF ReachStop, Goto
  <2>3. Leaving(l)' /\ ~Seeking(l)'
    BY <2>2 DEF Leaving, Seeking
  <2>4. \A i \in 1..Len(freeRoutes'[l]) : freeRoutes'[l][i] = r
    BY <1>18, <2>1, <2>2, RunningRoutes DEF Active
  <2>5. \A i, j \in 1..Len(freeRoutes'[l]) : i = j
    <3> HIDE DEF TypeInv, TypeOK, ThreadTypes, TrainTypes, Threads
    <3>1. \A i, j \in 1..Len(Running(l)) : i # j => second[l] # None
      BY RunningRoutes
    <3> QED BY <1>18, <2>2, <3>1
  <2>6. \A i \in 1..Len(freeTracks'[l]) : freeTracks'[l][i] # ToTrack[r]
    BY <2>2 DEF Left
  <2> HIDE DEF TypeInv, TypeOK, ThreadTypes, TrainTypes
  <2>7. Following(l)' /\ Planning(l)' /\ Preparation(l)'
    BY <2>1, <2>2, <2>3, KindsDiffer, LayoutTypes
       DEF JourneyOf, Following, Planning, Preparation, EndTrack, Lockables
  <2>8. Spare(l, r)'
    BY <2>2, MembersLockable, KindsDiffer
       DEF Spare, Unneeded, RoutesApart, Lockables
  <2>9. \A x : x # ToTrack[r] => Unneeded(l, x)'
    BY <2>2 DEF Unneeded
  <2>10. Passing(l)'
    BY <2>2, <2>3, <2>4, <2>5, <2>6, <2>8, <2>9 DEF Passing
  <2> QED BY <2>7, <2>10 DEF JourneyOf
<1>19. ASSUME ReachStop(l), second[l] # None PROVE JourneyOf(l)'
  <2>1. PICK r \in Routes, q \in Routes, a \in Tracks :
          r = first[l] /\ q = second[l] /\ a = from[l]
    BY <1>19 DEF ReachStop, TrainOK
  <2>2. /\ from'[l] = ToTrack[q] /\ first'[l] = None /\ second'[l] = None
        /\ pc[l] = "idle" /\ pc'[l] = "free"
        /\ UNCHANGED <<follow, plan, caller>>
        /\ freeTracks'[l] = Left(a, ToTrack[r]) \o Left(ToTrack[r], ToTrack[q])
        /\ freeRoutes'[l] = Running(l)
    BY <1>19, <2>1 DEF ReachStop, Goto
  <2>3. Leaving(l)' /\ ~Seeking(l)'
    BY <2>2 DEF Leaving, Seeking
  <2>4. \A i \in 1..Len(freeRoutes'[l]) : freeRoutes'[l][i] \in {r, q}
    BY <2>1, <2>2, RunningRoutes DEF Active
  <2>5. \A i, j \in 1..Len(freeRoutes'[l]) : i # j =>
          Apart(freeRoutes'[l][i], freeRoutes'[l][j])
    BY <2>2, RunningApart DEF JourneyOf
  <2>6. q # None /\ r # None
    BY KindsDiffer DEF Lockables
  <2>7. a = FromTrack[r] /\ FromTrack[q] = ToTrack[r] /\ plan[l] = <<>>
    BY <2>1, <2>6 DEF JourneyOf, Following, Planning
  <2>8. /\ a \notin Footprint(q) /\ ToTrack[r] \notin Footprint(q)
        /\ \A x \in Footprint(r) : x \notin Footprint(q)
    BY <2>7, Disjoint DEF Footprint
  <2>9. \A i \in 1..Len(freeTracks'[l]) : freeTracks'[l][i] \in {a, ToTrack[r]}
    <3>1. /\ Left(a, ToTrack[r]) \in Seq({a, ToTrack[r]})
          /\ Left(ToTrack[r], ToTrack[q]) \in Seq({a, ToTrack[r]})
      BY LeftList
    <3> DEFINE s == Left(a, ToTrack[r])
               t == Left(ToTrack[r], ToTrack[q])
               S == {a, ToTrack[r]}
    <3> HIDE DEF s, t, S, TypeInv, TypeOK, ThreadTypes, TrainTypes, Threads
    <3>2. \A i \in 1..Len(s \o t) : (s \o t)[i] \in S
      BY <3>1, JoinElements DEF s, t, S
    <3> QED BY <2>2, <3>2 DEF s, t, S
  <2> HIDE DEF TypeInv, TypeOK, ThreadTypes, TrainTypes
  <2>10. Following(l)' /\ Planning(l)' /\ Preparation(l)'
    BY <2>2, <2>3, <2>7, KindsDiffer
       DEF JourneyOf, Following, Planning, Preparation
  <2>11. Spare(l, r)' /\ Spare(l, q)' /\ Unneeded(l, a)' /\ Unneeded(l, ToTrack[r])'
    BY <2>2, <2>8, MembersLockable, KindsDiffer
       DEF Spare, Unneeded, RoutesApart, Lockables, Footprint
  <2>12. Passing(l)'
    BY <2>2, <2>3, <2>4, <2>5, <2>9, <2>11 DEF Passing
  <2> QED BY <2>10, <2>12 DEF JourneyOf
<1> QED
  BY <1>1, <1>2, <1>3, <1>4, <1>5, <1>6, <1>7, <1>8, <1>9, <1>10, <1>11,
     <1>12, <1>13, <1>14, <1>15, <1>16, <1>17, <1>18, <1>19
     DEF Acts, ProcedureStep, LocoStep, LocoBegins

\* Along with the types and the mutexes, what is pending at the routes.
LEMMA Pending ==
  "releaseRoute" \notin Disturbances => (Spec => []PendingInv)
<1> SUFFICES ASSUME "releaseRoute" \notin Disturbances
             PROVE  Spec => []PendingInv
  OBVIOUS
<1>1. Init => PendingInv
  BY DEF Init, PendingInv, InUseOK, OperatorOK, RoutesOwned, PendingUnlock,
         Consistent, FreeLock, Threads, Lockables
<1>2. TypeInv /\ MutexInv /\ PendingInv /\ [Next]_vars => PendingInv'
  BY LocalsStep, PendingStep DEF PendingInv
<1> QED BY TypeInvariant, MutexInvariant, <1>1, <1>2, PTL DEF Spec

\* Every step takes every train on its journey.
LEMMA JourneyStep ==
  ASSUME TypeInv, TypeInv', PendingInv, OwnPlans, RoutesApart, Journey,
         [Next]_vars
  PROVE  Journey'
<1> SUFFICES ASSUME NEW l \in Locos PROVE JourneyOf(l)'
  BY DEF Journey, JourneyOf
<1>1. JourneyOf(l)
  BY DEF Journey, JourneyOf
<1> QED BY <1>1, WhoSteps, RestingJourney, ActsJourney

\* Initially no train is on its way.
LEMMA InitJourney == OwnPlans /\ Init => Journey
<1> SUFFICES ASSUME OwnPlans, Init, NEW l \in Locos
             PROVE  Following(l) /\ Planning(l) /\ Preparation(l) /\ Passing(l)
  BY DEF Journey
<1>1. /\ pc[l] = "idle" /\ caller[l] = "none" /\ plan[l] = <<>>
      /\ first[l] = None /\ second[l] = None /\ follow[l] = RouteAuto
      /\ freeTracks[l] = <<>> /\ freeRoutes[l] = <<>>
  BY DEF Init, Threads
<1>2. ~Leaving(l) /\ ~Seeking(l)
  BY <1>1 DEF Leaving, Seeking
<1> QED
  BY <1>1, <1>2, KindsDiffer DEF Following, Planning, Preparation, Passing

(***************************************************************************)
(* What a train needs is its own                                             *)
(***************************************************************************)
\* Who rests needs what he needed before.
LEMMA RestingNeeds ==
  ASSUME NEW l \in Locos, Rests(l), NEW x \in Lockables, Must(l, x)'
  PROVE  Must(l, x)
<1>1. RideNeeds(l, x)' => RideNeeds(l, x)
  BY DEF RideNeeds, Active, HeldMembers, Rests
<1>2. WorkNeeds(l, x)' => WorkNeeds(l, x)
  <2>1. pc'[l] = pc[l] /\ work'[l] = work[l] /\ next'[l] = next[l]
    BY DEF Rests
  <2> QED BY <2>1 DEF WorkNeeds, Footprint, Way, Member
<1>3. PassedNeeds(l, x)' => PassedNeeds(l, x)
  BY DEF PassedNeeds, Rests, Way
<1> QED BY <1>1, <1>2, <1>3 DEF Must

\* A step of others takes nothing that a train needs.
LEMMA RestingHolds ==
  ASSUME NEW l \in Locos, Holds(l), Rests(l), LocksKept(l)
  PROVE  Holds(l)'
BY RestingNeeds DEF Holds, LocksKept

\* The routes of a train.
LEMMA TrainRoutes ==
  ASSUME TypeInv, NEW l \in Locos
  PROVE  /\ \A r \in Active(l) : r \in Routes
         /\ first[l] # None => first[l] \in Routes
         /\ second[l] # None => second[l] \in Routes
         /\ pc[l] \in HoldsRoute \cup {"decide", "dropTrack"} => work[l] \in Routes
         /\ \A i \in 1..Len(freeRoutes[l]) : freeRoutes[l][i] \in Routes
         /\ \A i \in 1..Len(freeTracks[l]) : freeTracks[l][i] \in Tracks
<1>1. pc[l] \in HoldsRoute \cup {"decide", "dropTrack"} => work[l] \in Routes
  BY DEF TypeInv, WorkOK, HoldsRoute, RouteLabels, Labels, Threads
<1>2. /\ first[l] \in Routes \cup {None} /\ second[l] \in Routes \cup {None}
      /\ freeRoutes[l] \in Seq(Routes) /\ freeTracks[l] \in Seq(Tracks)
  BY DEF TypeInv, TypeOK, TrainTypes
<1> QED BY <1>1, <1>2 DEF Active

\* A track that is released when free is not needed any more.
LEMMA FeedbackHolds ==
  ASSUME TypeInv, NEW l \in Locos, Holds(l), Rests(l),
         NEW t \in Tracks, FeedbackFree(t), lock[t].owner = l
  PROVE  Holds(l)'
<1>1. t \in FreeingTracks /\ OutsideTick(l)
      /\ ~(from[l] = t /\ first[l] = None)
      /\ \A r \in Active(l) : ToTrack[r] # t
  BY DEF FeedbackFree, Active
<1>2. t \in Lockables /\ t \notin Routes /\ t \notin Elements /\ t # None
  BY KindsDiffer DEF Lockables
<1>3. /\ \A r \in Active(l) : r \in Routes
      /\ pc[l] \in HoldsRoute => work[l] \in Routes
      /\ \A i \in 1..Len(freeRoutes[l]) : freeRoutes[l][i] \in Routes
  BY TrainRoutes
<1>4. ~RideNeeds(l, t)
  BY <1>1, <1>2, <1>3 DEF RideNeeds, HeldMembers
<1>5. ~WorkNeeds(l, t)
  BY <1>1, <1>2, <1>3 DEF WorkNeeds, OutsideTick, HoldsRoute
<1>6. ~PassedNeeds(l, t)
  BY <1>2, <1>3 DEF PassedNeeds
<1>7. \A x \in Lockables : x # t => lock'[x] = lock[x]
  BY DEF FeedbackFree, ReleaseItem, TypeInv, TypeOK, ItemTypes
<1> SUFFICES ASSUME NEW x \in Lockables, Must(l, x)' PROVE lock'[x].owner = l
  BY DEF Holds
<1>8. Must(l, x)
  BY RestingNeeds
<1> QED BY <1>4, <1>5, <1>6, <1>7, <1>8 DEF Holds, Must

\* What a train needs for the ride is only changed by the ride, what it gives
\* back only by its release.
LEMMA SameRide ==
  ASSUME UNCHANGED <<from, first, second>>, NEW l \in Locos, NEW x,
         RideNeeds(l, x)'
  PROVE  RideNeeds(l, x)
BY DEF RideNeeds, Active, HeldMembers

\* The release queue is untouched.
LEMMA SamePassed ==
  ASSUME NEW l \in Locos, NEW x, freeRoutes'[l] = freeRoutes[l],
         pc'[l] = "unlock" /\ caller'[l] = "queue" =>
           pc[l] = "unlock" /\ caller[l] = "queue" /\ work'[l] = work[l],
         PassedNeeds(l, x)'
  PROVE  PassedNeeds(l, x)
BY DEF PassedNeeds, Way

\* A route a train wants to run on is not needed by it before.
LEMMA WorkApart ==
  ASSUME TypeInv, RoutesApart, NEW l \in Locos, JourneyOf(l), Seeking(l)
  PROVE  /\ work[l] \in Routes /\ freeRoutes[l] = <<>> /\ second[l] = None
         /\ \A x \in Footprint(work[l]) \cup {work[l]} :
              ~RideNeeds(l, x) /\ ~PassedNeeds(l, x)
<1>1. work[l] \in Routes
  BY SeekingLabels, TrainRoutes DEF HoldsRoute
<1>2. /\ freeRoutes[l] = <<>> /\ second[l] = None /\ ~Leaving(l)
      /\ FromTrack[work[l]] = EndTrack(l)
  BY DEF Seeking, JourneyOf, Passing, Preparation
<1>3. first[l] # None => first[l] \in Routes /\ FromTrack[first[l]] = from[l]
  BY TrainRoutes DEF JourneyOf, Following
<1>4. ASSUME NEW x \in Footprint(work[l]) \cup {work[l]}
      PROVE  ~RideNeeds(l, x)
  <2>1. x # from[l]
    <3>1. CASE first[l] = None
      BY <1>1, <1>2, <3>1, KindsDiffer, LayoutTypes DEF RoutesApart, EndTrack
    <3>2. CASE first[l] # None
      BY <1>1, <1>2, <1>3, <3>2, Disjoint, KindsDiffer, LayoutTypes DEF EndTrack
    <3> QED BY <3>1, <3>2
  <2>2. ASSUME first[l] # None
        PROVE  x # first[l] /\ x \notin HeldMembers(first[l])
    <3>1. /\ FromTrack[work[l]] = ToTrack[first[l]] /\ first[l] \in Routes
          /\ HeldMembers(first[l]) \subseteq Footprint(first[l])
      BY <1>2, <1>3, <2>2 DEF EndTrack, HeldMembers, Footprint, Way
    <3> QED
      BY <1>1, <3>1, Disjoint, MembersLockable, KindsDiffer
  <2> QED BY <1>2, <2>1, <2>2 DEF RideNeeds, Active
<1>5. \A x : ~PassedNeeds(l, x)
  BY <1>2 DEF PassedNeeds, Leaving
<1> QED BY <1>1, <1>2, <1>4, <1>5

\* What is given back is not needed.
LEMMA SpareUnneeded ==
  ASSUME NEW l \in Locos, second[l] = None, NEW x, Unneeded(l, x)
  PROVE  ~RideNeeds(l, x)
<1>1. first[l] # None => HeldMembers(first[l]) \subseteq Footprint(first[l])
  BY DEF HeldMembers, Footprint, Way
<1> QED BY <1>1 DEF RideNeeds, Active, Unneeded

\* A locomotive that leaves the locks alone.
LEMMA HoldsKept ==
  ASSUME NEW l \in Locos, Holds(l), lock' = lock,
         \A x \in Lockables : Must(l, x)' => Must(l, x)
  PROVE  Holds(l)'
BY DEF Holds

\* A locomotive that takes an item.
LEMMA HoldsTaken ==
  ASSUME TypeInv, NEW l \in Locos, Holds(l), NEW y \in Lockables, NEW k,
         lock' = [lock EXCEPT ![y] = k], k.owner = l,
         \A x \in Lockables : Must(l, x)' => Must(l, x) \/ x = y
  PROVE  Holds(l)'
BY DEF Holds, TypeInv, TypeOK, ItemTypes

\* A locomotive that frees an item it no longer needs.
LEMMA HoldsFreed ==
  ASSUME TypeInv, NEW l \in Locos, Holds(l), NEW y, NEW k,
         lock' = [lock EXCEPT ![y] = k],
         \A x \in Lockables : Must(l, x)' => Must(l, x) /\ x # y
  PROVE  Holds(l)'
BY DEF Holds, TypeInv, TypeOK, ItemTypes

\* What a release works on is not needed any more.
LEMMA UndoneUnneeded ==
  ASSUME TypeInv, RoutesApart, NEW l \in Locos, JourneyOf(l), pc[l] = "undo",
         NEW x \in Way(work[l]) \cup {work[l]}
  PROVE  ~RideNeeds(l, x) /\ ~PassedNeeds(l, x)
<1>1. work[l] \in Routes
  BY TrainRoutes DEF HoldsRoute
<1>2. x \in Footprint(work[l]) \cup {work[l]}
  BY DEF Footprint
<1>3. CASE caller[l] # "queue"
  <2>1. Seeking(l)
    BY <1>3, SeekingLabels
  <2> QED BY <2>1, <1>2, WorkApart
<1>4. CASE caller[l] = "queue"
  <2>1. Leaving(l)
    BY <1>4 DEF Leaving
  <2>2. /\ second[l] = None /\ Unneeded(l, x)
        /\ \A i \in 1..Len(freeRoutes[l]) : /\ freeRoutes[l][i] \in Routes
                                           /\ Apart(freeRoutes[l][i], work[l])
    BY <2>1, TrainRoutes DEF JourneyOf, Passing, Spare
  <2>3. ~RideNeeds(l, x)
    BY <2>2, SpareUnneeded
  <2>4. ~PassedNeeds(l, x)
    BY <1>1, <2>2, MembersLockable, KindsDiffer DEF PassedNeeds, Apart
  <2> QED BY <2>3, <2>4
<1> QED BY <1>3, <1>4

\* A route that waits in the timetable is never locked yet.
LEMMA NeverLockedYet ==
  ASSUME TypeInv, PendingInv, RoutesApart, HoldInv, NEW l \in Locos,
         JourneyOf(l), pc[l] = "decide"
  PROVE  lock[work[l]].state # "HardLocked"
<1> SUFFICES ASSUME lock[work[l]].state = "HardLocked" PROVE FALSE
  OBVIOUS
<1>1. Seeking(l)
  BY SeekingLabels
<1>2. /\ work[l] \in Routes /\ freeRoutes[l] = <<>> /\ second[l] = None
      /\ ~RideNeeds(l, work[l])
  BY <1>1, WorkApart
<1>3. plan[l] # <<>> /\ Head(plan[l]).route = work[l]
  BY <1>1 DEF TypeInv, TrainOK, Serving, JourneyOf, Preparation
<1>4. lock[work[l]].owner = l
  BY <1>2, <1>3, NoneIsNoLoco
     DEF HoldInv, PlanOwned, PendingInv, RoutesOwned, Consistent
<1>5. Parked(l, work[l])
  BY <1>2, <1>4 DEF HoldInv, HardLocks
<1>6. work[l] \notin Active(l)
  BY <1>2 DEF RideNeeds
<1> QED BY <1>2, <1>5, <1>6 DEF Parked

\* Each step of a locomotive leaves it what it needs.
LEMMA ActsHolds ==
  ASSUME TypeInv, PendingInv, OwnPlans, RoutesApart, HoldInv,
         NEW l \in Locos, JourneyOf(l), Acts(l)
  PROVE  Holds(l)'
<1> USE DEF TypeInv, TypeOK, ThreadTypes, Threads
<1> DEFINE SameTrain == UNCHANGED <<from, first, second, freeRoutes>>
<1>1. Holds(l)
  BY DEF HoldInv, Holding
<1>2. ASSUME SameTrain, lock' = lock, pc'[l] # "unlock" \/ caller'[l] # "queue",
             \A x \in Lockables : WorkNeeds(l, x)' => Must(l, x)
      PROVE  Holds(l)'
  BY <1>1, <1>2, SameRide, SamePassed, HoldsKept DEF Must
<1>3. ASSUME CheckExecute(l) \/ BeginExecute(l) PROVE Holds(l)'
  <2>1. /\ SameTrain /\ lock' = lock /\ work'[l] = work[l]
        /\ pc[l] \in {"ready", "enter"} /\ pc'[l] \in {"enter", "execute"}
    BY <1>3
       DEF CheckExecute, BeginExecute, Enter, Proceed, Goto, trainVars,
           queueVars
  <2>2. \A x \in Lockables : WorkNeeds(l, x)' => Must(l, x)
    BY <2>1 DEF WorkNeeds, HoldsRoute, Must, Footprint, Way
  <2> QED BY <1>2, <2>1, <2>2
<1>4. ASSUME ExecuteRefused(l) \/ ExecuteMember(l) PROVE Holds(l)'
  <2>1. /\ SameTrain /\ lock' = lock /\ work'[l] = work[l]
        /\ pc[l] \in {"ready", "execute"}
        /\ pc'[l] = "abort" \/ (pc[l] = "execute" /\ pc'[l] = "execute")
    BY <1>4, KindsDiffer
       DEF ExecuteRefused, ExecuteMember, ExecuteFails, Proceed, Goto,
           trainVars, queueVars
  <2>2. \A x \in Lockables : WorkNeeds(l, x)' => Must(l, x)
    BY <2>1 DEF WorkNeeds, HoldsRoute, Must, Footprint, Way
  <2> QED BY <1>2, <2>1, <2>2
<1>5. ASSUME RouteExecuted(l) PROVE Holds(l)'
  <2>1. /\ UNCHANGED <<lock, from, freeRoutes>>
        /\ pc[l] = "execute" /\ pc'[l] = "idle"
        /\ {first'[l], second'[l]} \subseteq {first[l], second[l], work[l]}
        /\ first[l] # None => first'[l] # None
    BY <1>5, KindsDiffer
       DEF RouteExecuted, Settle, Proceed, Goto, TrainTypes, queueVars
  <2>2. HeldMembers(work[l]) \subseteq Footprint(work[l])
    BY DEF HeldMembers, Footprint, Way
  <2> SUFFICES ASSUME NEW x \in Lockables, Must(l, x)' PROVE Must(l, x)
    BY <1>1, <2>1, HoldsKept
  <2>3. ~WorkNeeds(l, x)'
    BY <2>1 DEF WorkNeeds, HoldsRoute
  <2>4. PassedNeeds(l, x)' => PassedNeeds(l, x)
    BY <2>1, SamePassed
  <2>5. RideNeeds(l, x)' => RideNeeds(l, x) \/ WorkNeeds(l, x)
    BY <2>1, <2>2 DEF RideNeeds, Active, HeldMembers, WorkNeeds, HoldsRoute
  <2> QED BY <2>3, <2>4, <2>5 DEF Must
<1>6. ASSUME BeginRelease(l) PROVE Holds(l)'
  <2>1. /\ SameTrain /\ lock' = lock /\ work'[l] = work[l]
        /\ pc[l] = "abort" /\ pc'[l] \in {"unlock", "undo"}
        /\ caller'[l] = caller[l] /\ caller[l] # "queue"
    BY <1>6
       DEF BeginRelease, ReleaseLabel, Enter, Proceed, Goto, trainVars,
           queueVars, JourneyOf, Preparation
  <2>2. \A x \in Lockables : WorkNeeds(l, x)' => Must(l, x)
    BY <2>1 DEF WorkNeeds, HoldsRoute, Must
  <2> QED BY <1>2, <2>1, <2>2
<1>7. ASSUME UnlockMember(l) \/ UnlockDone(l) PROVE Holds(l)'
  <2>1. /\ SameTrain /\ lock' = lock /\ work'[l] = work[l]
        /\ pc[l] = "unlock" /\ pc'[l] \in {"unlock", "undo"}
        /\ caller'[l] = caller[l]
    BY <1>7 DEF UnlockMember, UnlockDone, Proceed, Goto, trainVars, queueVars
  <2>2. \A x \in Lockables : WorkNeeds(l, x)' => WorkNeeds(l, x)
    BY <2>1 DEF WorkNeeds, HoldsRoute
  <2> QED BY <1>1, <2>1, <2>2, SameRide, SamePassed, HoldsKept DEF Must
<1>8. ASSUME UndoMember(l) PROVE Holds(l)'
  <2> DEFINE y == Parts[work[l]][next[l]]
  <2>1. /\ SameTrain /\ work'[l] = work[l]
        /\ lock' = [lock EXCEPT ![y] = Released(@, l)]
        /\ pc[l] = "undo" /\ pc'[l] = "undo" /\ caller'[l] = caller[l]
        /\ next[l] \in 1..Len(Parts[work[l]]) /\ work[l] \in Routes
    <3>1. work[l] \in Routes /\ next[l] # 0 /\ next[l] <= Len(Parts[work[l]])
      BY <1>8 DEF UndoMember, WorkOK, RouteLabels, Labels
    <3>2. next[l] \in 1..Len(Parts[work[l]])
      BY <3>1, RelationTypes
    <3> QED
      BY <1>8, <3>1, <3>2, KindsDiffer
         DEF UndoMember, ReleaseItem, Id, Proceed, Goto, trainVars, queueVars
  <2>2. y \in Way(work[l]) /\ y \in Footprint(work[l])
        /\ y \in Tracks \cup Elements /\ y # work[l]
    BY <2>1, MembersLockable
  <2> HIDE DEF y, TypeInv, TypeOK, ThreadTypes, Threads
  <2>3. ~RideNeeds(l, y) /\ ~PassedNeeds(l, y)
    BY <2>1, <2>2, UndoneUnneeded
  <2> SUFFICES ASSUME NEW x \in Lockables, Must(l, x)'
               PROVE  Must(l, x) /\ x # y
    BY <1>1, <2>1, HoldsFreed
  <2>4. WorkNeeds(l, x)' => WorkNeeds(l, x) /\ x # y
    BY <2>1, <2>2 DEF WorkNeeds, HoldsRoute
  <2> QED BY <2>1, <2>3, <2>4, SameRide, SamePassed DEF Must
<1>9. ASSUME RouteReleased(l) PROVE Holds(l)'
  <2>1. /\ SameTrain
        /\ lock' = [lock EXCEPT ![work[l]] = Released(@, l)]
        /\ pc[l] = "undo" /\ pc'[l] \in {"dropTrack", "free", "idle"}
        /\ work[l] \in Routes
    BY <1>9, KindsDiffer
       DEF RouteReleased, ReturnFromRelease, Settle, Id, Proceed, Goto,
           WorkOK, RouteLabels, Labels, trainVars, queueVars
  <2> HIDE DEF TypeInv, TypeOK, ThreadTypes, Threads
  <2>2. ~RideNeeds(l, work[l]) /\ ~PassedNeeds(l, work[l])
    BY <2>1, UndoneUnneeded
  <2> SUFFICES ASSUME NEW x \in Lockables, Must(l, x)'
               PROVE  Must(l, x) /\ x # work[l]
    BY <1>1, <2>1, HoldsFreed
  <2>3. ~WorkNeeds(l, x)'
    BY <2>1 DEF WorkNeeds, HoldsRoute
  <2> QED BY <2>1, <2>2, <2>3, SameRide, SamePassed DEF Must
<1>10. ASSUME ReserveMember(l) \/ LockMember(l) PROVE Holds(l)'
  <2> DEFINE y == Member(work[l], next[l])
             Takes(k) == /\ lock' = [lock EXCEPT ![y] = k] /\ k.owner = l
                         /\ pc'[l] = pc[l] /\ next'[l] = next[l] + 1
  <2>1. /\ SameTrain /\ work'[l] = work[l] /\ caller'[l] = caller[l]
        /\ pc[l] \in {"reserve", "lock"} /\ caller[l] # "queue"
        /\ next[l] \in 0..Len(Parts[work[l]]) /\ work[l] \in Routes
    BY <1>10
       DEF ReserveMember, LockMember, WorkOK, RouteLabels, Labels, trainVars,
           queueVars, JourneyOf, Preparation
  <2>2. y \in Lockables /\ lock[y] \in Locks
    BY <2>1, MembersLockable DEF Lockables, ItemTypes
  <2>3. \/ lock' = lock /\ pc'[l] \in {"undoTrack", "unlock", "undo"}
        \/ \E k : Takes(k)
    <3>1. CASE ReserveMember(l)
      <4>1. \/ lock' = lock /\ pc'[l] \in {"undoTrack", "unlock", "undo"}
            \/ CanReserve(lock[y], l) /\ pc'[l] = pc[l] /\ next'[l] = next[l] + 1
               /\ lock' = [lock EXCEPT ![y] = Reserved(lock[y], l)]
        BY <3>1 DEF ReserveMember, ReleaseLabel, Proceed, Goto
      <4> QED BY <4>1, <2>2, TakenLock
    <3>2. CASE LockMember(l)
      <4>1. \/ lock' = lock /\ pc'[l] \in {"undoTrack", "unlock", "undo"}
            \/ CanLock(lock[y], l) /\ pc'[l] = pc[l] /\ next'[l] = next[l] + 1
               /\ lock' = [lock EXCEPT ![y] = Locked(lock[y])]
        BY <3>2 DEF LockMember, ReleaseLabel, Proceed, Goto
      <4> QED BY <4>1, <2>2, TakenLock
    <3> QED BY <1>10, <3>1, <3>2
  <2>4. ASSUME lock' = lock, pc'[l] \in {"undoTrack", "unlock", "undo"}
        PROVE  Holds(l)'
    <3>1. \A x \in Lockables : WorkNeeds(l, x)' => WorkNeeds(l, x)
      BY <2>1, <2>4 DEF WorkNeeds, HoldsRoute
    <3> QED BY <1>2, <2>1, <2>4, <3>1 DEF Must
  <2>5. ASSUME NEW k, Takes(k) PROVE Holds(l)'
    <3>1. \A x \in Lockables : WorkNeeds(l, x)' => WorkNeeds(l, x) \/ x = y
      BY <2>1, <2>5 DEF WorkNeeds, HoldsRoute, Member
    <3> HIDE DEF y
    <3>2. pc'[l] # "unlock"
      BY <2>1, <2>5
    <3> QED
      BY <1>1, <2>1, <2>2, <2>5, <3>1, <3>2, SameRide, SamePassed, HoldsTaken
         DEF Must
  <2> HIDE DEF Takes
  <2> QED BY <2>3, <2>4, <2>5
<1>11. ASSUME RouteReserved(l) \/ RouteLocked(l) PROVE Holds(l)'
  <2>1. /\ SameTrain /\ lock' = lock /\ work'[l] = work[l]
        /\ pc[l] \in {"reserve", "lock"} /\ pc'[l] \in {"check", "ready"}
        /\ work[l] \in Routes /\ next[l] > Len(Parts[work[l]])
        /\ next[l] \in Nat
    BY <1>11
       DEF RouteReserved, RouteLocked, Proceed, Goto, WorkOK, RouteLabels,
           Labels, trainVars, queueVars
  <2>2. \A i \in 0..Len(Parts[work[l]]) : i < next[l]
    BY <2>1, RelationTypes
  <2> HIDE DEF TypeInv, TypeOK, ThreadTypes, Threads
  <2>3. \A x \in Footprint(work[l]) :
          \E i \in 0..Len(Parts[work[l]]) : i < next[l] /\ x = Member(work[l], i)
    BY <2>1, <2>2, MembersLockable
  <2>4. Footprint(work[l])' = Footprint(work[l])
    BY <2>1 DEF Footprint, Way
  <2>5. \A x \in Lockables : WorkNeeds(l, x)' => WorkNeeds(l, x)
    BY <2>1, <2>3, <2>4 DEF WorkNeeds, HoldsRoute
  <2> QED BY <1>2, <2>1, <2>5 DEF Must
<1>12. ASSUME CheckReserved(l) PROVE Holds(l)'
  <2>1. /\ SameTrain /\ lock' = lock /\ work'[l] = work[l]
        /\ pc[l] = "check" /\ pc'[l] \in {"dequeue", "ready", "abort"}
    BY <1>12 DEF CheckReserved, Goto, trainVars, queueVars
  <2>2. \A x \in Lockables : WorkNeeds(l, x)' => WorkNeeds(l, x)
    BY <2>1 DEF WorkNeeds, HoldsRoute, Footprint, Way
  <2> QED BY <1>2, <2>1, <2>2 DEF Must
<1>13. ASSUME Dequeue(l) \/ DecideRefused(l) PROVE Holds(l)'
  <2>1. /\ SameTrain /\ lock' = lock /\ pc'[l] \in {"decide", "idle"}
    BY <1>13
       DEF Dequeue, DecideRefused, Settle, Proceed, Goto, trainVars, queueVars
  <2>2. \A x \in Lockables : ~WorkNeeds(l, x)'
    BY <2>1 DEF WorkNeeds, HoldsRoute
  <2> QED BY <1>2, <2>1, <2>2
<1>14. ASSUME DecideReserve(l) \/ DecideLock(l) PROVE Holds(l)'
  <2> DEFINE y == work[l]
             Takes(k) == lock' = [lock EXCEPT ![y] = k] /\ k.owner = l
  <2>1. /\ SameTrain /\ work'[l] = work[l]
        /\ pc'[l] \in {"reserve", "lock"} /\ next'[l] = 0
        /\ y \in Lockables /\ lock[y] \in Locks
    BY <1>14
       DEF DecideReserve, DecideLock, EnterReserve, Enter, Proceed, Goto,
           WorkOK, RouteLabels, Labels, trainVars, queueVars, Lockables,
           ItemTypes
  <2>2. \E k : Takes(k)
    <3>1. \/ CanReserve(lock[y], l)
             /\ lock' = [lock EXCEPT ![y] = Reserved(lock[y], l)]
          \/ CanLock(lock[y], l) /\ lock' = [lock EXCEPT ![y] = Locked(lock[y])]
      BY <1>14 DEF DecideReserve, DecideLock, EnterReserve
    <3> QED BY <2>1, <3>1, TakenLock
  <2>3. PICK k : Takes(k)
    BY <2>2
  <2>4. \A x \in Lockables : WorkNeeds(l, x)' => x = y
    BY <2>1 DEF WorkNeeds, HoldsRoute
  <2> HIDE DEF y
  <2> QED
    BY <1>1, <2>1, <2>3, <2>4, SameRide, SamePassed, HoldsTaken DEF Must
<1>15. ASSUME DecideExecute(l) PROVE Holds(l)'
  BY <1>15, NeverLockedYet DEF DecideExecute
<1>16. ASSUME UndoTrack(l) \/ DropTrack(l) PROVE Holds(l)'
  <2> DEFINE y == ToTrack[work[l]]
  <2>1. /\ SameTrain /\ caller'[l] \in {caller[l], "none"}
        /\ lock' = [lock EXCEPT ![y] = Released(@, l)]
        /\ \/ pc'[l] = "idle"
           \/ /\ pc[l] = "undoTrack" /\ pc'[l] \in {"unlock", "undo"}
              /\ work'[l] = work[l]
        /\ pc[l] \in {"undoTrack", "dropTrack"}
    BY <1>16
       DEF UndoTrack, DropTrack, ReleaseItem, ReleaseLabel, Settle, Proceed,
           Goto, trainVars, queueVars
  <2> HIDE DEF TypeInv, TypeOK, ThreadTypes, Threads
  <2>2. Seeking(l) /\ caller'[l] # "queue"
    BY <2>1, SeekingLabels DEF JourneyOf, Preparation
  <2>3. work[l] \in Routes /\ y \in Footprint(work[l])
        /\ ~RideNeeds(l, y) /\ ~PassedNeeds(l, y) /\ y # work[l]
    BY <2>2, WorkApart, MembersLockable DEF Footprint
  <2> HIDE DEF y
  <2> SUFFICES ASSUME NEW x \in Lockables, Must(l, x)'
               PROVE  Must(l, x) /\ x # y
    BY <1>1, <2>1, HoldsFreed
  <2>4. WorkNeeds(l, x)' => WorkNeeds(l, x) /\ x # y
    BY <2>1, <2>3 DEF WorkNeeds, HoldsRoute
  <2> QED BY <2>1, <2>2, <2>3, <2>4, SameRide, SamePassed DEF Must
<1>17. ASSUME FreeTrack(l) PROVE Holds(l)'
  <2> DEFINE y == Head(freeTracks[l])
  <2>1. /\ UNCHANGED <<threadVars, trainVars, freeRoutes>>
        /\ lock' = [lock EXCEPT ![y] = Released(@, l)]
        /\ pc[l] = "free" /\ y = freeTracks[l][1] /\ 1 \in 1..Len(freeTracks[l])
    BY <1>17, TailElements DEF FreeTrack, ReleaseItem, TrainTypes
  <2> HIDE DEF y, TypeInv, TypeOK, ThreadTypes, Threads
  <2>2. y \in Tracks /\ Unneeded(l, y) /\ second[l] = None
    BY <2>1, TrainRoutes DEF JourneyOf, Passing, Leaving
  <2>3. ~RideNeeds(l, y) /\ ~PassedNeeds(l, y)
    BY <2>1, <2>2, SpareUnneeded, TrainRoutes, KindsDiffer DEF PassedNeeds
  <2> SUFFICES ASSUME NEW x \in Lockables, Must(l, x)'
               PROVE  Must(l, x) /\ x # y
    BY <1>1, <2>1, HoldsFreed
  <2>4. ~WorkNeeds(l, x)'
    BY <2>1 DEF WorkNeeds, HoldsRoute, threadVars
  <2> QED
    BY <2>1, <2>3, <2>4, SameRide, SamePassed DEF Must, threadVars, trainVars
<1>18. ASSUME FreeRoute(l) PROVE Holds(l)'
  <2>1. /\ UNCHANGED <<lock, trainVars>>
        /\ pc'[l] \in {"unlock", "undo"} /\ work'[l] = freeRoutes[l][1]
        /\ 1 \in 1..Len(freeRoutes[l])
        /\ \A i \in 1..Len(freeRoutes'[l]) :
             /\ i + 1 \in 1..Len(freeRoutes[l])
             /\ freeRoutes'[l][i] = freeRoutes[l][i + 1]
    BY <1>18, TailElements
       DEF FreeRoute, Enter, Proceed, Goto, ReleaseLabel, TrainTypes
  <2> HIDE DEF TypeInv, TypeOK, ThreadTypes, Threads
  <2> SUFFICES ASSUME NEW x \in Lockables, Must(l, x)' PROVE Must(l, x)
    BY <1>1, <2>1, HoldsKept
  <2>2. RideNeeds(l, x)' => RideNeeds(l, x)
    BY <2>1, SameRide DEF trainVars
  <2>3. WorkNeeds(l, x)' => PassedNeeds(l, x)
    BY <2>1 DEF WorkNeeds, PassedNeeds, HoldsRoute
  <2>4. PassedNeeds(l, x)' => PassedNeeds(l, x)
    BY <2>1 DEF PassedNeeds, Way
  <2> QED BY <2>2, <2>3, <2>4 DEF Must
<1>19. ASSUME FreeDone(l) \/ StartLoco(l) PROVE Holds(l)'
  <2>1. SameTrain /\ lock' = lock /\ pc'[l] = "idle"
    BY <1>19 DEF FreeDone, StartLoco, Goto, threadVars, trainVars, queueVars
  <2>2. \A x \in Lockables : ~WorkNeeds(l, x)'
    BY <2>1 DEF WorkNeeds, HoldsRoute
  <2> QED BY <1>2, <2>1, <2>2
<1>20. ASSUME NEW r \in Routes, SearchRoute(l, r) PROVE Holds(l)'
  <2> DEFINE k == Reserved(lock[r], l)
  <2>1. /\ SameTrain /\ work'[l] = r /\ pc'[l] = "reserve" /\ next'[l] = 0
        /\ lock' = [lock EXCEPT ![r] = k] /\ CanReserve(lock[r], l)
        /\ r \in Lockables /\ lock[r] \in Locks
    BY <1>20
       DEF SearchRoute, EnterReserve, Enter, Proceed, Goto, trainVars,
           queueVars, Lockables, ItemTypes
  <2>2. k.owner = l
    BY <2>1, TakenLock
  <2>3. \A x \in Lockables : WorkNeeds(l, x)' => x = r
    BY <2>1 DEF WorkNeeds, HoldsRoute
  <2> HIDE DEF k
  <2> QED
    BY <1>1, <2>1, <2>2, <2>3, SameRide, SamePassed, HoldsTaken DEF Must
<1>21. ASSUME NEW t \in Tracks, PlaceLoco(l, t) PROVE Holds(l)'
  <2> DEFINE k == Locked(Reserved(lock[t], l))
  <2>1. /\ UNCHANGED <<threadVars, first, second, freeRoutes>>
        /\ pc[l] = "idle" /\ from'[l] = t
        /\ lock' = [lock EXCEPT ![t] = k] /\ ~InUse(lock[t])
        /\ t \in Lockables /\ lock[t] \in Locks
    BY <1>21
       DEF PlaceLoco, queueVars, Lockables, ItemTypes, TrainTypes
  <2>2. k.owner = l
    BY <2>1 DEF InUse, Reserved, Locked, Locks
  <2> HIDE DEF k, TypeInv, TypeOK, ThreadTypes, Threads
  <2> SUFFICES ASSUME NEW x \in Lockables, Must(l, x)' PROVE Must(l, x) \/ x = t
    BY <1>1, <2>1, <2>2, HoldsTaken
  <2>3. ~WorkNeeds(l, x)'
    BY <2>1 DEF WorkNeeds, HoldsRoute, threadVars
  <2>4. RideNeeds(l, x)' => RideNeeds(l, x) \/ x = t
    BY <2>1 DEF RideNeeds, Active, HeldMembers
  <2>5. PassedNeeds(l, x)' => PassedNeeds(l, x)
    BY <2>1, SamePassed DEF threadVars
  <2> QED BY <2>3, <2>4, <2>5 DEF Must
<1>22. ASSUME PlanFollowUp(l) \/ (\E r \in Routes, a \in {RouteAuto, RouteStop} :
                                  AddTimeTable(l, r, a))
       PROVE  Holds(l)'
  BY <1>22 DEF PlanFollowUp, AddTimeTable, JourneyOf, Following, OwnPlans
<1>23. ASSUME ReleaseLoco(l) \/ ReachFirst(l) \/ ReachStop(l)
       PROVE  Holds(l)'
  <2>1. /\ lock' = lock /\ pc'[l] = "free"
        /\ \A i \in 1..Len(freeRoutes'[l]) : freeRoutes'[l][i] \in Active(l)
        /\ \/ from'[l] = None /\ Active(l)' = {}
           \/ /\ \E r \in Active(l) : from'[l] = ToTrack[r]
              /\ Active(l)' \subseteq Active(l)
    <3>1. CASE ReleaseLoco(l)
      BY <3>1, RunningRoutes DEF ReleaseLoco, TrainTypes, Goto, Active
    <3>2. CASE ReachFirst(l)
      BY <3>2 DEF ReachFirst, TrainTypes, TrainOK, Goto, Active
    <3>3. CASE ReachStop(l)
      BY <3>3, RunningRoutes DEF ReachStop, TrainTypes, Goto, Active
    <3> QED BY <1>23, <3>1, <3>2, <3>3
  <2> HIDE DEF TypeInv, TypeOK, ThreadTypes, Threads
  <2>2. \A r \in Active(l) : r \in Routes
    BY TrainRoutes
  <2> SUFFICES ASSUME NEW x \in Lockables, Must(l, x)' PROVE Must(l, x)
    BY <1>1, <2>1, HoldsKept
  <2>3. ~WorkNeeds(l, x)'
    BY <2>1 DEF WorkNeeds, HoldsRoute
  <2>4. RideNeeds(l, x)' => RideNeeds(l, x)
    BY <2>1 DEF RideNeeds, HeldMembers
  <2>5. PassedNeeds(l, x)' => RideNeeds(l, x)
    <3>1. \A r \in Routes : Elements \cap Way(r) \subseteq HeldMembers(r)
      BY LayoutTypes, KindsDiffer DEF HeldMembers, Way
    <3> QED BY <2>1, <2>2, <3>1 DEF PassedNeeds, RideNeeds
  <2> QED BY <2>3, <2>4, <2>5 DEF Must
<1> HIDE DEF TypeInv, TypeOK, ThreadTypes, Threads
<1> QED
  BY <1>3, <1>4, <1>5, <1>6, <1>7, <1>8, <1>9, <1>10, <1>11, <1>12, <1>13,
     <1>14, <1>15, <1>16, <1>17, <1>18, <1>19, <1>20, <1>21, <1>22, <1>23
     DEF Acts, ProcedureStep, LocoStep, LocoBegins

\* Which step of a locomotive takes a route.
LEMMA RouteTaken ==
  ASSUME TypeInv, PendingInv, OwnPlans, [Next]_vars, NEW m \in Locos,
         NEW r \in Routes, lock[r].owner # m, lock'[r].owner = m
  PROVE  SearchRoute(m, r) \/ (DecideReserve(m) /\ work[m] = r)
<1> DEFINE Goal == SearchRoute(m, r) \/ (DecideReserve(m) /\ work[m] = r)
<1> USE DEF TypeInv, TypeOK, ThreadTypes, Threads, WorkOK, RouteLabels, Labels
<1>1. r \in Lockables /\ r \notin Tracks \cup Elements /\ r # None
  BY KindsDiffer DEF Lockables
<1>2. Acts(m)
  <2>1. ~LocksKept(m)
    BY <1>1 DEF LocksKept
  <2>2. ASSUME NEW t \in Tracks, FeedbackFree(t) PROVE lock'[r] = lock[r]
    BY <2>2, <1>1 DEF FeedbackFree, ReleaseItem, ItemTypes
  <2> QED BY <2>1, <2>2, WhoSteps
<1>3. ASSUME lock' = lock PROVE Goal
  BY <1>3
<1>4. ASSUME NEW x \in Tracks \cup Elements, NEW id, ReleaseItem(x, id) PROVE Goal
  BY <1>1, <1>4 DEF ReleaseItem, ItemTypes
<1>5. ASSUME ProcedureStep(m) PROVE Goal
  <2>1. CASE UndoMember(m)
    <3>1. Parts[work[m]][next[m]] \in Tracks \cup Elements
      BY <2>1, MemberTypes DEF UndoMember
    <3> QED BY <2>1, <3>1, <1>4 DEF UndoMember
  <2>2. CASE RouteReleased(m)
    BY <1>1, <2>2, NoneIsNoLoco
       DEF RouteReleased, Released, FreeLock, ItemTypes
  <2> QED
    BY <1>5, <1>3, <2>1, <2>2
       DEF ProcedureStep, CheckExecute, BeginExecute, ExecuteRefused,
           ExecuteMember, RouteExecuted, BeginRelease, UnlockMember, UnlockDone
<1>6. ASSUME LocoStep(m) PROVE Goal
  <2>1. CASE ReserveMember(m) \/ LockMember(m)
    <3>1. Member(work[m], next[m]) # r
      BY <1>1, <2>1, MemberTypes DEF ReserveMember, LockMember
    <3> QED BY <1>1, <2>1, <3>1 DEF ReserveMember, LockMember, ItemTypes
  <2>2. CASE DecideReserve(m)
    BY <1>1, <2>2 DEF DecideReserve, EnterReserve, ItemTypes
  <2>3. CASE DecideLock(m)
    BY <1>1, <2>3 DEF DecideLock, CanLock, Locked, ItemTypes
  <2>4. CASE UndoTrack(m) \/ DropTrack(m)
    BY <2>4, <1>4, LayoutTypes DEF UndoTrack, DropTrack
  <2>5. CASE FreeTrack(m)
    BY <2>5, <1>4 DEF FreeTrack, TrainTypes
  <2>6. CASE RouteReserved(m) \/ CheckReserved(m) \/ Dequeue(m)
             \/ DecideExecute(m) \/ DecideRefused(m) \/ RouteLocked(m)
             \/ FreeRoute(m) \/ FreeDone(m)
    BY <2>6, <1>3 DEF RouteReserved, CheckReserved, Dequeue, DecideExecute,
                      DecideRefused, RouteLocked, FreeRoute, FreeDone
  <2> QED BY <1>6, <2>1, <2>2, <2>3, <2>4, <2>5, <2>6 DEF LocoStep
<1>7. ASSUME LocoBegins(m) PROVE Goal
  <2>1. ASSUME NEW q \in Routes, SearchRoute(m, q) PROVE Goal
    BY <1>1, <2>1 DEF SearchRoute, EnterReserve, ItemTypes
  <2>2. ASSUME NEW t \in Tracks, PlaceLoco(m, t) PROVE Goal
    BY <1>1, <2>2 DEF PlaceLoco, ItemTypes
  <2> QED
    BY <1>7, <1>3, <2>1, <2>2
       DEF LocoBegins, AddTimeTable, PlanFollowUp, StartLoco, ReleaseLoco,
           ReachFirst, ReachStop
<1> QED BY <1>2, <1>5, <1>6, <1>7 DEF Acts

\* The track a locomotive looks for a route at is its own.
LEMMA EndTrackOwned ==
  ASSUME TypeInv, NEW l \in Locos, Holds(l), from[l] # None, second[l] = None
  PROVE  EndTrack(l) \in Lockables /\ lock[EndTrack(l)].owner = l
<1>1. CASE first[l] = None
  BY <1>1 DEF EndTrack, Holds, Must, RideNeeds, TypeInv, TypeOK, TrainTypes,
              Lockables
<1>2. CASE first[l] # None
  BY <1>2, TrainRoutes, MembersLockable
     DEF EndTrack, Holds, Must, RideNeeds, Active, HeldMembers
<1> QED BY <1>1, <1>2

\* Nobody else takes the entry at the front of a timetable, because it starts
\* at a track that is not his.
LEMMA EntryKept ==
  ASSUME TypeInv, PendingInv, OwnPlans, Journey, HoldInv, [Next]_vars,
         NEW l \in Locos, plan[l] # <<>>
  PROVE  lock'[Head(plan[l]).route].owner \in {None, l}
<1> DEFINE r == Head(plan[l]).route
<1>1. r \in Routes
  BY HeadTypes DEF TypeInv, TypeOK, TrainTypes
<1>2. /\ FromTrack[r] = EndTrack(l) /\ from[l] # None /\ second[l] = None
      /\ lock[r].owner \in {None, l}
  BY DEF Journey, Planning, HoldInv, PlanOwned
<1>3. lock[EndTrack(l)].owner = l
  BY <1>2, EndTrackOwned DEF HoldInv, Holding
<1> HIDE DEF r
<1> SUFFICES ASSUME NEW m \in Locos, m # l, lock'[r].owner = m PROVE FALSE
  <2>1. lock'[r].owner \in Locos \cup {None}
    BY <1>1, ItemTypesStep DEF ItemTypes, Locks, Owners, Lockables
  <2> QED BY <2>1 DEF r
<1>4. SearchRoute(m, r) \/ (DecideReserve(m) /\ work[m] = r)
  BY <1>1, <1>2, RouteTaken, NoneIsNoLoco
<1>5. CASE SearchRoute(m, r)
  BY <1>2, <1>3, <1>5 DEF SearchRoute
<1>6. CASE DecideReserve(m) /\ work[m] = r
  <2>1. Seeking(m)
    BY <1>6, SeekingLabels DEF DecideReserve
  <2>2. /\ from[m] # None /\ second[m] = None
        /\ FromTrack[r] = EndTrack(m)
    BY <1>6, <2>1 DEF Journey, Preparation
  <2>3. lock[EndTrack(m)].owner = m
    BY <2>2, EndTrackOwned DEF HoldInv, Holding
  <2> QED BY <1>2, <1>3, <2>2, <2>3
<1> QED BY <1>4, <1>5, <1>6

\* Which step of a locomotive changes its timetable.
LEMMA PlanMoves ==
  ASSUME TypeInv, OwnPlans, NEW l \in Locos, JourneyOf(l), Acts(l),
         plan'[l] # plan[l]
  PROVE  \/ plan'[l] = <<>>
         \/ /\ CheckReserved(l) /\ Head(plan'[l]).route = work[l]
            /\ plan'[l] # <<>>
<1> USE DEF TypeInv, TypeOK, TrainTypes
<1>1. ASSUME ProcedureStep(l) PROVE RouteExecuted(l)
  BY <1>1
     DEF ProcedureStep, CheckExecute, BeginExecute, ExecuteRefused,
         ExecuteMember, BeginRelease, UnlockMember, UnlockDone, UndoMember,
         RouteReleased
<1>2. CASE RouteExecuted(l)
  <2>1. plan[l] # <<>> /\ Tail(plan[l]) = <<>>
    BY <1>2 DEF RouteExecuted, TrainOK, Serving, JourneyOf, Planning
  <2> QED BY <1>2, <2>1, KindsDiffer DEF RouteExecuted
<1>3. ASSUME LocoStep(l) PROVE CheckReserved(l) \/ Dequeue(l)
  BY <1>3
     DEF LocoStep, ReserveMember, RouteReserved, DecideReserve, DecideLock,
         DecideExecute, DecideRefused, LockMember, RouteLocked, UndoTrack,
         DropTrack, FreeTrack, FreeRoute, FreeDone
<1>4. CASE CheckReserved(l)
  <2>1. plan[l] = <<>>
        /\ plan' = [plan EXCEPT ![l] = Append(plan[l],
                      [route |-> work[l], after |-> FollowUp[work[l]]])]
    BY <1>4 DEF CheckReserved, JourneyOf, Preparation
  <2>2. plan'[l] = Append(<<>>, [route |-> work[l], after |-> FollowUp[work[l]]])
    BY <2>1
  <2> QED BY <1>4, <2>2, OneElement
<1>5. CASE Dequeue(l)
  BY <1>5 DEF Dequeue, JourneyOf, Planning
<1>6. ASSUME LocoBegins(l) PROVE FALSE
  BY <1>6
     DEF LocoBegins, SearchRoute, AddTimeTable, PlaceLoco, PlanFollowUp,
         StartLoco, ReleaseLoco, ReachFirst, ReachStop, OwnPlans, JourneyOf,
         Following
<1> QED BY <1>1, <1>2, <1>3, <1>4, <1>5, <1>6 DEF Acts

\* The entry at the front of a timetable stays nobody else's.
LEMMA PlanOwnedStep ==
  ASSUME TypeInv, PendingInv, OwnPlans, Journey, HoldInv, [Next]_vars
  PROVE  PlanOwned'
<1> SUFFICES ASSUME NEW l \in Locos, plan'[l] # <<>>
             PROVE  lock'[Head(plan'[l]).route].owner \in {None, l}
  BY DEF PlanOwned
<1>1. CASE plan'[l] = plan[l]
  BY <1>1, EntryKept
<1>2. CASE plan'[l] # plan[l]
  <2>1. Acts(l) /\ JourneyOf(l)
    BY <1>2, WhoSteps DEF Rests, Journey, JourneyOf
  <2>2. CheckReserved(l) /\ Head(plan'[l]).route = work[l]
    BY <1>2, <2>1, PlanMoves
  <2>3. lock' = lock /\ pc[l] = "check" /\ work[l] \in Routes
    BY <2>2, TrainRoutes DEF CheckReserved, HoldsRoute
  <2>4. Must(l, work[l])
    BY <2>3 DEF Must, WorkNeeds, HoldsRoute
  <2> QED BY <2>2, <2>3, <2>4 DEF HoldInv, Holding, Holds, Lockables
<1> QED BY <1>1, <1>2

\* Only Route::Lock makes the lock of a route a hard one.
LEMMA RouteHardened ==
  ASSUME TypeInv, OwnPlans, NEW m \in Locos, Acts(m), NEW r \in Routes,
         lock'[r].owner = m, lock'[r].state = "HardLocked"
  PROVE  lock'[r] = lock[r] \/ (DecideLock(m) /\ work[m] = r)
<1> DEFINE Goal == lock'[r] = lock[r] \/ (DecideLock(m) /\ work[m] = r)
<1> USE DEF TypeInv, TypeOK, ThreadTypes, Threads, WorkOK, RouteLabels, Labels
<1>1. r \in Lockables /\ r \notin Tracks \cup Elements /\ r # None
  BY KindsDiffer DEF Lockables
<1>2. ASSUME lock' = lock PROVE Goal
  BY <1>2
<1>3. ASSUME NEW x \in Tracks \cup Elements, NEW id, ReleaseItem(x, id) PROVE Goal
  BY <1>1, <1>3 DEF ReleaseItem, ItemTypes
<1>4. ASSUME NEW x \in Lockables, lock' = [lock EXCEPT ![x] = Reserved(@, m)]
      PROVE  Goal
  BY <1>1, <1>4 DEF Reserved, ItemTypes
<1>5. ASSUME ProcedureStep(m) PROVE Goal
  <2>1. CASE UndoMember(m)
    <3>1. Parts[work[m]][next[m]] \in Tracks \cup Elements
      BY <2>1, MemberTypes DEF UndoMember
    <3> QED BY <2>1, <3>1, <1>3 DEF UndoMember
  <2>2. CASE RouteReleased(m)
    BY <1>1, <2>2, NoneIsNoLoco
       DEF RouteReleased, Released, FreeLock, ItemTypes
  <2> QED
    BY <1>5, <1>2, <2>1, <2>2
       DEF ProcedureStep, CheckExecute, BeginExecute, ExecuteRefused,
           ExecuteMember, RouteExecuted, BeginRelease, UnlockMember, UnlockDone
<1>6. ASSUME LocoStep(m) PROVE Goal
  <2>1. CASE ReserveMember(m) \/ LockMember(m)
    <3>1. Member(work[m], next[m]) # r
      BY <1>1, <2>1, MemberTypes DEF ReserveMember, LockMember
    <3> QED BY <1>1, <2>1, <3>1 DEF ReserveMember, LockMember, ItemTypes
  <2>2. CASE DecideReserve(m)
    BY <2>2, <1>4 DEF DecideReserve, EnterReserve, Lockables
  <2>3. CASE DecideLock(m)
    BY <1>1, <2>3 DEF DecideLock, ItemTypes
  <2>4. CASE UndoTrack(m) \/ DropTrack(m)
    BY <2>4, <1>3, LayoutTypes DEF UndoTrack, DropTrack
  <2>5. CASE FreeTrack(m)
    BY <2>5, <1>3 DEF FreeTrack, TrainTypes
  <2>6. CASE RouteReserved(m) \/ CheckReserved(m) \/ Dequeue(m)
             \/ DecideExecute(m) \/ DecideRefused(m) \/ RouteLocked(m)
             \/ FreeRoute(m) \/ FreeDone(m)
    BY <2>6, <1>2 DEF RouteReserved, CheckReserved, Dequeue, DecideExecute,
                      DecideRefused, RouteLocked, FreeRoute, FreeDone
  <2> QED BY <1>6, <2>1, <2>2, <2>3, <2>4, <2>5, <2>6 DEF LocoStep
<1>7. ASSUME LocoBegins(m) PROVE Goal
  <2>1. ASSUME NEW q \in Routes, SearchRoute(m, q) PROVE Goal
    BY <2>1, <1>4 DEF SearchRoute, EnterReserve, Lockables
  <2>2. ASSUME NEW t \in Tracks, PlaceLoco(m, t) PROVE Goal
    BY <1>1, <2>2 DEF PlaceLoco, ItemTypes
  <2> QED
    BY <1>7, <1>2, <2>1, <2>2
       DEF LocoBegins, AddTimeTable, PlanFollowUp, StartLoco, ReleaseLoco,
           ReachFirst, ReachStop
<1> QED BY <1>5, <1>6, <1>7 DEF Acts

\* The elements of a list are its first one and those of its tail.
LEMMA TailCovers ==
  ASSUME NEW S, NEW s \in Seq(S), s # <<>>
  PROVE  /\ Head(s) = s[1]
         /\ \A i \in 1..Len(s) : i # 1 => \E j \in 1..Len(Tail(s)) : s[i] = Tail(s)[j]
<1>1. Head(s) = s[1]
  OBVIOUS
<1>2. ASSUME NEW i \in 1..Len(s), i # 1
      PROVE  i - 1 \in 1..Len(Tail(s)) /\ s[i] = Tail(s)[i - 1]
  BY <1>2
<1> QED BY <1>1, <1>2

\* A route that is parked stays so until it is released.
LEMMA ParkedStep ==
  ASSUME TypeInv, OwnPlans, NEW l \in Locos, JourneyOf(l), Acts(l),
         NEW r \in Routes, Parked(l, r), lock'[r].owner = l
  PROVE  Parked(l, r)'
<1> USE DEF TypeInv, TypeOK, ThreadTypes, Threads, WorkOK, RouteLabels, Labels,
            Active
<1>1. CASE CheckExecute(l) \/ BeginExecute(l) \/ ExecuteRefused(l)
           \/ ExecuteMember(l) \/ BeginRelease(l)
  BY <1>1, KindsDiffer
     DEF CheckExecute, BeginExecute, ExecuteRefused, ExecuteMember,
         ExecuteFails, BeginRelease, ReleaseLabel, Enter, Proceed, Goto,
         trainVars, queueVars, Parked
<1>2. CASE RouteExecuted(l)
  <2>1. Seeking(l) /\ second[l] = None /\ freeRoutes'[l] = freeRoutes[l]
    BY <1>2, SeekingLabels
       DEF RouteExecuted, queueVars, JourneyOf, Preparation
  <2>2. IF first[l] = None THEN first'[l] = work[l] /\ second'[l] = second[l]
                           ELSE second'[l] = work[l] /\ first'[l] = first[l]
    BY <1>2, KindsDiffer DEF RouteExecuted, TrainTypes
  <2>3. r \in Active(l) \/ r = work[l] => r \in Active(l)'
    BY <2>1, <2>2, KindsDiffer DEF Lockables
  <2> HIDE DEF TypeInv, TypeOK, ThreadTypes, Threads, WorkOK, RouteLabels,
               Labels, Active
  <2> QED BY <2>1, <2>3 DEF Parked
<1>3. CASE UnlockMember(l) \/ UnlockDone(l) \/ UndoMember(l)
  BY <1>3
     DEF UnlockMember, UnlockDone, UndoMember, Proceed, Goto, trainVars,
         queueVars, Parked
<1>4. CASE RouteReleased(l)
  <2>1. r # work[l]
    BY <1>4, NoneIsNoLoco, KindsDiffer
       DEF RouteReleased, Released, CanRelease, FreeLock, Id, ItemTypes,
           Lockables
  <2> QED BY <1>4, <2>1 DEF RouteReleased, trainVars, queueVars, Parked
<1>5. CASE ReserveMember(l) \/ RouteReserved(l) \/ CheckReserved(l)
           \/ Dequeue(l) \/ DecideReserve(l) \/ DecideLock(l)
           \/ DecideExecute(l) \/ DecideRefused(l)
  BY <1>5
     DEF ReserveMember, RouteReserved, CheckReserved, Dequeue, DecideReserve,
         DecideLock, DecideExecute, DecideRefused, EnterReserve, trainVars,
         queueVars, Parked
<1>6. CASE LockMember(l) \/ RouteLocked(l) \/ UndoTrack(l) \/ DropTrack(l)
  <2>1. /\ UNCHANGED <<first, second, freeRoutes>>
        /\ \/ pc[l] = "dropTrack"
           \/ /\ pc'[l] \in {"lock", "ready", "undoTrack", "unlock", "undo"}
              /\ work'[l] = work[l]
    <3>1. CASE LockMember(l)
      BY <3>1 DEF LockMember, ReleaseLabel, Proceed, Goto, trainVars, queueVars
    <3>2. CASE RouteLocked(l) \/ UndoTrack(l) \/ DropTrack(l)
      BY <3>2
         DEF RouteLocked, UndoTrack, DropTrack, ReleaseLabel, Proceed, Goto,
             trainVars, queueVars
    <3> QED BY <1>6, <3>1, <3>2
  <2> QED BY <2>1 DEF Parked
<1>7. CASE FreeTrack(l) \/ FreeDone(l) \/ StartLoco(l)
  BY <1>7
     DEF FreeTrack, FreeDone, StartLoco, threadVars, trainVars, queueVars,
         Parked
<1>8. CASE FreeRoute(l)
  <2>1. /\ UNCHANGED trainVars /\ pc[l] = "free"
        /\ pc'[l] \in {"unlock", "undo"} /\ work'[l] = freeRoutes[l][1]
        /\ \A i \in 1..Len(freeRoutes[l]) : i # 1 =>
             \E j \in 1..Len(freeRoutes'[l]) : freeRoutes[l][i] = freeRoutes'[l][j]
    <3>1. /\ UNCHANGED trainVars /\ pc[l] = "free"
          /\ pc'[l] \in {"unlock", "undo"} /\ work'[l] = Head(freeRoutes[l])
          /\ freeRoutes'[l] = Tail(freeRoutes[l])
          /\ freeRoutes[l] \in Seq(Routes) /\ freeRoutes[l] # <<>>
      BY <1>8
         DEF FreeRoute, Enter, Proceed, Goto, ReleaseLabel, TrainTypes
    <3> QED BY <3>1, TailCovers
  <2> QED BY <2>1 DEF Parked, trainVars
<1>9. CASE ReleaseLoco(l) \/ ReachFirst(l) \/ ReachStop(l)
  <2>1. pc[l] = "idle" /\ freeRoutes[l] = <<>>
    BY <1>9
       DEF ReleaseLoco, ReachFirst, ReachStop, JourneyOf, Passing, Leaving
  <2>2. CASE ReleaseLoco(l) \/ ReachStop(l)
    <3>1. freeRoutes'[l] = Running(l)
      BY <2>2 DEF ReleaseLoco, ReachStop, TrainTypes
    <3> HIDE DEF TypeInv, TypeOK, ThreadTypes, Threads, WorkOK, RouteLabels,
                 Labels, Active
    <3>2. r \in Active(l)
      BY <2>1 DEF Parked
    <3>3. \E i \in 1..Len(Running(l)) : r = Running(l)[i]
      BY <3>2, RunningRoutes
    <3> QED BY <3>1, <3>3 DEF Parked
  <2>3. CASE ReachFirst(l)
    <3>1. freeRoutes'[l] = <<first[l]>> /\ first'[l] = second[l]
      BY <2>3 DEF ReachFirst, TrainTypes
    <3>2. r = first[l] \/ (r = second[l] /\ r # None)
      BY <2>1 DEF Parked
    <3>3. r = second[l] /\ r # None => r \in Active(l)'
      BY <3>1
    <3>4. r = first[l] => 1 \in 1..Len(freeRoutes'[l]) /\ r = freeRoutes'[l][1]
      BY <3>1
    <3> HIDE DEF TypeInv, TypeOK, ThreadTypes, Threads, WorkOK, RouteLabels,
                 Labels, Active
    <3> QED BY <3>2, <3>3, <3>4 DEF Parked
  <2> QED BY <1>9, <2>2, <2>3
<1>10. CASE (\E q \in Routes : SearchRoute(l, q))
            \/ (\E t \in Tracks : PlaceLoco(l, t))
  BY <1>10
     DEF SearchRoute, PlaceLoco, EnterReserve, threadVars, trainVars,
         queueVars, Parked
<1>11. ASSUME PlanFollowUp(l) \/ (\E q \in Routes, a \in {RouteAuto, RouteStop} :
                                  AddTimeTable(l, q, a))
       PROVE  FALSE
  BY <1>11 DEF PlanFollowUp, AddTimeTable, JourneyOf, Following, OwnPlans
<1> HIDE DEF TypeInv, TypeOK, ThreadTypes, Threads, WorkOK, RouteLabels, Labels
<1> QED
  BY <1>1, <1>2, <1>3, <1>4, <1>5, <1>6, <1>7, <1>8, <1>9, <1>10, <1>11
     DEF Acts, ProcedureStep, LocoStep, LocoBegins

\* A route that is locked for good is on its way, or is given back.
LEMMA HardLocksStep ==
  ASSUME TypeInv, PendingInv, OwnPlans, Journey, HoldInv, [Next]_vars
  PROVE  HardLocks'
<1> SUFFICES ASSUME NEW l \in Locos, NEW r \in Routes,
                    lock'[r].owner = l, lock'[r].state = "HardLocked"
             PROVE  Parked(l, r)'
  BY DEF HardLocks
<1>1. r \in Lockables /\ r \notin Tracks
  BY KindsDiffer DEF Lockables
<1>2. lock'[r] = lock[r] => Parked(l, r)
  BY DEF HoldInv, HardLocks
<1>3. CASE Rests(l) /\ lock'[r] = lock[r]
  BY <1>2, <1>3 DEF Parked, Rests, Active
<1>4. CASE Acts(l)
  <2>1. JourneyOf(l)
    BY DEF Journey, JourneyOf
  <2>2. CASE lock'[r] = lock[r]
    BY <1>2, <1>4, <2>1, <2>2, ParkedStep
  <2>3. CASE DecideLock(l) /\ work[l] = r
    BY <2>3
       DEF DecideLock, Enter, Proceed, Goto, Parked, TypeInv, TypeOK,
           ThreadTypes, Threads
  <2> QED BY <1>4, <2>2, <2>3, RouteHardened
<1>5. ASSUME NEW t \in Tracks, FeedbackFree(t) PROVE lock'[r] = lock[r]
  BY <1>1, <1>5 DEF FeedbackFree, ReleaseItem, TypeInv, TypeOK, ItemTypes
<1> QED BY <1>1, <1>3, <1>4, <1>5, WhoSteps DEF LocksKept

\* What the locomotives hold, step by step.
LEMMA HoldStep ==
  ASSUME TypeInv, PendingInv, OwnPlans, RoutesApart, Journey, HoldInv,
         [Next]_vars
  PROVE  HoldInv'
<1>1. ASSUME NEW l \in Locos PROVE Holds(l)'
  <2>1. Holds(l) /\ JourneyOf(l)
    BY DEF HoldInv, Holding, Journey, JourneyOf
  <2> QED BY <2>1, WhoSteps, RestingHolds, FeedbackHolds, ActsHolds
<1> QED BY <1>1, PlanOwnedStep, HardLocksStep DEF HoldInv, Holding

\* Initially nobody needs anything.
LEMMA InitHold == Init => HoldInv
<1> SUFFICES ASSUME Init PROVE HoldInv
  OBVIOUS
<1>1. \A x \in Lockables : lock[x].owner = None /\ lock[x].state = "Free"
  BY DEF Init, FreeLock
<1>2. ASSUME NEW l \in Locos, NEW x \in Lockables PROVE ~Must(l, x)
  BY KindsDiffer
     DEF Init, Threads, Must, RideNeeds, WorkNeeds, PassedNeeds, HoldsRoute,
         Active
<1>3. \A l \in Locos : plan[l] = <<>>
  BY DEF Init
<1> QED
  BY <1>1, <1>2, <1>3
     DEF HoldInv, Holding, Holds, PlanOwned, HardLocks, Lockables

(***************************************************************************)
(* The theorems about locks                                                  *)
(***************************************************************************)
\* Where every train is on its journey, and what its locomotive holds on it.
LEMMA JourneyInvariant ==
  OwnPlans /\ RoutesApart =>
    (Spec => [](TypeInv /\ MutexInv /\ PendingInv /\ Journey /\ HoldInv))
<1> SUFFICES ASSUME OwnPlans, RoutesApart
             PROVE  Spec => [](TypeInv /\ MutexInv /\ PendingInv /\ Journey
                               /\ HoldInv)
  OBVIOUS
<1>1. Spec => []PendingInv
  BY Pending DEF OwnPlans
<1>2. Init => Journey /\ HoldInv
  BY InitJourney, InitHold
<1>3. /\ TypeInv /\ TypeInv' /\ PendingInv /\ Journey /\ HoldInv
      /\ [Next]_vars
      => Journey' /\ HoldInv'
  BY JourneyStep, HoldStep
<1> QED
  BY TypeInvariant, MutexInvariant, <1>1, <1>2, <1>3, PTL DEF Spec

\* A train runs on routes that are its own with every element on the way and
\* with the destination, whatever is refused half way (LocoBase::ExecuteRoute,
\* Route::Reserve, Route::Lock and Route::Release against each other).
THEOREM RoutesComplete ==
  OwnPlans /\ RoutesApart => (Spec => []RouteComplete)
<1> SUFFICES ASSUME OwnPlans, RoutesApart PROVE Spec => []RouteComplete
  OBVIOUS
<1>1. TypeInv /\ HoldInv => RouteComplete
  <2> SUFFICES ASSUME TypeInv, HoldInv, NEW l \in Locos, NEW r \in Active(l),
                      NEW x \in HeldMembers(r) \cup {r}
               PROVE  lock[x].owner = l
    BY DEF RouteComplete
  <2>1. r \in Routes
    BY TrainRoutes
  <2>2. x \in Lockables
    BY <2>1, MembersLockable DEF HeldMembers, Lockables
  <2>3. Must(l, x)
    BY DEF Must, RideNeeds
  <2> QED BY <2>2, <2>3 DEF HoldInv, Holding, Holds
<1> QED BY JourneyInvariant, <1>1, PTL

\* The track a train stands on, or leaves, stays its own until the train has
\* reached the next one, unless it is released when free (LocoBase::ShiftRoute).
THEOREM StartTracksHeld ==
  OwnPlans /\ RoutesApart => (Spec => []StartTrackHeld)
<1> SUFFICES ASSUME OwnPlans, RoutesApart PROVE Spec => []StartTrackHeld
  OBVIOUS
<1>1. TypeInv /\ HoldInv => StartTrackHeld
  BY DEF TypeInv, TypeOK, TrainTypes, Lockables, StartTrackHeld, HoldInv,
         Holding, Holds, Must, RideNeeds
<1> QED BY JourneyInvariant, <1>1, PTL

(***************************************************************************)
(* Nothing is left behind                                                    *)
(***************************************************************************)
\* Every track of two lists is one of the joined list.
LEMMA JoinCovers ==
  ASSUME NEW s \in Seq(Tracks), NEW t \in Seq(Tracks)
  PROVE  /\ \A i \in 1..Len(s) : \E j \in 1..Len(s \o t) : (s \o t)[j] = s[i]
         /\ \A i \in 1..Len(t) : \E j \in 1..Len(s \o t) : (s \o t)[j] = t[i]
<1>1. Len(s \o t) = Len(s) + Len(t) /\ Len(s) \in Nat /\ Len(t) \in Nat
  OBVIOUS
<1>2. ASSUME NEW i \in 1..Len(s)
      PROVE  i \in 1..Len(s \o t) /\ (s \o t)[i] = s[i]
  BY <1>1
<1>3. ASSUME NEW i \in 1..Len(t)
      PROVE  Len(s) + i \in 1..Len(s \o t) /\ (s \o t)[Len(s) + i] = t[i]
  BY <1>1
<1> QED BY <1>2, <1>3

\* The ride is the same after a step that changes none of its variables.
LEMMA SameRideMay ==
  ASSUME NEW l \in Locos, NEW x, from'[l] = from[l], first'[l] = first[l],
         second'[l] = second[l], plan'[l] = plan[l], RideMay(l, x)
  PROVE  RideMay(l, x)'
BY DEF RideMay, Active, Footprint, Way

\* The release queues are the same.
LEMMA SamePassedMay ==
  ASSUME NEW l \in Locos, NEW x, freeTracks'[l] = freeTracks[l],
         freeRoutes'[l] = freeRoutes[l], PassedMay(l, x)
  PROVE  PassedMay(l, x)'
BY DEF PassedMay, Way

\* What is on the ride and what is to be given back is unchanged.
LEMMA MayFrame ==
  ASSUME NEW l \in Locos, NEW x,
         UNCHANGED <<from, first, second, plan, freeTracks, freeRoutes>>,
         May(l, x),
         WorkMay(l, x) => WorkMay(l, x)' \/ RideMay(l, x)
  PROVE  May(l, x)'
BY SameRideMay, SamePassedMay DEF May

\* The route a locomotive works on for its timetable is at the front of it.
LEMMA ServedRoute ==
  ASSUME TypeInv, NEW l \in Locos, JourneyOf(l), Serving(l)
  PROVE  \A x \in Footprint(work[l]) \cup {work[l]} : RideMay(l, x)
<1>1. plan[l] # <<>>
  BY DEF TypeInv, TrainOK
<1>2. Seeking(l)
  BY SeekingLabels DEF Serving
<1>3. Head(plan[l]).route = work[l]
  BY <1>1, <1>2 DEF JourneyOf, Preparation
<1> QED BY <1>1, <1>3 DEF RideMay

\* A route whose execution or release begins.
LEMMA MayProcedure ==
  ASSUME TypeInv, NEW l \in Locos, JourneyOf(l), Tidy(l), ProcedureStep(l),
         NEW x \in Lockables, lock'[x].owner = l
  PROVE  May(l, x)'
<1> USE DEF TypeInv, TypeOK, ThreadTypes, Threads
<1>1. lock' = lock => May(l, x)
  BY DEF Tidy
<1>2. CASE CheckExecute(l) \/ BeginExecute(l) \/ ExecuteRefused(l)
           \/ ExecuteMember(l)
  <2>1. /\ UNCHANGED <<from, first, second, plan, freeTracks, freeRoutes, lock>>
        /\ pc[l] \in {"ready", "enter", "execute"}
    BY <1>2
       DEF CheckExecute, BeginExecute, ExecuteRefused, ExecuteMember,
           trainVars, queueVars
  <2>2. ~WorkMay(l, x)
    BY <2>1 DEF WorkMay
  <2> QED BY <1>1, <2>1, <2>2, MayFrame
<1>3. CASE RouteExecuted(l)
  <2>1. /\ UNCHANGED <<from, freeTracks, freeRoutes, lock>>
        /\ pc[l] = "execute"
    BY <1>3, KindsDiffer DEF RouteExecuted, queueVars
  <2>2. Seeking(l) /\ second[l] = None /\ plan[l] # <<>>
    BY <2>1, SeekingLabels
       DEF JourneyOf, Preparation, TrainOK, Serving
  <2>3. Head(plan[l]).route = work[l] /\ work[l] # None
    BY <2>1, <2>2, KindsDiffer
       DEF JourneyOf, Preparation, Lockables, WorkOK, RouteLabels, Labels
  <2>4. Active(l)' = Active(l) \cup {work[l]}
    BY <1>3, <2>2, <2>3, KindsDiffer DEF RouteExecuted, TrainTypes, Active
  <2>5. ~WorkMay(l, x)
    BY <2>1 DEF WorkMay
  <2> HIDE DEF TypeInv, TypeOK, ThreadTypes, Threads
  <2>6. ASSUME RideMay(l, x) PROVE RideMay(l, x)'
    <3>1. x = from[l] \/ \E r \in Active(l)' : x = r \/ x \in Footprint(r)
      BY <2>3, <2>4, <2>6 DEF RideMay
    <3>2. from'[l] = from[l]
      BY <2>1
    <3> QED BY <3>1, <3>2 DEF RideMay
  <2> QED BY <1>1, <2>1, <2>5, <2>6, SamePassedMay DEF May
<1>4. CASE BeginRelease(l)
  <2>1. /\ UNCHANGED <<from, first, second, plan, freeTracks, freeRoutes, lock>>
        /\ pc[l] = "abort" /\ work'[l] = work[l] /\ caller'[l] = "drop"
        /\ pc'[l] \in {"unlock", "undo"} /\ next'[l] = 1
    BY <1>4
       DEF BeginRelease, trainVars, queueVars, Enter, Proceed, Goto,
           ReleaseLabel, Tidy
  <2> HIDE DEF TypeInv, TypeOK, ThreadTypes, Threads
  <2>2. WorkMay(l, x) => WorkMay(l, x)'
    BY <2>1 DEF WorkMay, Footprint, Way
  <2> QED BY <1>1, <2>1, <2>2, MayFrame
<1>5. CASE UnlockMember(l) \/ UnlockDone(l)
  <2>1. /\ UNCHANGED <<from, first, second, plan, freeTracks, freeRoutes, lock,
                       work, caller>>
        /\ pc[l] = "unlock"
        /\ pc'[l] = "unlock" \/ (pc'[l] = "undo" /\ next'[l] = 1)
    BY <1>5
       DEF UnlockMember, UnlockDone, trainVars, queueVars, Proceed, Goto
  <2> HIDE DEF TypeInv, TypeOK, ThreadTypes, Threads
  <2>2. WorkMay(l, x) => WorkMay(l, x)'
    BY <2>1 DEF WorkMay, Way
  <2> QED BY <1>1, <2>1, <2>2, MayFrame
<1>6. CASE UndoMember(l)
  <2>1. /\ UNCHANGED <<from, first, second, plan, freeTracks, freeRoutes,
                       work, caller>>
        /\ pc[l] = "undo" /\ pc'[l] = "undo" /\ next'[l] = next[l] + 1
        /\ next[l] \in Nat
        /\ lock' = [lock EXCEPT ![Parts[work[l]][next[l]]] = Released(@, l)]
    BY <1>6, KindsDiffer
       DEF UndoMember, ReleaseItem, Id, trainVars, queueVars, Proceed, Goto
  <2>2. lock[x].owner = l /\ x # Parts[work[l]][next[l]]
    BY <2>1, NoneIsNoLoco DEF ItemTypes, Released, CanRelease, FreeLock
  <2> HIDE DEF TypeInv, TypeOK, ThreadTypes, Threads
  <2>3. WorkMay(l, x) => WorkMay(l, x)'
    BY <2>1, <2>2 DEF WorkMay
  <2> QED BY <2>1, <2>2, <2>3, MayFrame DEF Tidy
<1>7. CASE RouteReleased(l)
  <2>1. /\ UNCHANGED <<from, first, second, plan, freeTracks, freeRoutes>>
        /\ pc[l] = "undo" /\ next[l] > Len(Parts[work[l]])
        /\ caller[l] = "drop" => /\ pc'[l] = "dropTrack" /\ work'[l] = work[l]
                                 /\ caller'[l] = "drop"
        /\ next[l] \in Nat
        /\ lock' = [lock EXCEPT ![work[l]] = Released(@, l)]
        /\ work[l] \in Routes
    BY <1>7, KindsDiffer
       DEF RouteReleased, ReturnFromRelease, Id, trainVars, queueVars, Goto,
           WorkOK, RouteLabels, Labels
  <2>2. lock[x].owner = l /\ x # work[l]
    BY <2>1, NoneIsNoLoco
       DEF ItemTypes, Released, CanRelease, FreeLock
  <2> HIDE DEF TypeInv, TypeOK, ThreadTypes, Threads
  <2>3. ~\E i \in 1..Len(Parts[work[l]]) : i >= next[l]
    BY <2>1, RelationTypes
  <2>4. WorkMay(l, x) => WorkMay(l, x)'
    BY <2>1, <2>2, <2>3 DEF WorkMay
  <2> QED BY <2>1, <2>2, <2>4, MayFrame DEF Tidy
<1> QED
  BY <1>2, <1>3, <1>4, <1>5, <1>6, <1>7 DEF ProcedureStep

\* What a locomotive does with a route it has found.
LEMMA MayPrepare ==
  ASSUME TypeInv, NEW l \in Locos, JourneyOf(l), Tidy(l), LocoStep(l),
         NEW x \in Lockables, lock'[x].owner = l
  PROVE  May(l, x)'
<1> USE DEF TypeInv, TypeOK, ThreadTypes, Threads
<1>1. lock[x].owner = l => May(l, x)
  BY DEF Tidy
<1>2. CASE ReserveMember(l)
  <2>1. /\ UNCHANGED <<from, first, second, plan, freeTracks, freeRoutes, work>>
        /\ pc[l] = "reserve" /\ next[l] <= Len(Parts[work[l]])
        /\ next[l] \in Nat /\ work[l] \in Routes
        /\ \/ /\ pc'[l] = "reserve" /\ next'[l] = next[l] + 1
              /\ \/ lock'[x] = lock[x]
                 \/ x = Member(work[l], next[l])
           \/ /\ pc'[l] = "undoTrack" /\ lock' = lock
           \/ /\ pc'[l] \in {"unlock", "undo"} /\ lock' = lock /\ next[l] = 0
    BY <1>2
       DEF ReserveMember, trainVars, queueVars, Proceed, Goto, ReleaseLabel,
           WorkOK, RouteLabels, Labels, ItemTypes
  <2> HIDE DEF TypeInv, TypeOK, ThreadTypes, Threads
  <2>2. \A i \in 0..Len(Parts[work[l]]) :
          Member(work[l], i) \in Footprint(work[l])
    BY <2>1, MembersLockable
  <2>3. WorkMay(l, x) => WorkMay(l, x)'
    BY <2>1, <2>2 DEF WorkMay, Member, Footprint, Way
  <2>4. x = Member(work[l], next[l]) /\ pc'[l] = "reserve" => WorkMay(l, x)'
    <3>1. next[l] \in 0..Len(Parts[work[l]]) /\ next[l] < next[l] + 1
      BY <2>1, RelationTypes
    <3> QED BY <2>1, <3>1 DEF WorkMay, Member
  <2>5. lock'[x] = lock[x] => May(l, x)'
    BY <1>1, <2>1, <2>3, MayFrame
  <2> QED BY <2>1, <2>4, <2>5 DEF May
<1>3. CASE RouteReserved(l) \/ DecideExecute(l) \/ DecideRefused(l)
           \/ RouteLocked(l)
  <2>1. /\ UNCHANGED <<from, first, second, plan, freeTracks, freeRoutes, lock>>
        /\ \/ pc[l] \in {"decide", "lock"}
           \/ /\ pc[l] = "reserve" /\ pc'[l] = "check" /\ work'[l] = work[l]
              /\ work[l] \in Routes
    BY <1>3
       DEF RouteReserved, DecideExecute, DecideRefused, RouteLocked, trainVars,
           queueVars, Proceed, Goto, WorkOK, RouteLabels, Labels
  <2> HIDE DEF TypeInv, TypeOK, ThreadTypes, Threads
  <2>2. work[l] \in Routes => \A i \in 0..Len(Parts[work[l]]) :
          Member(work[l], i) \in Footprint(work[l])
    BY MembersLockable
  <2>3. WorkMay(l, x) => WorkMay(l, x)'
    BY <2>1, <2>2 DEF WorkMay, Footprint, Way
  <2> QED BY <1>1, <2>1, <2>3, MayFrame
<1>4. CASE CheckReserved(l)
  <2>1. /\ UNCHANGED <<from, first, second, freeTracks, freeRoutes, lock, work>>
        /\ pc[l] = "check" /\ work[l] \in Routes
        /\ \/ /\ caller[l] = "search"
              /\ plan' = [plan EXCEPT ![l] = Append(plan[l],
                             [route |-> work[l], after |-> FollowUp[work[l]]])]
           \/ caller[l] # "search" /\ plan' = plan
           \/ pc'[l] = "abort" /\ plan' = plan
    BY <1>4
       DEF CheckReserved, trainVars, queueVars, Goto, WorkOK, RouteLabels,
           Labels
  <2>2. WorkMay(l, x) => x = work[l] \/ x \in Footprint(work[l])
    BY <2>1 DEF WorkMay
  <2>3. CASE /\ caller[l] = "search"
             /\ plan' = [plan EXCEPT ![l] = Append(plan[l],
                            [route |-> work[l], after |-> FollowUp[work[l]]])]
    <3>1. plan[l] = <<>>
      BY <2>1, <2>3 DEF JourneyOf, Preparation
    <3>2. plan'[l] = Append(<<>>,
                            [route |-> work[l], after |-> FollowUp[work[l]]])
      BY <2>3, <3>1 DEF TrainTypes
    <3>3. plan'[l] # <<>> /\ Head(plan'[l]).route = work[l]
      BY <3>2, OneElement
    <3> HIDE DEF TypeInv, TypeOK, ThreadTypes, Threads
    <3>4. x = work[l] \/ x \in Footprint(work[l]) => RideMay(l, x)'
      BY <3>3 DEF RideMay, Footprint, Way
    <3>5. RideMay(l, x) => RideMay(l, x)'
      BY <2>1, <3>1 DEF RideMay, Active, Footprint, Way
    <3> QED BY <1>1, <2>1, <2>2, <3>4, <3>5, SamePassedMay DEF May
  <2>4. CASE caller[l] # "search" /\ plan' = plan
    <3>1. Serving(l)
      BY <2>1, <2>4 DEF Serving
    <3> QED BY <1>1, <2>1, <2>2, <2>4, <3>1, ServedRoute, MayFrame
  <2>5. CASE pc'[l] = "abort" /\ plan' = plan
    <3> HIDE DEF TypeInv, TypeOK, ThreadTypes, Threads
    <3>1. x = work[l] \/ x \in Footprint(work[l]) => WorkMay(l, x)'
      BY <2>1, <2>5 DEF WorkMay, Footprint, Way
    <3> QED BY <1>1, <2>1, <2>2, <2>5, <3>1, MayFrame
  <2> QED BY <2>1, <2>3, <2>4, <2>5
<1>5. CASE Dequeue(l)
  <2>1. /\ UNCHANGED <<from, first, second, plan, freeTracks, freeRoutes, lock>>
        /\ pc[l] \in {"dequeue", "idle"}
    BY <1>5 DEF Dequeue, JourneyOf, Planning, trainVars, queueVars
  <2>2. ~WorkMay(l, x)
    BY <2>1 DEF WorkMay
  <2> QED BY <1>1, <2>1, <2>2, MayFrame
<1>6. CASE DecideReserve(l) \/ DecideLock(l)
  <2>1. /\ UNCHANGED <<from, first, second, plan, freeTracks, freeRoutes>>
        /\ pc[l] = "decide"
        /\ lock'[x] = lock[x] \/ x = work[l]
    BY <1>6
       DEF DecideReserve, DecideLock, EnterReserve, Enter, trainVars, queueVars,
           ItemTypes
  <2>2. ~WorkMay(l, x)
    BY <2>1 DEF WorkMay
  <2>3. x = work[l] => RideMay(l, x)
    BY <2>1, ServedRoute DEF Serving
  <2> QED BY <1>1, <2>1, <2>2, <2>3, MayFrame DEF May
<1>7. CASE LockMember(l)
  <2>1. /\ UNCHANGED <<from, first, second, plan, freeTracks, freeRoutes>>
        /\ pc[l] = "lock" /\ lock'[x].owner = lock[x].owner
    BY <1>7, TakenLock DEF LockMember, CanLock, Locked, trainVars, queueVars,
           ItemTypes
  <2>2. ~WorkMay(l, x)
    BY <2>1 DEF WorkMay
  <2> QED BY <1>1, <2>1, <2>2, MayFrame
<1>8. CASE UndoTrack(l) \/ DropTrack(l)
  <2>1. /\ UNCHANGED <<from, first, second, plan, freeTracks, freeRoutes>>
        /\ lock' = [lock EXCEPT ![ToTrack[work[l]]] = Released(@, l)]
        /\ \/ pc[l] = "dropTrack"
           \/ /\ pc[l] = "undoTrack" /\ pc'[l] \in {"unlock", "undo"}
              /\ next'[l] = 1 /\ work'[l] = work[l]
    BY <1>8
       DEF UndoTrack, DropTrack, ReleaseItem, Proceed, Goto, ReleaseLabel,
           trainVars, queueVars
  <2>2. lock[x].owner = l /\ x # ToTrack[work[l]]
    BY <2>1, NoneIsNoLoco DEF ItemTypes, Released, CanRelease, FreeLock
  <2> HIDE DEF TypeInv, TypeOK, ThreadTypes, Threads
  <2>3. WorkMay(l, x) => WorkMay(l, x)'
    BY <2>1, <2>2 DEF WorkMay, Footprint, Way
  <2> QED BY <1>1, <2>1, <2>2, <2>3, MayFrame
<1>9. CASE FreeTrack(l)
  <2>1. /\ UNCHANGED <<from, first, second, plan, freeRoutes, pc, work>>
        /\ pc[l] = "free" /\ freeTracks[l] # <<>>
        /\ freeTracks[l] \in Seq(Tracks)
        /\ freeTracks'[l] = Tail(freeTracks[l])
        /\ lock' = [lock EXCEPT ![Head(freeTracks[l])] = Released(@, l)]
    BY <1>9 DEF FreeTrack, ReleaseItem, threadVars, trainVars, TrainTypes
  <2>2. lock[x].owner = l /\ x # Head(freeTracks[l])
    BY <2>1, NoneIsNoLoco DEF ItemTypes, Released, CanRelease, FreeLock
  <2> HIDE DEF TypeInv, TypeOK, ThreadTypes, Threads
  <2>3. ~WorkMay(l, x)
    BY <2>1 DEF WorkMay
  <2>4. /\ Head(freeTracks[l]) = freeTracks[l][1]
        /\ \A i \in 1..Len(freeTracks[l]) : i # 1 =>
             \E j \in 1..Len(freeTracks'[l]) : freeTracks[l][i] = freeTracks'[l][j]
    BY <2>1, TailCovers
  <2>5. PassedMay(l, x) =>
          \/ \E i \in 1..Len(freeTracks'[l]) : x = freeTracks'[l][i]
          \/ \E i \in 1..Len(freeRoutes[l]) :
               x = freeRoutes[l][i] \/ x \in Way(freeRoutes[l][i])
    BY <2>2, <2>4 DEF PassedMay
  <2>6. PassedMay(l, x) => PassedMay(l, x)'
    BY <2>1, <2>5 DEF PassedMay, Way
  <2> QED BY <1>1, <2>1, <2>2, <2>3, <2>6, SameRideMay DEF May
<1>10. CASE FreeRoute(l)
  <2>1. /\ UNCHANGED <<from, first, second, plan, freeTracks, lock>>
        /\ pc[l] = "free" /\ freeRoutes[l] # <<>>
        /\ freeRoutes[l] \in Seq(Routes)
        /\ freeRoutes'[l] = Tail(freeRoutes[l])
        /\ pc'[l] \in {"unlock", "undo"} /\ next'[l] = 1
        /\ work'[l] = Head(freeRoutes[l])
    BY <1>10
       DEF FreeRoute, Enter, Proceed, Goto, ReleaseLabel, trainVars, TrainTypes
  <2> HIDE DEF TypeInv, TypeOK, ThreadTypes, Threads
  <2>2. ~WorkMay(l, x)
    BY <2>1 DEF WorkMay
  <2>3. /\ Head(freeRoutes[l]) = freeRoutes[l][1]
        /\ \A i \in 1..Len(freeRoutes[l]) : i # 1 =>
             \E j \in 1..Len(freeRoutes'[l]) : freeRoutes[l][i] = freeRoutes'[l][j]
    BY <2>1, TailCovers
  <2>4. PICK r : r = Head(freeRoutes[l])
    OBVIOUS
  <2>5. x = r \/ x \in Way(r) => WorkMay(l, x)'
    BY <2>1, <2>4 DEF WorkMay, Way
  <2>6. PassedMay(l, x) =>
          \/ \E i \in 1..Len(freeTracks[l]) : x = freeTracks[l][i]
          \/ \E i \in 1..Len(freeRoutes'[l]) :
               x = freeRoutes'[l][i] \/ x \in Way(freeRoutes'[l][i])
          \/ x = r \/ x \in Way(r)
    BY <2>3, <2>4 DEF PassedMay
  <2>7. PassedMay(l, x) => PassedMay(l, x)' \/ WorkMay(l, x)'
    BY <2>1, <2>5, <2>6 DEF PassedMay, Way
  <2> QED BY <1>1, <2>1, <2>2, <2>7, SameRideMay DEF May
<1>11. CASE FreeDone(l)
  <2>1. /\ UNCHANGED <<from, first, second, plan, freeTracks, freeRoutes, lock>>
        /\ pc[l] = "free"
    BY <1>11 DEF FreeDone, trainVars, queueVars
  <2>2. ~WorkMay(l, x)
    BY <2>1 DEF WorkMay
  <2> QED BY <1>1, <2>1, <2>2, MayFrame
<1> HIDE DEF TypeInv, TypeOK, ThreadTypes, Threads
<1> QED
  BY <1>2, <1>3, <1>4, <1>5, <1>6, <1>7, <1>8, <1>9, <1>10, <1>11 DEF LocoStep

\* The track a train leaves and the tracks it has passed are where it arrives
\* or in its queue.
LEMMA PassedTracks ==
  ASSUME TypeInv, NEW l \in Locos, ReachStop(l) \/ ReleaseLoco(l)
  PROVE  /\ \/ from[l] = from'[l]
            \/ \E i \in 1..Len(freeTracks'[l]) : from[l] = freeTracks'[l][i]
         /\ \A r \in Active(l) :
              \/ ToTrack[r] = from'[l]
              \/ \E i \in 1..Len(freeTracks'[l]) : ToTrack[r] = freeTracks'[l][i]
<1> DEFINE Kept(t) == \/ t = from'[l]
                      \/ \E i \in 1..Len(freeTracks'[l]) : t = freeTracks'[l][i]
<1>1. /\ second[l] # None => first[l] # None
      /\ \A r \in Active(l) : r \in Routes /\ ToTrack[r] \in Tracks
  BY TrainRoutes, MembersLockable DEF TypeInv, TrainOK
<1>2. CASE ReleaseLoco(l)
  <2>1. /\ freeTracks'[l] = <<from[l]>> \o
             [i \in 1..Len(Running(l)) |-> ToTrack[Running(l)[i]]]
        /\ from[l] \in Tracks
    BY <1>2 DEF ReleaseLoco, TypeInv, TypeOK, TrainTypes
  <2>2. /\ <<from[l]>> \in Seq(Tracks)
        /\ [i \in 1..Len(Running(l)) |-> ToTrack[Running(l)[i]]] \in Seq(Tracks)
    <3>1. Running(l) \in Seq(Routes)
      BY DEF Running, TypeInv, TypeOK, TrainTypes
    <3>2. Len(Running(l)) \in Nat
          /\ \A i \in 1..Len(Running(l)) : ToTrack[Running(l)[i]] \in Tracks
      BY <3>1, LayoutTypes
    <3> QED BY <2>1, <3>2
  <2>3. PICK s \in Seq(Tracks), t \in Seq(Tracks) :
          /\ s = <<from[l]>>
          /\ t = [i \in 1..Len(Running(l)) |-> ToTrack[Running(l)[i]]]
    BY <2>2
  <2>4. /\ \A i \in 1..Len(s) : \E j \in 1..Len(freeTracks'[l]) :
             freeTracks'[l][j] = s[i]
        /\ \A i \in 1..Len(t) : \E j \in 1..Len(freeTracks'[l]) :
             freeTracks'[l][j] = t[i]
    <3>1. freeTracks'[l] = s \o t
      BY <2>1, <2>3
    <3> HIDE <2>3
    <3>2. /\ \A i \in 1..Len(s) : \E j \in 1..Len(s \o t) : (s \o t)[j] = s[i]
          /\ \A i \in 1..Len(t) : \E j \in 1..Len(s \o t) : (s \o t)[j] = t[i]
      BY JoinCovers
    <3> QED BY <3>1, <3>2
  <2>5. Kept(from[l])
    <3>1. 1 \in 1..Len(s) /\ s[1] = from[l]
      BY <2>3
    <3> QED BY <2>4, <3>1
  <2>6. ASSUME NEW r \in Active(l) PROVE Kept(ToTrack[r])
    <3>1. PICK i \in 1..Len(Running(l)) : r = Running(l)[i]
      BY RunningRoutes
    <3>2. i \in 1..Len(t) /\ t[i] = ToTrack[r]
      <4>1. Len(Running(l)) \in Nat
        BY DEF Running, TypeInv, TypeOK, TrainTypes
      <4> QED BY <2>3, <3>1, <4>1
    <3> QED BY <2>4, <3>2
  <2> QED BY <2>5, <2>6
<1>3. ASSUME NEW a, NEW b
      PROVE  a = b \/ (1 \in 1..Len(Left(a, b)) /\ Left(a, b)[1] = a)
  BY DEF Left
<1>4. CASE ReachStop(l) /\ second[l] = None
  <2>1. /\ from'[l] = ToTrack[first[l]]
        /\ freeTracks'[l] = Left(from[l], ToTrack[first[l]])
        /\ Active(l) = {first[l]}
    BY <1>4 DEF ReachStop, Active, TypeInv, TypeOK, TrainTypes
  <2> QED BY <1>3, <2>1
<1>5. CASE ReachStop(l) /\ second[l] # None
  <2>1. PICK a \in Tracks, b \in Tracks, c \in Tracks :
          a = from[l] /\ b = ToTrack[first[l]] /\ c = ToTrack[second[l]]
    BY <1>1, <1>5 DEF Active, TypeInv, TypeOK, TrainTypes, TrainOK
  <2>2. /\ from'[l] = c /\ freeTracks'[l] = Left(a, b) \o Left(b, c)
        /\ Active(l) = {first[l], second[l]}
    BY <1>1, <1>5, <2>1 DEF ReachStop, Active, TypeInv, TypeOK, TrainTypes
  <2>3. PICK s \in Seq(Tracks), t \in Seq(Tracks) : s = Left(a, b) /\ t = Left(b, c)
    BY LeftList
  <2>4. /\ \A i \in 1..Len(s) : \E j \in 1..Len(s \o t) : (s \o t)[j] = s[i]
        /\ \A i \in 1..Len(t) : \E j \in 1..Len(s \o t) : (s \o t)[j] = t[i]
    BY JoinCovers
  <2>5. freeTracks'[l] = s \o t
    BY <2>2, <2>3
  <2>6. /\ a = b \/ (1 \in 1..Len(s) /\ s[1] = a)
        /\ b = c \/ (1 \in 1..Len(t) /\ t[1] = b)
    BY <1>3, <2>3
  <2>7. (a = b \/ Kept(a)) /\ (b = c \/ Kept(b)) /\ Kept(c)
    BY <2>2, <2>4, <2>5, <2>6
  <2> QED BY <2>1, <2>2, <2>7
<1> QED BY <1>2, <1>4, <1>5

\* What a train has passed is in its queues.
LEMMA MayBegin ==
  ASSUME TypeInv, OwnPlans, NEW l \in Locos, JourneyOf(l), Tidy(l),
         LocoBegins(l), NEW x \in Lockables, lock'[x].owner = l
  PROVE  May(l, x)'
<1> USE DEF TypeInv, TypeOK, ThreadTypes, Threads
<1>1. lock[x].owner = l => May(l, x)
  BY DEF Tidy
<1>2. ASSUME NEW r \in Routes, SearchRoute(l, r) PROVE May(l, x)'
  <2>1. /\ UNCHANGED <<from, first, second, plan, freeTracks, freeRoutes>>
        /\ pc[l] = "idle" /\ pc'[l] = "reserve" /\ work'[l] = r
        /\ lock'[x] = lock[x] \/ x = r
    BY <1>2
       DEF SearchRoute, EnterReserve, Enter, Proceed, Goto, trainVars,
           queueVars, ItemTypes
  <2>2. ~WorkMay(l, x)
    BY <2>1 DEF WorkMay
  <2>3. x = r => WorkMay(l, x)'
    BY <2>1 DEF WorkMay
  <2> QED BY <1>1, <2>1, <2>2, <2>3, MayFrame DEF May
<1>3. ASSUME NEW t \in Tracks, PlaceLoco(l, t) PROVE May(l, x)'
  <2>1. /\ UNCHANGED <<first, second, plan, freeTracks, freeRoutes>>
        /\ pc[l] = "idle" /\ from[l] = None /\ from'[l] = t
        /\ lock'[x] = lock[x] \/ x = t
    BY <1>3 DEF PlaceLoco, queueVars, ItemTypes, TrainTypes
  <2>2. ~WorkMay(l, x) /\ x # None
    BY <2>1, KindsDiffer DEF WorkMay
  <2>3. RideMay(l, x) \/ x = t => RideMay(l, x)'
    BY <2>1, <2>2 DEF RideMay, Active, Footprint, Way
  <2> QED BY <1>1, <2>1, <2>2, <2>3, SamePassedMay DEF May
<1>4. CASE StartLoco(l)
  <2>1. /\ UNCHANGED <<from, first, second, plan, freeTracks, freeRoutes, lock>>
        /\ pc[l] = "idle"
    BY <1>4 DEF StartLoco, queueVars
  <2>2. ~WorkMay(l, x)
    BY <2>1 DEF WorkMay
  <2> QED BY <1>1, <2>1, <2>2, MayFrame
<1>5. ASSUME PlanFollowUp(l) \/ (\E r \in Routes, a \in {RouteAuto, RouteStop} :
                                  AddTimeTable(l, r, a))
       PROVE FALSE
  BY <1>5 DEF PlanFollowUp, AddTimeTable, JourneyOf, Following, OwnPlans
<1>6. CASE ReachFirst(l)
  <2>1. PICK r \in Routes, q \in Routes, a \in Tracks :
          r = first[l] /\ q = second[l] /\ a = from[l]
    BY <1>6 DEF ReachFirst, TrainOK, TrainTypes
  <2>2. /\ from'[l] = ToTrack[r] /\ first'[l] = q
        /\ pc[l] = "idle" /\ plan' = plan /\ lock' = lock
        /\ freeTracks'[l] = Left(a, ToTrack[r]) /\ freeRoutes'[l] = <<r>>
        /\ q # None
    BY <1>6, <2>1 DEF ReachFirst, TrainTypes
  <2> HIDE DEF TypeInv, TypeOK, ThreadTypes, Threads
  <2>3. plan[l] = <<>> /\ freeRoutes[l] = <<>> /\ freeTracks[l] = <<>>
    BY <2>1, <2>2 DEF JourneyOf, Planning, Passing, Leaving
  <2>4. x = a \/ x = r \/ x \in Footprint(r) \/ x = q \/ x \in Footprint(q)
    BY <1>1, <2>1, <2>2, <2>3 DEF May, RideMay, WorkMay, PassedMay, Active
  <2>5. x = a => x = from'[l] \/ \E i \in 1..Len(freeTracks'[l]) : x = freeTracks'[l][i]
    BY <2>2 DEF Left
  <2>6. 1 \in 1..Len(freeRoutes'[l]) /\ freeRoutes'[l][1] = r
    BY <2>2
  <2>7. x = q \/ x \in Footprint(q) => RideMay(l, x)'
    BY <2>2 DEF RideMay, Active, Footprint, Way
  <2>8. x = r \/ x \in Way(r) => PassedMay(l, x)'
    BY <2>6 DEF PassedMay, Way
  <2>9. x = ToTrack[r] => RideMay(l, x)'
    BY <2>2 DEF RideMay
  <2> QED BY <2>4, <2>5, <2>7, <2>8, <2>9 DEF May, RideMay, PassedMay, Footprint
<1>7. CASE ReachStop(l) \/ ReleaseLoco(l)
  <2>1. /\ pc[l] = "idle" /\ lock' = lock
        /\ from[l] \in Tracks /\ freeRoutes'[l] = Running(l)
    BY <1>7 DEF ReachStop, ReleaseLoco, TrainTypes, TrainOK
  <2>2. /\ ~WorkMay(l, x) /\ ~PassedMay(l, x)
        /\ ReleaseLoco(l) => plan[l] = <<>>
    BY <2>1 DEF ReleaseLoco, JourneyOf, Passing, Leaving, WorkMay, PassedMay,
                OwnPlans
  <2>3. \A r \in Active(l) : r \in Routes /\ ToTrack[r] \in Tracks
    BY TrainRoutes, MembersLockable
  <2>4. /\ \/ from[l] = from'[l]
           \/ \E i \in 1..Len(freeTracks'[l]) : from[l] = freeTracks'[l][i]
        /\ \A r \in Active(l) :
             \/ ToTrack[r] = from'[l]
             \/ \E i \in 1..Len(freeTracks'[l]) : ToTrack[r] = freeTracks'[l][i]
    BY <1>7, PassedTracks
  <2>5. ReachStop(l) => plan' = plan
    BY DEF ReachStop
  <2> HIDE DEF TypeInv, TypeOK, ThreadTypes, Threads
  <2>6. x = from[l] => May(l, x)'
    BY <2>4 DEF May, RideMay, PassedMay
  <2>7. ASSUME NEW r \in Active(l), x = r \/ x \in Footprint(r) PROVE May(l, x)'
    <3>1. x = ToTrack[r] => May(l, x)'
      BY <2>4 DEF May, RideMay, PassedMay
    <3>2. \E i \in 1..Len(freeRoutes'[l]) : r = freeRoutes'[l][i]
      BY <2>1, RunningRoutes
    <3>3. x = r \/ x \in Way(r) => PassedMay(l, x)'
      BY <3>2 DEF PassedMay, Way
    <3> QED BY <2>7, <3>1, <3>3 DEF May, Footprint
  <2>8. plan[l] # <<>> => ReachStop(l)
    BY <1>7, <2>2
  <2>9. /\ plan[l] # <<>>
        /\ x = Head(plan[l]).route \/ x \in Footprint(Head(plan[l]).route)
        => RideMay(l, x)'
    BY <2>5, <2>8 DEF RideMay, Footprint, Way
  <2>10. RideMay(l, x)
    BY <1>1, <2>1, <2>2 DEF May
  <2> QED BY <2>6, <2>7, <2>9, <2>10 DEF May, RideMay
<1> HIDE DEF TypeInv, TypeOK, ThreadTypes, Threads
<1> QED BY <1>2, <1>3, <1>4, <1>5, <1>6, <1>7 DEF LocoBegins

\* What a locomotive may own, step by step.
LEMMA TidyStep ==
  ASSUME TypeInv, PendingInv, OwnPlans, Journey, LeakInv, [Next]_vars,
         NEW l \in Locos
  PROVE  Tidy(l)'
<1>1. Tidy(l) /\ JourneyOf(l)
  BY DEF LeakInv, Journey, JourneyOf
<1>2. CASE Acts(l)
  <2>1. ASSUME NEW x \in Lockables, lock'[x].owner = l PROVE May(l, x)'
    BY <1>1, <1>2, <2>1, MayProcedure, MayPrepare, MayBegin DEF Acts
  <2>2. pc'[l] = "abort" => caller'[l] = "drop"
    <3> USE DEF TypeInv, TypeOK, ThreadTypes, Threads, Proceed, Goto, Settle,
                Enter
    <3>1. ASSUME ProcedureStep(l), pc'[l] = "abort" PROVE caller'[l] = "drop"
      <4>1. CASE CheckExecute(l) \/ BeginExecute(l) \/ RouteExecuted(l)
                 \/ BeginRelease(l)
        BY <3>1, <4>1
           DEF CheckExecute, BeginExecute, RouteExecuted, BeginRelease,
               ReleaseLabel
      <4>2. CASE ExecuteRefused(l) \/ ExecuteMember(l)
        BY <3>1, <4>2, KindsDiffer DEF ExecuteRefused, ExecuteMember, ExecuteFails
      <4>3. CASE UnlockMember(l) \/ UnlockDone(l) \/ UndoMember(l)
                 \/ RouteReleased(l)
        BY <3>1, <4>3
           DEF UnlockMember, UnlockDone, UndoMember, RouteReleased,
               ReturnFromRelease
      <4> QED BY <3>1, <4>1, <4>2, <4>3 DEF ProcedureStep
    <3>2. ASSUME LocoStep(l), pc'[l] = "abort" PROVE caller'[l] = "drop"
      <4>1. CASE CheckReserved(l)
        BY <3>2, <4>1 DEF CheckReserved
      <4>2. CASE ReserveMember(l) \/ RouteReserved(l) \/ Dequeue(l)
                 \/ DecideReserve(l) \/ DecideLock(l) \/ DecideExecute(l)
                 \/ DecideRefused(l)
        BY <3>2, <4>2
           DEF ReserveMember, RouteReserved, Dequeue, DecideReserve, DecideLock,
               DecideExecute, DecideRefused, EnterReserve, ReleaseLabel
      <4>3. CASE LockMember(l) \/ RouteLocked(l) \/ UndoTrack(l)
                 \/ DropTrack(l) \/ FreeTrack(l) \/ FreeRoute(l) \/ FreeDone(l)
        BY <3>2, <4>3
           DEF LockMember, RouteLocked, UndoTrack, DropTrack, FreeTrack,
               FreeRoute, FreeDone, ReleaseLabel, threadVars
      <4> QED BY <3>2, <4>1, <4>2, <4>3 DEF LocoStep
    <3>3. ASSUME LocoBegins(l), pc'[l] = "abort", pc[l] # "abort" PROVE FALSE
      BY <3>3
         DEF LocoBegins, SearchRoute, AddTimeTable, PlaceLoco, PlanFollowUp,
             StartLoco, ReleaseLoco, ReachFirst, ReachStop, EnterReserve,
             threadVars
    <3>4. ASSUME LocoBegins(l), pc[l] = "abort" PROVE FALSE
      BY <1>1, <3>4
         DEF LocoBegins, SearchRoute, AddTimeTable, PlaceLoco, PlanFollowUp,
             StartLoco, ReleaseLoco, ReachFirst, ReachStop, OwnPlans
    <3> HIDE DEF TypeInv, TypeOK, ThreadTypes, Threads
    <3> QED BY <1>2, <3>1, <3>2, <3>3, <3>4 DEF Acts
  <2> QED BY <2>1, <2>2 DEF Tidy
<1>3. CASE \/ Rests(l) /\ LocksKept(l)
           \/ Rests(l) /\ \E t \in Tracks : FeedbackFree(t)
  <2>1. \A x \in Lockables : lock'[x].owner = l => lock[x].owner = l
    <3>1. CASE LocksKept(l)
      BY <3>1 DEF LocksKept
    <3>2. ASSUME NEW t \in Tracks, FeedbackFree(t)
          PROVE  \A x \in Lockables : lock'[x].owner = l => lock[x].owner = l
      BY <3>2, NoneIsNoLoco
         DEF FeedbackFree, ReleaseItem, Released, FreeLock, TypeInv, TypeOK,
             ItemTypes
    <3> QED BY <1>3, <3>1, <3>2
  <2>2. ASSUME NEW x \in Lockables, May(l, x) PROVE May(l, x)'
    <3>1. RideMay(l, x) => RideMay(l, x)'
      BY <1>3, SameRideMay DEF Rests
    <3>2. PassedMay(l, x) => PassedMay(l, x)'
      BY <1>3, SamePassedMay DEF Rests
    <3>3. WorkMay(l, x) => WorkMay(l, x)'
      BY <1>3 DEF Rests, WorkMay, Member, Footprint, Way
    <3> QED BY <2>2, <3>1, <3>2, <3>3 DEF May
  <2> QED BY <1>1, <1>3, <2>1, <2>2 DEF Tidy, Rests
<1> QED BY <1>2, <1>3, WhoSteps

\* Between two procedures a locomotive owns what its train and the entry at the
\* front of its timetable need and nothing else, whatever was refused half way
\* (Route::Reserve, LocoBase::ExecuteRoute, ReleaseRouteAndTrack).
THEOREM NothingLeft ==
  OwnPlans /\ RoutesApart => (Spec => []NothingLeaks)
<1> SUFFICES ASSUME OwnPlans, RoutesApart PROVE Spec => []NothingLeaks
  OBVIOUS
<1>1. Init => LeakInv
  <2> SUFFICES ASSUME Init, NEW l \in Locos PROVE Tidy(l)
    BY DEF LeakInv
  <2>1. pc[l] = "idle"
    BY DEF Init, Threads
  <2>2. \A x \in Lockables : lock[x].owner = None
    BY DEF Init, FreeLock
  <2> QED BY <2>1, <2>2, NoneIsNoLoco DEF Tidy
<1>2. TypeInv /\ PendingInv /\ Journey /\ LeakInv /\ [Next]_vars => LeakInv'
  BY TidyStep DEF LeakInv
<1>3. TypeInv /\ Journey /\ LeakInv => NothingLeaks
  <2> SUFFICES ASSUME TypeInv, Journey, LeakInv, NEW l \in Locos, pc[l] = "idle",
                      NEW x \in Lockables, lock[x].owner = l
               PROVE  x \in Needed(l)
    BY DEF NothingLeaks
  <2>1. RideMay(l, x)
    BY DEF LeakInv, Tidy, May, WorkMay, PassedMay, Journey, Passing, Leaving
  <2>2. plan[l] # <<>> => Head(plan[l]).route \in Ahead(l)
    <3>1. plan[l] # <<>> => 1 \in DOMAIN plan[l] /\ Head(plan[l]) = plan[l][1]
      BY DEF TypeInv, TypeOK, TrainTypes
    <3> QED BY <3>1 DEF Ahead
  <2> QED BY <2>1, <2>2 DEF RideMay, Needed, Ahead, Footprint, Way
<1> QED BY JourneyInvariant, <1>1, <1>2, <1>3, PTL DEF Spec

(***************************************************************************)
(* Switches and relations "At unlock"                                        *)
(***************************************************************************)
\* The operator does nothing.
LEMMA OperatorRests ==
  ASSUME TypeInv, OwnPlans, HandsOff, pc[Operator] = "idle", [Next]_vars
  PROVE  /\ pc'[Operator] = "idle"
         /\ ~ProcedureStep(Operator) /\ ~OperatorStep
<1>1. ~ProcedureStep(Operator)
  BY DEF ProcedureStep, CheckExecute, BeginExecute, ExecuteRefused,
         ExecuteMember, RouteExecuted, BeginRelease, UnlockMember, UnlockDone,
         UndoMember, RouteReleased
<1>2. ~OperatorStep
  BY DEF OperatorStep, OperatorExecutes, OperatorReleasesRoute, OperatorThrows,
         OperatorReleasesItem, ElementThrown, OwnPlans, HandsOff
<1>3. ASSUME NEW l \in Locos, Acts(l) PROVE pc'[Operator] = pc[Operator]
  <2> USE KindsDiffer DEF TypeInv, TypeOK, ThreadTypes, Threads, Proceed, Goto,
                          Settle, Enter
  <2>1. ASSUME ProcedureStep(l) PROVE pc'[Operator] = pc[Operator]
    <3>1. CASE CheckExecute(l) \/ BeginExecute(l) \/ ExecuteRefused(l)
               \/ ExecuteMember(l) \/ RouteExecuted(l)
      BY <3>1 DEF CheckExecute, BeginExecute, ExecuteRefused, ExecuteMember,
                  ExecuteFails, RouteExecuted
    <3>2. CASE BeginRelease(l) \/ UnlockMember(l) \/ UnlockDone(l)
               \/ UndoMember(l) \/ RouteReleased(l)
      BY <3>2 DEF BeginRelease, UnlockMember, UnlockDone, UndoMember,
                  RouteReleased, ReturnFromRelease
    <3> QED BY <2>1, <3>1, <3>2 DEF ProcedureStep
  <2>2. ASSUME LocoStep(l) PROVE pc'[Operator] = pc[Operator]
    <3>1. CASE ReserveMember(l) \/ RouteReserved(l) \/ CheckReserved(l)
               \/ Dequeue(l) \/ DecideReserve(l) \/ DecideLock(l)
               \/ DecideExecute(l) \/ DecideRefused(l)
      BY <3>1 DEF ReserveMember, RouteReserved, CheckReserved, Dequeue,
                  DecideReserve, DecideLock, DecideExecute, DecideRefused,
                  EnterReserve
    <3>2. CASE LockMember(l) \/ RouteLocked(l) \/ UndoTrack(l) \/ DropTrack(l)
               \/ FreeTrack(l) \/ FreeRoute(l) \/ FreeDone(l)
      BY <3>2 DEF LockMember, RouteLocked, UndoTrack, DropTrack, FreeTrack,
                  FreeRoute, FreeDone, threadVars
    <3> QED BY <2>2, <3>1, <3>2 DEF LocoStep
  <2>3. ASSUME LocoBegins(l) PROVE pc'[Operator] = pc[Operator]
    BY <2>3 DEF LocoBegins, SearchRoute, AddTimeTable, PlaceLoco, PlanFollowUp,
                StartLoco, ReleaseLoco, ReachFirst, ReachStop, EnterReserve,
                threadVars
  <2> QED BY <1>3, <2>1, <2>2, <2>3 DEF Acts
<1>4. ASSUME Environment \/ UNCHANGED vars PROVE pc' = pc
  BY <1>4 DEF Environment, FeedbackFree, ForeignCommand, vars, threadVars
<1> QED BY <1>1, <1>2, <1>3, <1>4 DEF Next, Acts, Threads

\* The steps of a locomotive that operate switches and accessories.
LEMMA SwitchMoves ==
  ASSUME TypeInv, NEW l \in Locos, Acts(l), NEW e \in Elements \ Signals,
         position'[e] # position[e]
  PROVE  \/ /\ ExecuteMember(l) /\ pc[l] = "execute" /\ work[l] \in Routes
            /\ next[l] \in 1..Len(Parts[work[l]])
            /\ e = Parts[work[l]][next[l]]
         \/ /\ UnlockMember(l) /\ pc[l] = "unlock" /\ work[l] \in Routes
            /\ next[l] \in 1..Len(AtUnlock[work[l]])
            /\ e = AtUnlock[work[l]][next[l]]
<1> USE DEF TypeInv, TypeOK, ItemTypes, ThreadTypes, Threads
<1>1. ASSUME NEW x, NEW id, ReleaseItem(x, id) PROVE FALSE
  BY <1>1, LayoutTypes DEF ReleaseItem, StopSignals
<1>2. CASE ExecuteMember(l)
  BY <1>2 DEF ExecuteMember, WorkOK, RouteLabels, Labels
<1>3. CASE UnlockMember(l)
  BY <1>3, RelationTypes DEF UnlockMember, WorkOK, RouteLabels, Labels
<1>4. ASSUME position' = position PROVE FALSE
  BY <1>4
<1>5. ASSUME ProcedureStep(l) PROVE ExecuteMember(l) \/ UnlockMember(l)
  BY <1>1, <1>4, <1>5
     DEF ProcedureStep, CheckExecute, BeginExecute, ExecuteRefused,
         RouteExecuted, BeginRelease, UnlockDone, UndoMember, RouteReleased
<1>6. ~LocoStep(l)
  BY <1>1, <1>4
     DEF LocoStep, ReserveMember, RouteReserved, CheckReserved, Dequeue,
         DecideReserve, DecideLock, DecideExecute, DecideRefused, LockMember,
         RouteLocked, UndoTrack, DropTrack, FreeTrack, FreeRoute, FreeDone
<1>7. ~LocoBegins(l)
  BY <1>4
     DEF LocoBegins, SearchRoute, AddTimeTable, PlaceLoco, PlanFollowUp,
         StartLoco, ReleaseLoco, ReachFirst, ReachStop
<1> QED BY <1>2, <1>3, <1>5, <1>6, <1>7 DEF Acts

\* A switch that moves belongs to a locomotive that does not need it for its
\* ride: it is on the way of a route that is prepared or given back.
LEMMA SwitchOwner ==
  ASSUME TypeInv, PendingInv, OwnPlans, RoutesApart, HandsOff, RelationsFit,
         Journey, HoldInv, pc[Operator] = "idle", UnlockPassed, [Next]_vars,
         NEW e \in Elements \ Signals, position'[e] # position[e]
  PROVE  \E m \in Locos :
           /\ Acts(m) /\ lock[e].owner = m /\ ~RideNeeds(m, e)
           /\ pc[m] = "execute" =>
                /\ next[m] \in 1..Len(Parts[work[m]])
                /\ e = Parts[work[m]][next[m]] /\ ExecuteMember(m)
<1>1. PICK m \in Locos : Acts(m)
  <2>1. ~Environment
    BY LayoutTypes DEF Environment, FeedbackFree, ForeignCommand, ReleaseItem,
                       StopSignals, HandsOff, TypeInv, TypeOK, ItemTypes
  <2>2. ~UNCHANGED vars
    BY DEF vars
  <2> QED BY <2>1, <2>2, OperatorRests DEF Next, Acts, Threads
<1>2. JourneyOf(m) /\ Holds(m) /\ e \in Lockables
  BY DEF Journey, JourneyOf, HoldInv, Holding, Lockables
<1>3. CASE /\ ExecuteMember(m) /\ pc[m] = "execute" /\ work[m] \in Routes
           /\ next[m] \in 1..Len(Parts[work[m]])
           /\ e = Parts[work[m]][next[m]]
  <2>1. e \in Footprint(work[m])
    BY <1>3 DEF Footprint, Way
  <2>2. Must(m, e)
    BY <1>3, <2>1 DEF Must, WorkNeeds
  <2>3. Seeking(m)
    BY <1>3, SeekingLabels
  <2>4. ~RideNeeds(m, e)
    BY <1>2, <2>1, <2>3, WorkApart
  <2> QED BY <1>1, <1>2, <1>3, <2>2, <2>4 DEF Holds
<1>4. CASE /\ UnlockMember(m) /\ pc[m] = "unlock" /\ work[m] \in Routes
           /\ next[m] \in 1..Len(AtUnlock[work[m]])
           /\ e = AtUnlock[work[m]][next[m]]
  <2>1. e \in Way(work[m])
    BY <1>4 DEF RelationsFit
  <2>2. caller[m] = "queue"
    BY <1>4 DEF UnlockPassed
  <2>3. Must(m, e)
    BY <1>4, <2>1, <2>2 DEF Must, PassedNeeds
  <2>4. second[m] = None /\ Unneeded(m, e)
    BY <1>2, <1>4, <2>1, <2>2 DEF JourneyOf, Passing, Leaving, Spare
  <2>5. ~RideNeeds(m, e)
    BY <2>4, SpareUnneeded
  <2> QED BY <1>1, <1>2, <1>4, <2>3, <2>5 DEF Holds
<1> QED BY <1>1, <1>3, <1>4, SwitchMoves

\* Only the execution of a route makes it one a train runs on.
LEMMA ActiveGrows ==
  ASSUME TypeInv, PendingInv, OwnPlans, [Next]_vars, NEW l \in Locos,
         NEW r \in Active(l)', r \notin Active(l)
  PROVE  RouteExecuted(l) /\ r = work[l]
<1> USE DEF TypeInv, TypeOK, TrainTypes
<1>1. Acts(l)
  BY WhoSteps DEF Rests, Active
<1>2. ASSUME UNCHANGED <<first, second>> PROVE FALSE
  BY <1>2 DEF Active
<1>3. CASE RouteExecuted(l)
  <2>1. r = work[l]
    BY <1>3, KindsDiffer DEF RouteExecuted, Active
  <2> QED BY <1>3, <2>1
<1>4. ASSUME ProcedureStep(l) PROVE RouteExecuted(l)
  BY <1>2, <1>4
     DEF ProcedureStep, CheckExecute, BeginExecute, ExecuteRefused,
         ExecuteMember, BeginRelease, UnlockMember, UnlockDone, UndoMember,
         RouteReleased, trainVars
<1>5. ~LocoStep(l)
  BY <1>2
     DEF LocoStep, ReserveMember, RouteReserved, CheckReserved, Dequeue,
         DecideReserve, DecideLock, DecideExecute, DecideRefused, LockMember,
         RouteLocked, UndoTrack, DropTrack, FreeTrack, FreeRoute, FreeDone,
         trainVars
<1>6. ~LocoBegins(l)
  <2>1. ~(ReachFirst(l) \/ ReachStop(l) \/ ReleaseLoco(l))
    BY DEF ReachFirst, ReachStop, ReleaseLoco, Active
  <2> QED
    BY <1>2, <2>1
       DEF LocoBegins, SearchRoute, AddTimeTable, PlaceLoco, PlanFollowUp,
           StartLoco, trainVars
<1> QED BY <1>1, <1>3, <1>4, <1>5, <1>6 DEF Acts

\* A route a train runs on stays so until its locomotive gives it back.
LEMMA ActiveKept ==
  ASSUME TypeInv, NEW l \in Locos, JourneyOf(l), Acts(l), NEW r \in Active(l)
  PROVE  \/ r \in Active(l)'
         \/ \E i \in 1..Len(freeRoutes'[l]) : r = freeRoutes'[l][i]
<1>1. CASE UNCHANGED <<first, second>>
  BY <1>1 DEF Active
<1>2. CASE RouteExecuted(l)
  <2>1. Seeking(l)
    BY <1>2, SeekingLabels DEF RouteExecuted
  <2>2. second[l] = None
    BY <2>1 DEF JourneyOf, Preparation
  <2>3. first[l] # None => first'[l] = first[l]
    BY <1>2, KindsDiffer DEF RouteExecuted, TypeInv, TypeOK, TrainTypes
  <2> QED BY <2>2, <2>3 DEF Active
<1>3. CASE ReleaseLoco(l) \/ ReachStop(l)
  <2>1. freeRoutes'[l] = Running(l)
    BY <1>3 DEF ReleaseLoco, ReachStop, TypeInv, TypeOK, TrainTypes
  <2> QED BY <2>1, RunningRoutes
<1>4. CASE ReachFirst(l)
  <2>1. freeRoutes'[l] = <<first[l]>> /\ first'[l] = second[l]
    BY <1>4 DEF ReachFirst, TypeInv, TypeOK, TrainTypes
  <2>2. r = first[l] => 1 \in 1..Len(freeRoutes'[l]) /\ r = freeRoutes'[l][1]
    BY <2>1
  <2> QED BY <2>1, <2>2 DEF Active
<1>5. ASSUME ProcedureStep(l)
      PROVE  UNCHANGED <<first, second>> \/ RouteExecuted(l)
  BY <1>5
     DEF ProcedureStep, CheckExecute, BeginExecute, ExecuteRefused,
         ExecuteMember, BeginRelease, UnlockMember, UnlockDone, UndoMember,
         RouteReleased, trainVars
<1>6. ASSUME LocoStep(l) PROVE UNCHANGED <<first, second>>
  BY <1>6
     DEF LocoStep, ReserveMember, RouteReserved, CheckReserved, Dequeue,
         DecideReserve, DecideLock, DecideExecute, DecideRefused, LockMember,
         RouteLocked, UndoTrack, DropTrack, FreeTrack, FreeRoute, FreeDone,
         trainVars
<1>7. ASSUME LocoBegins(l)
      PROVE  \/ UNCHANGED <<first, second>>
             \/ ReleaseLoco(l) \/ ReachStop(l) \/ ReachFirst(l)
  BY <1>7
     DEF LocoBegins, SearchRoute, AddTimeTable, PlaceLoco, PlanFollowUp,
         StartLoco, trainVars
<1>8. UNCHANGED <<first, second>> \/ RouteExecuted(l) \/ ReleaseLoco(l)
      \/ ReachStop(l) \/ ReachFirst(l)
  BY <1>5, <1>6, <1>7 DEF Acts
<1> QED BY <1>1, <1>2, <1>3, <1>4, <1>8

\* A route that is given back is released after the others before it.
LEMMA PassedKept ==
  ASSUME TypeInv, OwnPlans, NEW l \in Locos, Leaving(l), Acts(l)
  PROVE  \/ /\ freeRoutes'[l] = freeRoutes[l]
            /\ pc[l] = "unlock" => UnlockMember(l) \/ UnlockDone(l)
         \/ FreeRoute(l)
<1> USE DEF Leaving
<1>1. CASE ProcedureStep(l)
  BY <1>1
     DEF ProcedureStep, CheckExecute, BeginExecute, ExecuteRefused,
         ExecuteMember, RouteExecuted, BeginRelease, UnlockMember, UnlockDone,
         UndoMember, RouteReleased, queueVars
<1>2. CASE LocoStep(l)
  BY <1>2
     DEF LocoStep, ReserveMember, RouteReserved, CheckReserved, Dequeue,
         DecideReserve, DecideLock, DecideExecute, DecideRefused, LockMember,
         RouteLocked, UndoTrack, DropTrack, FreeTrack, FreeDone, queueVars
<1>3. ~LocoBegins(l)
  BY DEF LocoBegins, SearchRoute, AddTimeTable, PlaceLoco, PlanFollowUp,
         StartLoco, ReleaseLoco, ReachFirst, ReachStop, OwnPlans
<1> QED BY <1>1, <1>2, <1>3 DEF Acts

\* The relations "At unlock" of a route wait for the train that ran on it.
LEMMA AwaitsKept ==
  ASSUME TypeInv, OwnPlans, NEW l \in Locos, JourneyOf(l), Acts(l),
         NEW r \in Routes, atUnlock[r], atUnlock'[r], Awaits(l, r)
  PROVE  Awaits(l, r)'
<1>1. CASE r \in Active(l)
  BY <1>1, ActiveKept DEF Awaits
<1>2. CASE \E i \in 1..Len(freeRoutes[l]) : r = freeRoutes[l][i]
  <2>1. Leaving(l)
    BY <1>2 DEF JourneyOf, Passing
  <2>2. CASE freeRoutes'[l] = freeRoutes[l]
    BY <1>2, <2>2 DEF Awaits
  <2>3. CASE FreeRoute(l)
    <3>1. /\ freeRoutes[l] \in Seq(Routes) /\ freeRoutes[l] # <<>>
          /\ freeRoutes'[l] = Tail(freeRoutes[l])
          /\ work'[l] = Head(freeRoutes[l]) /\ caller'[l] = "queue"
          /\ atUnlock[Head(freeRoutes[l])] => pc'[l] = "unlock"
      BY <2>3 DEF FreeRoute, Enter, Proceed, Goto, ReleaseLabel, TypeInv,
                  TypeOK, TrainTypes, ThreadTypes, Threads
    <3>2. \/ r = Head(freeRoutes[l])
          \/ \E j \in 1..Len(freeRoutes'[l]) : r = freeRoutes'[l][j]
      BY <1>2, <3>1, TailCovers
    <3> QED BY <3>1, <3>2 DEF Awaits
  <2> QED BY <2>1, <2>2, <2>3, PassedKept
<1>3. CASE pc[l] = "unlock" /\ caller[l] = "queue" /\ r = work[l]
  <2>1. UnlockMember(l) \/ UnlockDone(l)
    BY <1>3, PassedKept DEF Leaving, FreeRoute
  <2>2. ~UnlockDone(l)
    BY <1>3 DEF UnlockDone, TypeInv, TypeOK, ItemTypes
  <2>3. pc'[l] = "unlock" /\ UNCHANGED <<work, caller>>
    BY <2>1, <2>2
       DEF UnlockMember, Proceed, Goto, TypeInv, TypeOK, ThreadTypes, Threads
  <2> QED BY <1>3, <2>3 DEF Awaits
<1> QED BY <1>1, <1>2, <1>3 DEF Awaits

\* Step by step, for every route.
LEMMA AwaitStep ==
  ASSUME TypeInv, PendingInv, OwnPlans, HandsOff, Journey,
         pc[Operator] = "idle", PendingOwned, [Next]_vars
  PROVE  PendingOwned'
<1> SUFFICES ASSUME NEW r \in Routes, atUnlock'[r]
             PROVE  \E l \in Locos : Awaits(l, r)'
  BY DEF PendingOwned
<1>1. CASE ~atUnlock[r]
  <2>1. PICK t \in Threads : RouteExecuted(t) /\ work[t] = r
    BY <1>1, ArmedStep
  <2>2. t \in Locos
    BY <2>1, OperatorRests DEF ProcedureStep, Threads
  <2>3. first'[t] = r \/ second'[t] = r
    BY <2>1, <2>2, KindsDiffer
       DEF RouteExecuted, TypeInv, TypeOK, TrainTypes
  <2> QED BY <2>2, <2>3, KindsDiffer DEF Awaits, Active, Lockables
<1>2. CASE atUnlock[r]
  <2>1. PICK l \in Locos : Awaits(l, r)
    BY <1>2 DEF PendingOwned
  <2>2. CASE Rests(l)
    BY <2>1, <2>2 DEF Rests, Awaits, Active
  <2>3. CASE Acts(l)
    BY <1>2, <2>1, <2>3, AwaitsKept DEF Journey, JourneyOf
  <2> QED BY <2>2, <2>3, WhoSteps
<1> QED BY <1>1, <1>2

\* Where the execution of relations begins.
LEMMA ExecutionEntered ==
  ASSUME TypeInv, OwnPlans, NEW l \in Locos, Acts(l)
  PROVE  /\ pc'[l] = "unlock" =>
              \/ UnlockMember(l) \/ FreeRoute(l)
              \/ /\ pc[l] \in {"reserve", "lock", "abort", "undoTrack"}
                 /\ atUnlock[work[l]]
         /\ pc'[l] = "execute" =>
              (BeginExecute(l) /\ next'[l] = 1) \/ ExecuteMember(l)
<1> USE DEF TypeInv, TypeOK, ThreadTypes, Threads, Proceed, Goto, Settle, Enter
<1>1. CASE ProcedureStep(l)
  <2>1. CASE CheckExecute(l) \/ ExecuteRefused(l) \/ RouteExecuted(l)
    BY <2>1, KindsDiffer
       DEF CheckExecute, ExecuteRefused, ExecuteFails, RouteExecuted
  <2>2. CASE BeginExecute(l)
    BY <2>2 DEF BeginExecute
  <2>3. CASE ExecuteMember(l)
    <3>1. pc'[l] # "unlock"
      BY <2>3, KindsDiffer DEF ExecuteMember, ExecuteFails
    <3> QED BY <2>3, <3>1
  <2>4. CASE BeginRelease(l) \/ UnlockMember(l) \/ UnlockDone(l)
             \/ UndoMember(l) \/ RouteReleased(l)
    BY <2>4 DEF BeginRelease, UnlockDone, UndoMember, RouteReleased,
                UnlockMember, ReturnFromRelease, ReleaseLabel
  <2> QED BY <1>1, <2>1, <2>2, <2>3, <2>4 DEF ProcedureStep
<1>2. CASE LocoStep(l)
  <2>1. CASE ReserveMember(l) \/ RouteReserved(l) \/ CheckReserved(l)
             \/ Dequeue(l) \/ DecideReserve(l) \/ DecideLock(l)
             \/ DecideExecute(l) \/ DecideRefused(l)
    BY <2>1 DEF ReserveMember, RouteReserved, CheckReserved, Dequeue,
                DecideReserve, DecideLock, DecideExecute, DecideRefused,
                EnterReserve, ReleaseLabel
  <2>2. CASE LockMember(l) \/ RouteLocked(l) \/ UndoTrack(l) \/ DropTrack(l)
             \/ FreeTrack(l) \/ FreeRoute(l) \/ FreeDone(l)
    BY <2>2 DEF LockMember, RouteLocked, UndoTrack, DropTrack, FreeTrack,
                FreeDone, threadVars, ReleaseLabel, FreeRoute
  <2> QED BY <1>2, <2>1, <2>2 DEF LocoStep
<1>3. ASSUME LocoBegins(l) PROVE pc'[l] \notin {"unlock", "execute"}
  <2>1. pc[l] = "idle"
    BY <1>3 DEF LocoBegins, SearchRoute, AddTimeTable, PlaceLoco, PlanFollowUp,
                StartLoco, ReleaseLoco, ReachFirst, ReachStop, OwnPlans
  <2> QED
    BY <1>3, <2>1
       DEF LocoBegins, SearchRoute, AddTimeTable, PlaceLoco, PlanFollowUp,
           StartLoco, ReleaseLoco, ReachFirst, ReachStop, EnterReserve,
           threadVars
<1> QED BY <1>1, <1>2, <1>3 DEF Acts

\* A route that is prepared has no relations "At unlock" pending.
LEMMA UnlockPassedStep ==
  ASSUME TypeInv, PendingInv, OwnPlans, RoutesApart, Journey, HoldInv,
         PendingOwned, UnlockPassed, [Next]_vars
  PROVE  UnlockPassed'
<1> SUFFICES ASSUME NEW l \in Locos, pc'[l] = "unlock" PROVE caller'[l] = "queue"
  BY DEF UnlockPassed
<1>1. CASE Rests(l)
  BY <1>1 DEF Rests, UnlockPassed
<1>2. CASE Acts(l)
  <2>1. CASE UnlockMember(l)
    BY <2>1 DEF UnlockMember, UnlockPassed
  <2>2. CASE FreeRoute(l)
    BY <2>2 DEF FreeRoute, Enter, TypeInv, TypeOK, ThreadTypes, Threads
  <2>3. CASE pc[l] \in {"reserve", "lock", "abort", "undoTrack"}
             /\ atUnlock[work[l]]
    <3>1. JourneyOf(l) /\ Seeking(l)
      BY <2>3, SeekingLabels DEF Journey, JourneyOf
    <3>2. /\ work[l] \in Routes /\ freeRoutes[l] = <<>>
          /\ ~RideNeeds(l, work[l])
      BY <3>1, WorkApart
    <3>3. PICK m \in Locos : Awaits(m, work[l])
      BY <2>3, <3>2 DEF PendingOwned
    <3>4. Must(m, work[l])
      BY <3>3 DEF Awaits, Must, RideNeeds, PassedNeeds, WorkNeeds, HoldsRoute
    <3>5. Must(l, work[l])
      BY <2>3 DEF Must, WorkNeeds, HoldsRoute
    <3>6. m = l
      BY <3>2, <3>4, <3>5 DEF HoldInv, Holding, Holds, Lockables
    <3> QED BY <2>3, <3>2, <3>3, <3>6 DEF Awaits, RideNeeds
  <2> QED BY <1>2, <2>1, <2>2, <2>3, ExecutionEntered
<1> QED BY <1>1, <1>2, WhoSteps

\* The switches a route has set stay set while it is executed.
LEMMA SetupStep ==
  ASSUME TypeInv, PendingInv, OwnPlans, RoutesApart, HandsOff, RelationsFit,
         Journey, HoldInv, SwitchInv, [Next]_vars
  PROVE  Setup'
<1> SUFFICES ASSUME NEW l \in Locos, pc'[l] = "execute",
                    NEW i \in 1..Len(Parts[work'[l]]), i < next'[l],
                    Parts[work'[l]][i] \in Elements \ Signals
             PROVE  position'[Parts[work'[l]][i]] = Setting[work'[l]][i]
  BY DEF Setup
<1>1. CASE Acts(l)
  <2>1. CASE BeginExecute(l) /\ next'[l] = 1
    BY <2>1
  <2>2. CASE ExecuteMember(l)
    <3>1. PICK r \in Routes, n \in Nat :
            /\ r = work[l] /\ n = next[l] /\ pc[l] = "execute"
            /\ n \in 1..Len(Parts[r])
      BY <2>2 DEF ExecuteMember, TypeInv, TypeOK, ThreadTypes, Threads, WorkOK,
                  RouteLabels, Labels
    <3>2. /\ work'[l] = r /\ next'[l] = n + 1
          /\ position' = IF Parts[r][n] \in Elements
                         THEN [position EXCEPT ![Parts[r][n]] = Setting[r][n]]
                         ELSE position
      BY <2>2, <3>1, KindsDiffer
         DEF ExecuteMember, ExecuteFails, Proceed, Goto, TypeInv, TypeOK,
             ThreadTypes, Threads
    <3>3. CASE Parts[r][i] = Parts[r][n]
      BY <3>1, <3>2, <3>3 DEF RelationsFit, TypeInv, TypeOK, ItemTypes
    <3>4. CASE Parts[r][i] # Parts[r][n]
      <4>1. i < n
        BY <3>2, <3>4
      <4>2. position[Parts[r][i]] = Setting[r][i]
        BY <3>1, <3>2, <4>1 DEF SwitchInv, Setup
      <4> QED BY <3>2, <3>4, <4>2 DEF TypeInv, TypeOK, ItemTypes
    <3> QED BY <3>3, <3>4
  <2> QED BY <1>1, <2>1, <2>2, ExecutionEntered
<1>2. CASE Rests(l) /\ ~Acts(l)
  <2>1. PICK r \in Routes : r = work[l] /\ pc[l] = "execute"
    BY <1>2 DEF Rests, TypeInv, WorkOK, RouteLabels, Labels, Threads
  <2>2. work'[l] = r /\ next'[l] = next[l]
    BY <1>2, <2>1 DEF Rests
  <2>3. position[Parts[r][i]] = Setting[r][i]
    BY <2>1, <2>2 DEF SwitchInv, Setup
  <2>4. Parts[r][i] \in Footprint(r)
    BY <2>2 DEF Footprint, Way
  <2>5. Must(l, Parts[r][i])
    BY <2>1, <2>4 DEF Must, WorkNeeds
  <2>6. lock[Parts[r][i]].owner = l
    BY <2>2, <2>5 DEF HoldInv, Holding, Holds, Lockables
  <2>7. position'[Parts[r][i]] = position[Parts[r][i]]
    BY <1>2, <2>2, <2>6, SwitchOwner DEF SwitchInv
  <2> QED BY <2>2, <2>3, <2>7
<1> QED BY <1>1, <1>2, WhoSteps

\* The switches of a route stay set while a train is on the route.
LEMMA SwitchesStep ==
  ASSUME TypeInv, PendingInv, OwnPlans, RoutesApart, HandsOff, RelationsFit,
         Journey, HoldInv, SwitchInv, [Next]_vars
  PROVE  SwitchesSet'
<1> SUFFICES ASSUME NEW l \in Locos, NEW r \in Active(l)',
                    NEW i \in 1..Len(Parts[r]),
                    Parts[r][i] \in Elements \ Signals
             PROVE  position'[Parts[r][i]] = Setting[r][i]
  BY DEF SwitchesSet
<1>1. CASE r \in Active(l)
  <2>1. position[Parts[r][i]] = Setting[r][i]
    BY <1>1 DEF SwitchInv, SwitchesSet
  <2>2. r \in Routes
    BY <1>1, TrainRoutes
  <2>3. Parts[r][i] \in HeldMembers(r)
    BY LayoutTypes, KindsDiffer DEF HeldMembers
  <2>4. RideNeeds(l, Parts[r][i])
    BY <1>1, <2>3 DEF RideNeeds
  <2>5. lock[Parts[r][i]].owner = l
    BY <2>4 DEF HoldInv, Holding, Holds, Must, Lockables
  <2>6. position'[Parts[r][i]] = position[Parts[r][i]]
    BY <2>4, <2>5, SwitchOwner DEF SwitchInv
  <2> QED BY <2>1, <2>6
<1>2. CASE r \notin Active(l)
  <2>1. RouteExecuted(l) /\ r = work[l]
    BY <1>2, ActiveGrows
  <2>2. /\ pc[l] = "execute" /\ next[l] > Len(Parts[r]) /\ position' = position
        /\ r \in Routes /\ next[l] \in Nat
    BY <2>1 DEF RouteExecuted, TypeInv, TypeOK, ThreadTypes, WorkOK,
                RouteLabels, Labels, Threads
  <2>3. i < next[l]
    BY <2>2, RelationTypes
  <2> QED BY <2>1, <2>2, <2>3 DEF SwitchInv, Setup
<1> QED BY <1>1, <1>2

\* Where every switch lies.
LEMMA SwitchInvariant ==
  OwnPlans /\ RoutesApart /\ HandsOff /\ RelationsFit => (Spec => []SwitchInv)
<1> SUFFICES ASSUME OwnPlans, RoutesApart, HandsOff, RelationsFit
             PROVE  Spec => []SwitchInv
  OBVIOUS
<1>1. Init => SwitchInv
  BY DEF Init, SwitchInv, PendingOwned, UnlockPassed, Setup, SwitchesSet, Active,
         Threads
<1>2. /\ TypeInv /\ PendingInv /\ Journey /\ HoldInv /\ SwitchInv
      /\ [Next]_vars
      => SwitchInv'
  <2> SUFFICES ASSUME TypeInv, PendingInv, Journey, HoldInv, SwitchInv,
                      [Next]_vars
               PROVE  SwitchInv'
    OBVIOUS
  <2>1. pc'[Operator] = "idle"
    BY OperatorRests DEF SwitchInv
  <2>2. PendingOwned' /\ UnlockPassed'
    BY AwaitStep, UnlockPassedStep DEF SwitchInv
  <2> QED BY <2>1, <2>2, SetupStep, SwitchesStep DEF SwitchInv
<1> QED BY JourneyInvariant, <1>1, <1>2, PTL DEF Spec

\* No switch and no accessory of a route moves away from the state the route
\* asks for while a train is on the route: neither another execution of the
\* route, nor the relations "At unlock" of any route, nor another train moves
\* it (Relation::Execute asks no lock).
THEOREM SwitchesStay ==
  OwnPlans /\ RoutesApart /\ HandsOff /\ RelationsFit => (Spec => []SwitchesSet)
BY SwitchInvariant, PTL DEF SwitchInv

(***************************************************************************)
(* The interlocking implements the abstract grants of routes                 *)
(***************************************************************************)

\* No track on the way of a route is released before the train has passed it.
WaysKept == \A r \in Routes : Way(r) \cap FreeingTracks = {}

OneTrain == \A r \in Routes : \A l, m \in Locos :
  r \in Active(l) /\ r \in Active(m) => l = m

\* A route is run by the train that owns it.
LEMMA OwnersDiffer == TypeInv /\ HoldInv => OneTrain
<1> SUFFICES ASSUME TypeInv, HoldInv, NEW r \in Routes, NEW l \in Locos,
                    NEW m \in Locos, r \in Active(l), r \in Active(m)
             PROVE  l = m
  BY DEF OneTrain
<1>1. Must(l, r) /\ Must(m, r)
  BY DEF Must, RideNeeds
<1> QED BY <1>1 DEF HoldInv, Holding, Holds, Lockables

\* The holder of a route is the train that runs on it.
HolderRuns == \A r \in Routes :
  /\ \A l \in Locos : r \in Active(l) => Holder(r) = l
  /\ (\A l \in Locos : r \notin Active(l)) => Holder(r) = None

\* If no two trains run on a route, its holder is well defined.
LEMMA HolderNow == OneTrain => HolderRuns
<1> SUFFICES ASSUME OneTrain, NEW r \in Routes
             PROVE  /\ \A l \in Locos : r \in Active(l) => Holder(r) = l
                    /\ (\A l \in Locos : r \notin Active(l)) => Holder(r) = None
  BY DEF HolderRuns
<1>1. ASSUME NEW l \in Locos, r \in Active(l) PROVE Holder(r) = l
  <2> DEFINE m == CHOOSE k \in Locos : r \in Active(k)
  <2>1. m \in Locos /\ r \in Active(m)
    BY <1>1
  <2>2. Holder(r) = m
    BY <1>1 DEF Holder
  <2> QED BY <1>1, <2>1, <2>2 DEF OneTrain
<1>2. ASSUME \A l \in Locos : r \notin Active(l) PROVE Holder(r) = None
  BY <1>2 DEF Holder
<1> QED BY <1>1, <1>2

\* A step does not operate elements and change the routes of a train.
LEMMA OneThing ==
  ASSUME [Next]_vars
  PROVE  position' = position \/ UNCHANGED <<first, second>>
<1>1. ASSUME NEW t, ProcedureStep(t)
      PROVE  position' = position \/ UNCHANGED <<first, second>>
  BY <1>1
     DEF ProcedureStep, CheckExecute, BeginExecute, ExecuteRefused,
         ExecuteMember, RouteExecuted, BeginRelease, UnlockMember, UnlockDone,
         UndoMember, RouteReleased, trainVars
<1>2. ASSUME NEW l, LocoStep(l)
      PROVE  UNCHANGED <<first, second>>
  BY <1>2
     DEF LocoStep, ReserveMember, RouteReserved, CheckReserved, Dequeue,
         DecideReserve, DecideLock, DecideExecute, DecideRefused, LockMember,
         RouteLocked, UndoTrack, DropTrack, FreeTrack, FreeRoute, FreeDone,
         trainVars
<1>3. ASSUME NEW l, LocoBegins(l) PROVE position' = position
  BY <1>3
     DEF LocoBegins, SearchRoute, AddTimeTable, PlaceLoco, PlanFollowUp,
         StartLoco, ReleaseLoco, ReachFirst, ReachStop
<1>4. ASSUME OperatorStep \/ Environment \/ UNCHANGED vars
      PROVE  UNCHANGED <<first, second>>
  BY <1>4
     DEF OperatorStep, OperatorExecutes, OperatorReleasesRoute, OperatorThrows,
         OperatorReleasesItem, ElementThrown, Operate, Environment,
         FeedbackFree, ForeignCommand, vars, trainVars
<1> QED BY <1>1, <1>2, <1>3, <1>4 DEF Next

\* A train needs all of a route it runs on.
LEMMA FootprintNeeded ==
  ASSUME TypeInv, WaysKept, NEW l \in Locos, NEW r \in Active(l),
         NEW x \in Footprint(r)
  PROVE  RideNeeds(l, x) /\ x \in Lockables
<1>1. r \in Routes
  BY TrainRoutes
<1>2. x \in HeldMembers(r)
  BY <1>1 DEF WaysKept, HeldMembers, Footprint, Way
<1> QED BY <1>1, <1>2, MembersLockable DEF RideNeeds, Lockables

\* A route that a train takes is nobody's, its switches lie right, and no other
\* train has a route that meets it.
LEMMA TakenRoute ==
  ASSUME TypeInv, OwnPlans, RoutesApart, WaysKept, Journey, HoldInv, SwitchInv,
         NEW l \in Locos, RouteExecuted(l)
  PROVE  /\ work[l] \in Routes
         /\ \A m \in Locos : work[l] \notin Active(m)
         /\ \A i \in 1..Len(Parts[work[l]]) :
              Parts[work[l]][i] \in Elements \ Signals =>
                position[Parts[work[l]][i]] = Setting[work[l]][i]
         /\ \A m \in Locos \ {l} : \A q \in Active(m) :
              Footprint(q) \cap Footprint(work[l]) = {}
<1>1. PICK r \in Routes : r = work[l]
  BY DEF RouteExecuted, TypeInv, WorkOK, RouteLabels, Labels, Threads
<1>2. /\ pc[l] = "execute" /\ next[l] > Len(Parts[r]) /\ next[l] \in Nat
      /\ Seeking(l) /\ JourneyOf(l)
  BY <1>1, SeekingLabels
     DEF RouteExecuted, Journey, JourneyOf, TypeInv, TypeOK, ThreadTypes, Threads
<1>3. \A x \in Footprint(r) \cup {r} :
        x \in Lockables /\ Must(l, x) /\ ~RideNeeds(l, x)
  <2>1. \A x \in Footprint(r) \cup {r} : x \in Lockables /\ Must(l, x)
    BY <1>1, <1>2, MembersLockable DEF Must, WorkNeeds, HoldsRoute, Lockables
  <2> QED BY <1>1, <1>2, <2>1, WorkApart
<1>4. \A x \in Footprint(r) \cup {r} : \A m \in Locos : ~RideNeeds(m, x)
  BY <1>3 DEF HoldInv, Holding, Holds, Must
<1>5. \A m \in Locos : r \notin Active(m)
  BY <1>4 DEF RideNeeds
<1>6. \A m \in Locos : \A q \in Active(m) : Footprint(q) \cap Footprint(r) = {}
  BY <1>4, FootprintNeeded
<1>7. \A i \in 1..Len(Parts[r]) : i < next[l]
  BY <1>2, RelationTypes
<1> QED BY <1>1, <1>2, <1>5, <1>6, <1>7 DEF SwitchInv, Setup

\* Every step of the interlocking is one of the abstract grants, or stutters.
LEMMA GrantStep ==
  ASSUME TypeInv, TypeInv', PendingInv, OwnPlans, RoutesApart, HandsOff,
         RelationsFit, WaysKept, Journey, HoldInv, SwitchInv, HolderRuns, HolderRuns',
         [Next]_vars
  PROVE  [Grants!Next]_(Grants!vars)
<1>1. CASE \E l \in Locos : RouteExecuted(l)
  <2>1. PICK l \in Locos : RouteExecuted(l)
    BY <1>1
  <2>2. PICK r \in Routes : r = work[l]
    BY <2>1, TakenRoute
  <2>3. Grants!Grant(l, r)
    <3>1. position' = position /\ r # None
      BY <2>1, KindsDiffer DEF RouteExecuted, Lockables
    <3>2. Holder(r) = None
      BY <2>1, <2>2, TakenRoute DEF HolderRuns
    <3>3. Active(l)' = Active(l) \cup {r}
      <4>1. Seeking(l)
        BY <2>1, SeekingLabels DEF RouteExecuted
      <4>2. second[l] = None
        BY <4>1 DEF Journey, Preparation
      <4> QED BY <2>1, <2>2, <3>1, <4>2, KindsDiffer
              DEF RouteExecuted, Active, TypeInv, TypeOK, TrainTypes
    <3>4. \A m \in Locos \ {l} : Active(m)' = Active(m)
      BY <2>1, KindsDiffer DEF RouteExecuted, Active, TypeInv, TypeOK, TrainTypes
    <3>5. Holder(r)' = l
      BY <3>3 DEF HolderRuns
    <3>6. ASSUME NEW q \in Routes, q # r PROVE Holder(q)' = Holder(q)
      <4>1. \A m \in Locos : q \in Active(m)' <=> q \in Active(m)
        BY <3>3, <3>4, <3>6
      <4> QED BY <4>1 DEF HolderRuns
    <3>7. Grants!Set(r)
      BY <2>1, <2>2, TakenRoute DEF Grants!Set, Grants!Switches
    <3>8. ASSUME NEW q \in Routes, Holder(q) # None, Holder(q) # l
          PROVE  Grants!Footprint(q) \cap Grants!Footprint(r) = {}
      <4>1. PICK m \in Locos : q \in Active(m)
        BY <3>8 DEF HolderRuns
      <4>2. m # l
        BY <3>8, <4>1 DEF HolderRuns
      <4>3. Footprint(q) \cap Footprint(r) = {}
        BY <2>1, <2>2, <4>1, <4>2, TakenRoute
      <4> QED BY <4>3 DEF Grants!Footprint, Footprint, Way
    <3> QED BY <3>1, <3>2, <3>5, <3>6, <3>7, <3>8
            DEF Grants!Grant, Grants!Granted
  <2> QED BY <2>3 DEF Grants!Next
<1>2. CASE ~(\E l \in Locos : RouteExecuted(l))
  <2>1. \A l \in Locos : \A r \in Active(l)' : r \in Active(l)
    BY <1>2, ActiveGrows
  <2>2. CASE position' = position
    <3> DEFINE gone == {r \in Routes : \A l \in Locos : r \notin Active(l)'}
    <3>1. ASSUME NEW r \in gone PROVE Holder(r)' = None
      BY DEF HolderRuns
    <3>2. ASSUME NEW r \in Routes \ gone PROVE Holder(r)' = Holder(r)
      <4>1. PICK l \in Locos : r \in Active(l)'
        OBVIOUS
      <4> QED BY <2>1, <4>1 DEF HolderRuns
    <3>3. Grants!Return(gone)
      BY <2>2, <3>1, <3>2 DEF Grants!Return
    <3> QED BY <3>3 DEF Grants!Next
  <2>3. CASE position' # position
    <3>1. \A l \in Locos : Active(l)' = Active(l)
      BY <2>3, OneThing DEF Active
    <3>2. ASSUME NEW r \in Routes PROVE Holder(r)' = Holder(r)
      BY <3>1 DEF HolderRuns
    <3>3. ASSUME NEW e \in Elements \ Signals, position'[e] # position[e],
                 NEW r \in Routes, Holder(r) # None
          PROVE  e \notin Grants!Footprint(r)
      <4>1. PICK l \in Locos : r \in Active(l)
        BY <3>3 DEF HolderRuns
      <4>2. SUFFICES ASSUME e \in Footprint(r) PROVE FALSE
        BY DEF Grants!Footprint, Footprint, Way
      <4>3. RideNeeds(l, e)
        BY <4>1, <4>2, FootprintNeeded
      <4>4. lock[e].owner = l
        BY <4>3 DEF HoldInv, Holding, Holds, Must, Lockables
      <4> QED BY <3>3, <4>3, <4>4, SwitchOwner DEF SwitchInv
    <3>4. Grants!Move
      BY <3>2, <3>3
         DEF Grants!Move, Grants!Switches, Grants!Granted, TypeInv, TypeOK,
             ItemTypes
    <3> QED BY <3>4 DEF Grants!Next
  <2> QED BY <2>2, <2>3
<1> QED BY <1>1, <1>2

\* The interlocking implements the abstract specification of module RouteGrant:
\* a route is granted to one train at a time, only while no other train holds a
\* route that meets it and only when its switches lie as it asks for, and no
\* switch of a granted route moves.
THEOREM GrantsImplemented ==
  OwnPlans /\ RoutesApart /\ HandsOff /\ RelationsFit /\ WaysKept =>
    (Spec => ImplementsRouteGrant)
<1> SUFFICES ASSUME OwnPlans, RoutesApart, HandsOff, RelationsFit, WaysKept
             PROVE  Spec => ImplementsRouteGrant
  OBVIOUS
<1>1. Init => Grants!Init
  <2> SUFFICES ASSUME Init PROVE Grants!Init
    OBVIOUS
  <2>1. \A l \in Locos : Active(l) = {}
    BY DEF Init, Active
  <2>2. \A r \in Routes : Holder(r) = None
    BY <2>1 DEF Holder
  <2> QED BY <2>2 DEF Grants!Init, Init
<1>2. TypeInv /\ HoldInv => HolderRuns
  BY OwnersDiffer, HolderNow
<1>3. /\ TypeInv /\ TypeInv' /\ PendingInv /\ Journey /\ HoldInv /\ SwitchInv
      /\ HolderRuns /\ HolderRuns' /\ [Next]_vars
      => [Grants!Next]_(Grants!vars)
  BY GrantStep
<1>4. Spec => [](TypeInv /\ PendingInv /\ Journey /\ HoldInv)
  BY JourneyInvariant, PTL
<1>5. Spec => []SwitchInv
  BY SwitchInvariant
<1> QED
  BY <1>1, <1>2, <1>3, <1>4, <1>5, PTL DEF Spec, ImplementsRouteGrant, Grants!Spec

(***************************************************************************)
(* Signals                                                                   *)
(***************************************************************************)
\* A locomotive that has left a track first gives the track back.
LEMMA TracksFirst ==
  ASSUME TypeInv, OwnPlans, NEW l \in Locos, Acts(l), freeTracks[l] # <<>>,
         pc[l] = "free"
  PROVE  FreeTrack(l)
<1>1. ~ProcedureStep(l)
  BY DEF ProcedureStep, CheckExecute, BeginExecute, ExecuteRefused,
         ExecuteMember, RouteExecuted, BeginRelease, UnlockMember, UnlockDone,
         UndoMember, RouteReleased
<1>2. LocoStep(l) => FreeTrack(l)
  BY DEF LocoStep, ReserveMember, RouteReserved, CheckReserved, Dequeue,
         DecideReserve, DecideLock, DecideExecute, DecideRefused, LockMember,
         RouteLocked, UndoTrack, DropTrack, FreeRoute, FreeDone
<1>3. ~LocoBegins(l)
  BY DEF LocoBegins, SearchRoute, AddTimeTable, PlaceLoco, PlanFollowUp,
         StartLoco, ReleaseLoco, ReachFirst, ReachStop, OwnPlans
<1> QED BY <1>1, <1>2, <1>3 DEF Acts

\* Which steps put tracks into the queue.
LEMMA TracksQueued ==
  ASSUME TypeInv, NEW l \in Locos, Acts(l), freeTracks'[l] # freeTracks[l]
  PROVE  FreeTrack(l) \/ pc'[l] = "free"
<1>1. ASSUME ProcedureStep(l) PROVE FALSE
  BY <1>1
     DEF ProcedureStep, CheckExecute, BeginExecute, ExecuteRefused,
         ExecuteMember, RouteExecuted, BeginRelease, UnlockMember, UnlockDone,
         UndoMember, RouteReleased, queueVars
<1>2. ASSUME LocoStep(l) PROVE FreeTrack(l)
  BY <1>2
     DEF LocoStep, ReserveMember, RouteReserved, CheckReserved, Dequeue,
         DecideReserve, DecideLock, DecideExecute, DecideRefused, LockMember,
         RouteLocked, UndoTrack, DropTrack, FreeRoute, FreeDone, queueVars
<1>3. ASSUME LocoBegins(l) PROVE ReleaseLoco(l) \/ ReachFirst(l) \/ ReachStop(l)
  BY <1>3
     DEF LocoBegins, SearchRoute, AddTimeTable, PlaceLoco, PlanFollowUp,
         StartLoco, queueVars
<1>4. CASE ReleaseLoco(l) \/ ReachFirst(l) \/ ReachStop(l)
  BY <1>4 DEF ReleaseLoco, ReachFirst, ReachStop, Goto, TypeInv, TypeOK,
              ThreadTypes, Threads
<1> QED BY <1>1, <1>2, <1>3, <1>4 DEF Acts

\* A signal is cleared by the execution of a route only.
LEMMA SignalMoves ==
  ASSUME TypeInv, PendingInv, OwnPlans, HandsOff, SignalsFit,
         pc[Operator] = "idle", [Next]_vars,
         NEW s \in Signals, position'[s] # position[s],
         position'[s] # StopAspect
  PROVE  \E l \in Locos :
           /\ pc[l] = "execute" /\ pc'[l] = "execute" /\ work'[l] = work[l]
           /\ work[l] \in Routes /\ next[l] \in 1..Len(Parts[work[l]])
           /\ next'[l] = next[l] + 1
           /\ s = Parts[work[l]][next[l]]
           /\ Setting[work[l]][next[l]] # StopAspect
<1> USE DEF TypeInv, TypeOK, ItemTypes, ThreadTypes, Threads
<1>0. s \in Elements
  BY LayoutTypes
<1>1. ASSUME NEW x, NEW id, ReleaseItem(x, id) PROVE FALSE
  BY <1>0, <1>1 DEF ReleaseItem, StopSignals
<1>2. ASSUME NEW l \in Locos, ProcedureStep(l)
      PROVE  ExecuteMember(l) \/ UnlockMember(l)
  BY <1>1, <1>2
     DEF ProcedureStep, CheckExecute, BeginExecute, ExecuteRefused,
         RouteExecuted, BeginRelease, UnlockDone, UndoMember, RouteReleased
<1>3. ASSUME NEW l \in Locos, LocoStep(l) PROVE FALSE
  BY <1>1, <1>3
     DEF LocoStep, ReserveMember, RouteReserved, CheckReserved, Dequeue,
         DecideReserve, DecideLock, DecideExecute, DecideRefused, LockMember,
         RouteLocked, UndoTrack, DropTrack, FreeTrack, FreeRoute, FreeDone
<1>4. ASSUME NEW l \in Locos, LocoBegins(l) PROVE FALSE
  BY <1>4
     DEF LocoBegins, SearchRoute, AddTimeTable, PlaceLoco, PlanFollowUp,
         StartLoco, ReleaseLoco, ReachFirst, ReachStop
<1>5. ASSUME Environment PROVE FALSE
  BY <1>1, <1>5 DEF Environment, FeedbackFree, ForeignCommand, HandsOff
<1>6. ~UNCHANGED vars
  BY DEF vars
<1>7. PICK l \in Locos : ExecuteMember(l) \/ UnlockMember(l)
  BY <1>2, <1>3, <1>4, <1>5, <1>6, OperatorRests DEF Next
<1>8. work[l] \in Routes /\ next[l] \in Nat \ {0}
  BY <1>7 DEF ExecuteMember, UnlockMember, WorkOK, RouteLabels, Labels
<1>9. CASE ExecuteMember(l)
  BY <1>0, <1>8, <1>9 DEF ExecuteMember, Proceed, Goto
<1>10. ASSUME UnlockMember(l) PROVE FALSE
  BY <1>0, <1>8, <1>10, RelationTypes DEF UnlockMember, SignalsFit
<1> QED BY <1>7, <1>9, <1>10

\* When a route becomes a passed one, the track it began at is given back.
LEMMA StartQueued ==
  ASSUME TypeInv, RoutesApart, NEW l \in Locos, JourneyOf(l), Acts(l),
         NEW r \in Active(l), r \notin Active(l)'
  PROVE  /\ lock' = lock
         /\ \E i \in 1..Len(freeTracks'[l]) : FromTrack[r] = freeTracks'[l][i]
<1>1. /\ r \in Routes /\ r # None
      /\ r = first[l] \/ r = second[l]
      /\ second[l] # None => first[l] # None /\ first[l] \in Routes
  BY TrainRoutes, KindsDiffer DEF Active, TypeInv, TrainOK, Lockables
<1>2. /\ first[l] # None => FromTrack[first[l]] = from[l]
      /\ second[l] # None => FromTrack[second[l]] = ToTrack[first[l]]
  BY DEF JourneyOf, Following
<1>3. \A q \in Routes : FromTrack[q] # ToTrack[q]
  BY DEF RoutesApart, Footprint
<1>4. second[l] # None /\ first[l] # None =>
        FromTrack[first[l]] # ToTrack[second[l]]
  BY <1>1, <1>2, TrainRoutes, Disjoint DEF Footprint
<1>5. ReleaseLoco(l) \/ ReachFirst(l) \/ ReachStop(l)
  <2>1. ASSUME UNCHANGED <<first, second>> PROVE FALSE
    BY <2>1 DEF Active
  <2>2. ~RouteExecuted(l)
    <3>1. ASSUME RouteExecuted(l) PROVE FALSE
      <4>1. Seeking(l)
        BY <3>1, SeekingLabels DEF RouteExecuted
      <4>2. second[l] = None
        BY <4>1 DEF JourneyOf, Preparation
      <4>3. first[l] # None => first'[l] = first[l]
        BY <3>1, KindsDiffer DEF RouteExecuted, TypeInv, TypeOK, TrainTypes
      <4> QED BY <1>1, <4>2, <4>3 DEF Active
    <3> QED BY <3>1
  <2>3. ~ProcedureStep(l)
    BY <2>1, <2>2
       DEF ProcedureStep, CheckExecute, BeginExecute, ExecuteRefused,
           ExecuteMember, BeginRelease, UnlockMember, UnlockDone, UndoMember,
           RouteReleased, trainVars
  <2>4. ~LocoStep(l)
    BY <2>1
       DEF LocoStep, ReserveMember, RouteReserved, CheckReserved, Dequeue,
           DecideReserve, DecideLock, DecideExecute, DecideRefused, LockMember,
           RouteLocked, UndoTrack, DropTrack, FreeTrack, FreeRoute, FreeDone,
           trainVars
  <2>5. LocoBegins(l)
    BY <2>3, <2>4 DEF Acts
  <2> QED
    BY <2>1, <2>5
       DEF LocoBegins, SearchRoute, AddTimeTable, PlaceLoco, PlanFollowUp,
           StartLoco, trainVars
<1>6. lock' = lock
  BY <1>5 DEF ReleaseLoco, ReachFirst, ReachStop
<1>7. CASE ReachFirst(l)
  <2>1. r = first[l]
    BY <1>1, <1>7 DEF ReachFirst, Active, TypeInv, TypeOK, TrainTypes
  <2>2. freeTracks'[l] = Left(from[l], ToTrack[first[l]])
    BY <1>7 DEF ReachFirst, TypeInv, TypeOK, TrainTypes
  <2>3. freeTracks'[l] = <<FromTrack[r]>>
    BY <1>1, <1>2, <1>3, <2>1, <2>2 DEF Left
  <2>4. 1 \in 1..Len(freeTracks'[l]) /\ FromTrack[r] = freeTracks'[l][1]
    BY <2>3
  <2> QED BY <1>6, <2>4
<1>8. CASE ReleaseLoco(l) \/ ReachStop(l)
  <2>1. FromTrack[r] = from[l] \/ (r = second[l] /\ FromTrack[r] = ToTrack[first[l]]
                                   /\ first[l] \in Active(l))
    BY <1>1, <1>2 DEF Active
  <2>2. from'[l] # FromTrack[r]
    <3>1. CASE ReleaseLoco(l)
      <4>1. from'[l] = None /\ FromTrack[r] \in Lockables
        BY <1>1, <3>1, MembersLockable
           DEF ReleaseLoco, TypeInv, TypeOK, TrainTypes
      <4> QED BY <4>1, KindsDiffer
    <3>2. CASE ReachStop(l)
      BY <1>1, <1>2, <1>3, <1>4, <3>2
         DEF ReachStop, TypeInv, TypeOK, TrainTypes
    <3> QED BY <1>8, <3>1, <3>2
  <2> QED BY <1>6, <1>8, <2>1, <2>2, PassedTracks
<1> QED BY <1>5, <1>7, <1>8

\* A cleared signal belongs to the locomotive it is cleared for.
LEMMA ClearedOwner ==
  ASSUME TypeInv, HoldInv, NEW l \in Locos, NEW s \in Signals, Cleared(l, s)
  PROVE  lock[s].owner = l
<1>1. s \in Elements /\ s \in Lockables /\ s \notin Tracks
  BY LayoutTypes, KindsDiffer DEF Lockables
<1>2. ASSUME NEW r \in Active(l), Clears(r, s) PROVE Must(l, s)
  BY <1>1, <1>2, LayoutTypes DEF Must, RideNeeds, HeldMembers, Clears
<1>3. ASSUME pc[l] = "execute",
             NEW i \in 1..Len(Parts[work[l]]), s = Parts[work[l]][i]
      PROVE  Must(l, s)
  BY <1>3 DEF Must, WorkNeeds, Footprint, Way
<1> QED BY <1>1, <1>2, <1>3 DEF Cleared, HoldInv, Holding, Holds

\* A cleared signal stays with its locomotive until it shows stop.
LEMMA ClearedKept ==
  ASSUME TypeInv, PendingInv, OwnPlans, RoutesApart, SignalsFit, Journey, HoldInv,
         SignalInv, NEW l \in Locos, Acts(l), NEW s \in Signals, Cleared(l, s),
         position'[s] = position[s], position[s] # StopAspect
  PROVE  Cleared(l, s)'
<1>1. s \in Elements /\ s \in Lockables /\ s \notin Tracks /\ JourneyOf(l)
  BY LayoutTypes, KindsDiffer DEF Lockables, Journey, JourneyOf
<1>2. lock[s].owner = l
  BY ClearedOwner
<1>3. ASSUME NEW r \in Active(l), Clears(r, s) PROVE Cleared(l, s)'
  <2>1. CASE r \in Active(l)'
    BY <1>3, <2>1 DEF Cleared, Clears
  <2>2. CASE r \notin Active(l)'
    <3>1. /\ lock' = lock
          /\ \E i \in 1..Len(freeTracks'[l]) : FromTrack[r] = freeTracks'[l][i]
      BY <1>1, <2>2, StartQueued
    <3>2. s \in TrackSignals[FromTrack[r]]
      BY <1>3, TrainRoutes DEF SignalsFit, Clears
    <3> QED BY <1>2, <3>1, <3>2 DEF Cleared
  <2> QED BY <2>1, <2>2
<1>4. ASSUME NEW i \in 1..Len(freeTracks[l]), s \in TrackSignals[freeTracks[l][i]]
      PROVE  Cleared(l, s)'
  <2>1. freeTracks[l] # <<>> /\ freeTracks[l] \in Seq(Tracks)
    BY DEF TypeInv, TypeOK, TrainTypes
  <2>2. FreeTrack(l)
    BY <2>1, TracksFirst DEF SignalInv
  <2>3. /\ ReleaseItem(Head(freeTracks[l]), l) /\ Head(freeTracks[l]) \in Tracks
        /\ freeTracks'[l] = Tail(freeTracks[l])
    BY <2>1, <2>2 DEF FreeTrack, TypeInv, TypeOK, TrainTypes
  <2>4. lock'[s] = lock[s]
    BY <1>1, <2>3 DEF ReleaseItem, TypeInv, TypeOK, ItemTypes
  <2>5. s \notin TrackSignals[Head(freeTracks[l])]
    BY <1>1, <1>2, <2>3 DEF ReleaseItem, StopSignals
  <2>6. /\ Head(freeTracks[l]) = freeTracks[l][1]
        /\ i # 1 => \E j \in 1..Len(Tail(freeTracks[l])) :
                      freeTracks[l][i] = Tail(freeTracks[l])[j]
    BY <2>1, TailCovers
  <2>7. \E j \in 1..Len(freeTracks'[l]) : s \in TrackSignals[freeTracks'[l][j]]
    BY <1>4, <2>3, <2>5, <2>6
  <2> QED BY <1>2, <2>4, <2>7 DEF Cleared
<1>5. ASSUME pc[l] = "execute",
             NEW i \in 1..Len(Parts[work[l]]), i < next[l],
             s = Parts[work[l]][i], Setting[work[l]][i] # StopAspect
      PROVE  Cleared(l, s)'
  <2>1. work[l] \in Routes /\ next[l] \in Nat
    BY <1>5 DEF TypeInv, TypeOK, ThreadTypes, WorkOK, RouteLabels, Labels, Threads
  <2>2. ExecuteMember(l) \/ RouteExecuted(l)
    <3>1. ~LocoStep(l)
      BY <1>5
         DEF LocoStep, ReserveMember, RouteReserved, CheckReserved, Dequeue,
             DecideReserve, DecideLock, DecideExecute, DecideRefused, LockMember,
             RouteLocked, UndoTrack, DropTrack, FreeTrack, FreeRoute, FreeDone
    <3>2. ~LocoBegins(l)
      BY <1>5
         DEF LocoBegins, SearchRoute, AddTimeTable, PlaceLoco, PlanFollowUp,
             StartLoco, ReleaseLoco, ReachFirst, ReachStop, OwnPlans
    <3> QED
      BY <1>5, <3>1, <3>2
         DEF Acts, ProcedureStep, CheckExecute, BeginExecute, ExecuteRefused,
             BeginRelease, UnlockMember, UnlockDone, UndoMember, RouteReleased
  <2>3. CASE RouteExecuted(l)
    <3>1. work[l] \in Active(l)'
      BY <2>1, <2>3, KindsDiffer
         DEF RouteExecuted, Active, TypeInv, TypeOK, TrainTypes, Lockables
    <3>2. Clears(work[l], s)
      BY <1>5 DEF Clears
    <3> QED BY <3>1, <3>2 DEF Cleared, Clears
  <2>4. CASE ExecuteMember(l)
    <3>1. /\ next[l] <= Len(Parts[work[l]])
          /\ \/ /\ pc'[l] = "execute" /\ next'[l] = next[l] + 1
                /\ work'[l] = work[l]
             \/ "refusal" \in Disturbances
      BY <1>5, <2>4
         DEF ExecuteMember, Proceed, Goto, TypeInv, TypeOK, ThreadTypes, Threads
    <3>2. "refusal" \notin Disturbances
      BY <1>5, <2>1, <3>1, RelationTypes DEF SignalsFit
    <3>3. i < next[l] + 1
      BY <1>5, <2>1
    <3> QED BY <1>5, <3>1, <3>2, <3>3 DEF Cleared
  <2> QED BY <2>2, <2>3, <2>4
<1> QED BY <1>3, <1>4, <1>5 DEF Cleared

\* Step by step.
LEMMA SignalStep ==
  ASSUME TypeInv, PendingInv, OwnPlans, RoutesApart, HandsOff, SignalsFit,
         Journey, HoldInv, SignalInv, [Next]_vars
  PROVE  SignalInv'
<1>1. pc'[Operator] = "idle"
  BY OperatorRests DEF SignalInv
<1>2. ASSUME NEW l \in Locos, freeTracks'[l] # <<>> PROVE pc'[l] = "free"
  <2>1. CASE Rests(l)
    BY <1>2, <2>1 DEF Rests, SignalInv
  <2>2. CASE Acts(l)
    <3>1. CASE FreeTrack(l)
      BY <3>1 DEF FreeTrack, threadVars
    <3>2. CASE freeTracks'[l] = freeTracks[l]
      BY <1>2, <2>2, <3>2, TracksFirst DEF SignalInv, FreeTrack, threadVars
    <3> QED BY <2>2, <3>1, <3>2, TracksQueued
  <2> QED BY <2>1, <2>2, WhoSteps
<1>3. ASSUME NEW s \in Signals, position'[s] # StopAspect
      PROVE  \E l \in Locos : Cleared(l, s)'
  <2>1. CASE position'[s] # position[s]
    <3>1. PICK l \in Locos :
           /\ pc[l] = "execute" /\ pc'[l] = "execute" /\ work'[l] = work[l]
           /\ work[l] \in Routes /\ next[l] \in 1..Len(Parts[work[l]])
           /\ next'[l] = next[l] + 1
           /\ s = Parts[work[l]][next[l]]
           /\ Setting[work[l]][next[l]] # StopAspect
      BY <1>3, <2>1, SignalMoves DEF SignalInv
    <3>2. PICK n \in Nat : n = next[l]
      BY <3>1
    <3>3. n \in 1..Len(Parts[work'[l]]) /\ n < next'[l]
      BY <3>1, <3>2
    <3> QED BY <3>1, <3>2, <3>3 DEF Cleared
  <2>2. CASE position'[s] = position[s]
    <3>1. PICK l \in Locos : Cleared(l, s)
      BY <1>3, <2>2 DEF SignalInv
    <3>2. CASE Acts(l)
      BY <1>3, <2>2, <3>1, <3>2, ClearedKept
    <3>3. ASSUME Rests(l), lock'[s] = lock[s] PROVE Cleared(l, s)'
      BY <3>1, <3>3 DEF Rests, Cleared, Active
    <3>4. CASE Rests(l) /\ LocksKept(l)
      <4>1. lock[s].owner = l /\ s \in Lockables
        BY <3>1, ClearedOwner, LayoutTypes DEF Lockables
      <4> QED BY <3>3, <3>4, <4>1 DEF LocksKept
    <3>5. CASE Rests(l) /\ \E t \in Tracks : FeedbackFree(t)
      <4>1. s \in Lockables /\ s \notin Tracks
        BY LayoutTypes, KindsDiffer DEF Lockables
      <4>2. lock'[s] = lock[s]
        BY <3>5, <4>1 DEF FeedbackFree, ReleaseItem, TypeInv, TypeOK, ItemTypes
      <4> QED BY <3>3, <3>5, <4>2
    <3> QED BY <3>2, <3>4, <3>5, WhoSteps
  <2> QED BY <2>1, <2>2
<1> QED BY <1>1, <1>2, <1>3 DEF SignalInv

\* A signal that does not show stop is locked by a train, also while the train
\* leaves the track behind it and while a route fails half way
\* (Track::StopAllSignals, Route::Execute).
THEOREM SignalsGuarded ==
  OwnPlans /\ RoutesApart /\ HandsOff /\ SignalsFit => (Spec => []SignalsProtect)
<1> SUFFICES ASSUME OwnPlans, RoutesApart, HandsOff, SignalsFit
             PROVE  Spec => []SignalsProtect
  OBVIOUS
<1>1. Init => SignalInv
  BY DEF Init, SignalInv, Threads
<1>2. /\ TypeInv /\ PendingInv /\ Journey /\ HoldInv /\ SignalInv
      /\ [Next]_vars
      => SignalInv'
  BY SignalStep
<1>3. TypeInv /\ HoldInv /\ SignalInv => SignalsProtect
  BY ClearedOwner, NoneIsNoLoco DEF SignalInv, SignalsProtect
<1> QED BY JourneyInvariant, <1>1, <1>2, <1>3, PTL DEF Spec
=============================================================================
