---------------------------- MODULE Interlocking ----------------------------
(***************************************************************************)
(* The interlocking of RailControl: how the automode threads of the          *)
(* locomotives reserve, lock, execute and release routes, and what the       *)
(* threads of the operator's web pages do to the same routes and elements.   *)
(*                                                                           *)
(* Every route has an updateMutex; Reserve, Lock, Execute and Release hold   *)
(* it and work through the members of the route one after the other.  Every  *)
(* member (the destination track, then the relations of tab "At lock") has   *)
(* a lock of its own, taken and left in one step.  Two routes that share a   *)
(* member therefore interleave member by member, and that is the grain of    *)
(* the actions below.                                                        *)
(***************************************************************************)
EXTENDS Naturals, Sequences, Lockable

CONSTANTS
  Tracks, Elements, Routes,  \* elements: switches, accessories and signals
  Signals,                   \* the elements that are signals
  TrackSignals,              \* the signals associated to a track
  FromTrack, ToTrack,        \* of a route
  Parts, Setting,            \* relations "At lock": objects, desired states
  AtUnlock, UnlockSetting,   \* relations "At unlock": objects, desired states
  FollowUp,                  \* a route, RouteAuto or RouteStop
  Positions, StopAspect,     \* states of an element; a signal at stop
  FreeingTracks,             \* tracks configured "Release when free"
  Disturbances,              \* what may interfere; see below
  MaxPlan,                   \* bound on the entries of a timetable
  RouteAuto, RouteStop, Operator

(***************************************************************************)
(* The interferences a configuration may switch on.                          *)
(*   "refusal"      a condition of a route fails, or the booster is off,     *)
(*                  after the route was reserved                             *)
(*   "timetable"    the operator adds routes to a locomotive's timetable     *)
(*   "removal"      a locomotive is taken from the layout although its       *)
(*                  timetable, which it keeps, has entries                   *)
(*   "executeRoute" the operator executes a route by hand                    *)
(*   "releaseRoute" the operator releases a route                            *)
(*   "releaseItem"  the operator releases a track or an element              *)
(*   "throwElement" the operator operates an element that is not in use      *)
(*   "foreign"      a command station reports a new state of an element      *)
(***************************************************************************)
AllDisturbances == {"refusal", "timetable", "removal", "executeRoute",
                    "releaseRoute", "releaseItem", "throwElement", "foreign"}

Lockables == Routes \cup Tracks \cup Elements

\* Where a timetable may lead after a route.
FollowUps == Routes \cup {RouteAuto, RouteStop}

Threads == Locos \cup {Operator}

ASSUME KindsDiffer ==
  /\ Routes \cap (Tracks \cup Elements) = {}
  /\ Tracks \cap Elements = {}
  /\ None \notin Lockables \cup {Operator}
  /\ Operator \notin Locos
  /\ RouteAuto # RouteStop
  /\ Routes \cap {RouteAuto, RouteStop} = {}

ASSUME LayoutTypes ==
  /\ Signals \subseteq Elements
  /\ TrackSignals \in [Tracks -> SUBSET Signals]
  /\ FromTrack \in [Routes -> Tracks]
  /\ ToTrack \in [Routes -> Tracks]
  /\ FollowUp \in [Routes -> FollowUps]
  /\ FreeingTracks \subseteq Tracks
  /\ Disturbances \subseteq AllDisturbances
  /\ MaxPlan \in Nat
  /\ StopAspect \in Positions

ASSUME RelationTypes ==
  \A r \in Routes :
    /\ Parts[r] \in Seq(Tracks \cup Elements)
    /\ Setting[r] \in Seq(Positions)
    /\ Len(Setting[r]) = Len(Parts[r])
    /\ AtUnlock[r] \in Seq(Elements)
    /\ UnlockSetting[r] \in Seq(Positions)
    /\ Len(UnlockSetting[r]) = Len(AtUnlock[r])

VARIABLES
  lock,        \* the lock of every lockable item
  mutex,       \* the thread inside the updateMutex of a route
  position,    \* the state of every element
  atUnlock,    \* executeAtUnlock of a route
  pc, work, next, caller,      \* where a thread is, on which item, who called
  inUse,       \* isInUse, as Route::Execute has read it before the mutex
  from, first, second,         \* trackFrom, routeFirst, routeSecond of a loco
  follow,      \* followUpRoute of a loco
  plan,        \* timeTableQueue of a loco
  freeTracks, freeRoutes       \* releaseTrackQueue, releaseRouteQueue

threadVars == <<pc, work, next, caller, inUse>>
trainVars  == <<from, first, second, follow>>
queueVars  == <<freeTracks, freeRoutes>>
vars == <<lock, mutex, position, atUnlock, threadVars, trainVars, plan,
          queueVars>>

(***************************************************************************)
(* Type definitions                                                          *)
(***************************************************************************)
Labels == {"idle", "reserve", "check", "dequeue", "decide", "lock", "ready",
           "enter", "execute", "abort", "undoTrack", "unlock", "undo",
           "dropTrack", "free", "throw"}

Callers == {"none", "search", "timetable", "drop", "queue", "operator"}

Entries == [route : Routes, after : FollowUps]

ItemTypes ==
  /\ lock \in [Lockables -> Locks]
  /\ mutex \in [Routes -> Threads \cup {None}]
  /\ position \in [Elements -> Positions]
  /\ atUnlock \in [Routes -> BOOLEAN]

ThreadTypes ==
  /\ pc \in [Threads -> Labels]
  /\ work \in [Threads -> Routes \cup Elements \cup {None}]
  /\ next \in [Threads -> Nat]
  /\ caller \in [Threads -> Callers]
  /\ inUse \in [Threads -> BOOLEAN]

TrainTypes ==
  /\ from \in [Locos -> Tracks \cup {None}]
  /\ first \in [Locos -> Routes \cup {None}]
  /\ second \in [Locos -> Routes \cup {None}]
  /\ follow \in [Locos -> FollowUps]
  /\ plan \in [Locos -> Seq(Entries)]
  /\ freeTracks \in [Locos -> Seq(Tracks)]
  /\ freeRoutes \in [Locos -> Seq(Routes)]

TypeOK == ItemTypes /\ ThreadTypes /\ TrainTypes

(***************************************************************************)
(* The initial state: nothing is locked, no locomotive stands on a track,    *)
(* signals show stop.                                                        *)
(***************************************************************************)
Init ==
  /\ lock = [x \in Lockables |-> FreeLock]
  /\ mutex = [r \in Routes |-> None]
  /\ position \in [Elements -> Positions]
  /\ \A s \in Signals : position[s] = StopAspect
  /\ atUnlock = [r \in Routes |-> FALSE]
  /\ pc = [t \in Threads |-> "idle"]
  /\ work = [t \in Threads |-> None]
  /\ next = [t \in Threads |-> 0]
  /\ caller = [t \in Threads |-> "none"]
  /\ inUse = [t \in Threads |-> FALSE]
  /\ from = [l \in Locos |-> None]
  /\ first = [l \in Locos |-> None]
  /\ second = [l \in Locos |-> None]
  /\ follow = [l \in Locos |-> RouteAuto]
  /\ plan = [l \in Locos |-> <<>>]
  /\ freeTracks = [l \in Locos |-> <<>>]
  /\ freeRoutes = [l \in Locos |-> <<>>]

(***************************************************************************)
(* Helpers                                                                   *)
(***************************************************************************)

\* The identifier a procedure runs with.  The operator executes a route with
\* the empty one; he releases it with a reference to the route's own owner.
Id(t) ==
  IF t # Operator THEN t
  ELSE IF pc[t] \in {"unlock", "undo"} THEN lock[work[t]].owner
  ELSE None

\* Member 0 of a route is its destination track, the others its relations.
Member(r, i) == IF i = 0 THEN ToTrack[r] ELSE Parts[r][i]

\* The track the next route of a locomotive has to start from.
EndTrack(l) == IF first[l] = None THEN from[l] ELSE ToTrack[first[l]]

\* Automode looks for a first and, while that is run, for a second route.
SeeksRoute(l) == from[l] # None /\ second[l] = None

\* A fault: the signals are left as they are.
StopNoSignals(t, id) == position

\* Track::StopAllSignals: signals locked by another locomotive are left alone.
StopSignals(t, id) ==
  [e \in Elements |->
     IF e \in TrackSignals[t] /\ lock[e].owner \in {None, id}
     THEN StopAspect ELSE position[e]]

\* Release of one item; a track also sets its signals to stop.
ReleaseItem(x, id) ==
  /\ lock' = [lock EXCEPT ![x] = Released(@, id)]
  /\ position' = IF x \in Tracks THEN StopSignals(x, id) ELSE position

Goto(t, label) == pc' = [pc EXCEPT ![t] = label]

\* The thread goes on, at the label, with item n of what it works on.
Proceed(t, label, n) == Goto(t, label) /\ next' = [next EXCEPT ![t] = n]

\* A procedure of thread t on route r starts, inside the mutex of r.
Enter(t, r, label, n, c) ==
  /\ mutex[r] = None
  /\ mutex' = [mutex EXCEPT ![r] = t]
  /\ work' = [work EXCEPT ![t] = r]
  /\ caller' = [caller EXCEPT ![t] = c]
  /\ Proceed(t, label, n)

Leave(t) == mutex' = [mutex EXCEPT ![work[t]] = None]

\* The thread is done with what it worked on.
Settle(t, label) ==
  /\ Proceed(t, label, 0)
  /\ work' = [work EXCEPT ![t] = None]
  /\ caller' = [caller EXCEPT ![t] = "none"]

\* Where Route::ReleaseInternal starts: with the relations "At unlock" if the
\* route was executed, with the release of its members otherwise.
ReleaseLabel(r) == IF atUnlock[r] THEN "unlock" ELSE "undo"

(***************************************************************************)
(* Route::Reserve                                                            *)
(***************************************************************************)

\* The route's own lock is taken first.  Conditions and booster may refuse at
\* any time before, which changes nothing: the caller tries another route or
\* the same one again.
EnterReserve(l, r, c) ==
  /\ CanReserve(lock[r], l)
  /\ Enter(l, r, "reserve", 0, c)
  /\ lock' = [lock EXCEPT ![r] = Reserved(@, l)]

\* SearchDestination with ReserveRoute: the timetable is empty, the train is
\* on its track, and a route starts there.
SearchRoute(l, r) ==
  /\ pc[l] = "idle" /\ SeeksRoute(l)
  /\ plan[l] = <<>> /\ follow[l] = RouteAuto
  /\ FromTrack[r] = EndTrack(l)
  /\ lock[EndTrack(l)].owner = l
  /\ EnterReserve(l, r, "search")
  /\ UNCHANGED <<position, atUnlock, inUse, trainVars, plan, queueVars>>

\* A member is reserved; a track may also refuse because it is blocked,
\* occupied or cannot take the orientation.
ReserveMember(l) ==
  LET r == work[l]
      x == Member(r, next[l])
  IN /\ pc[l] = "reserve" /\ next[l] <= Len(Parts[r])
     /\ \/ /\ CanReserve(lock[x], l)
           /\ lock' = [lock EXCEPT ![x] = Reserved(@, l)]
           /\ Proceed(l, "reserve", next[l] + 1)
        \/ /\ ~CanReserve(lock[x], l) \/ x \in Tracks
           /\ IF next[l] = 0 THEN Proceed(l, ReleaseLabel(r), 1)
                             ELSE Proceed(l, "undoTrack", 0)
           /\ UNCHANGED lock
     /\ UNCHANGED <<mutex, position, atUnlock, work, caller, inUse,
                    trainVars, plan, queueVars>>

RouteReserved(l) ==
  /\ pc[l] = "reserve" /\ next[l] > Len(Parts[work[l]])
  /\ Leave(l)
  /\ Proceed(l, "check", 0)
  /\ UNCHANGED <<lock, position, atUnlock, work, caller, inUse, trainVars,
                 plan, queueVars>>

\* The rest of ReserveRoute.  The orientation of the destination may refuse,
\* then route and destination are released again.  A route found by the
\* search goes to the end of the timetable, which is then served from its
\* front; a route of the timetable is executed.
CheckReserved(l) ==
  /\ pc[l] = "check"
  /\ \/ /\ caller[l] = "search"
        /\ plan' = [plan EXCEPT ![l] =
                      Append(@, [route |-> work[l],
                                 after |-> FollowUp[work[l]]])]
        /\ Goto(l, "dequeue")
        /\ UNCHANGED caller
     \/ /\ caller[l] = "timetable"
        /\ Goto(l, "ready")
        /\ UNCHANGED <<plan, caller>>
     \/ /\ Goto(l, "abort")
        /\ caller' = [caller EXCEPT ![l] = "drop"]
        /\ UNCHANGED plan
  /\ UNCHANGED <<lock, mutex, position, atUnlock, work, next, inUse,
                 trainVars, queueVars>>

(***************************************************************************)
(* The timetable                                                             *)
(***************************************************************************)

\* GetNextDestination with a follow-up route: it is not reserved here.
PlanFollowUp(l) ==
  /\ pc[l] = "idle" /\ SeeksRoute(l) /\ plan[l] = <<>>
  /\ follow[l] \in Routes
  /\ plan' = [plan EXCEPT ![l] = <<[route |-> follow[l],
                                    after |-> FollowUp[follow[l]]]>>]
  /\ Goto(l, "dequeue")
  /\ UNCHANGED <<lock, mutex, position, atUnlock, work, next, caller,
                 inUse, trainVars, queueVars>>

\* GetDestinationFromTimeTable: an entry that starts elsewhere is dropped.
\* An entry that fails later goes back to the front: it stays there until its
\* route is executed.
Dequeue(l) ==
  /\ pc[l] = "dequeue" \/ (pc[l] = "idle" /\ SeeksRoute(l))
  /\ plan[l] # <<>>
  /\ LET r == Head(plan[l]).route
     IN IF FromTrack[r] = EndTrack(l)
        THEN /\ Goto(l, "decide")
             /\ work' = [work EXCEPT ![l] = r]
             /\ UNCHANGED <<next, caller, plan>>
        ELSE /\ Settle(l, "idle")
             /\ plan' = [plan EXCEPT ![l] = Tail(@)]
  /\ UNCHANGED <<lock, mutex, position, atUnlock, inUse, trainVars,
                 queueVars>>

\* The operator appends a route to a timetable, for one ride or to go on.
AddTimeTable(l, r, a) ==
  /\ "timetable" \in Disturbances
  /\ Len(plan[l]) < MaxPlan
  /\ plan' = [plan EXCEPT ![l] = Append(@, [route |-> r, after |-> a])]
  /\ UNCHANGED <<lock, mutex, position, atUnlock, threadVars,
                 trainVars, queueVars>>

(***************************************************************************)
(* ExecuteRoute reads the state of the route's lock: free, it reserves the   *)
(* route and executes it without Lock; reserved, it locks and executes;      *)
(* locked already, by whomever, it only executes.                            *)
(***************************************************************************)
DecideReserve(l) ==
  /\ pc[l] = "decide" /\ lock[work[l]].state = "Free"
  /\ EnterReserve(l, work[l], "timetable")
  /\ UNCHANGED <<position, atUnlock, inUse, trainVars, plan, queueVars>>

DecideLock(l) ==
  /\ pc[l] = "decide" /\ lock[work[l]].state = "Reserved"
  /\ CanLock(lock[work[l]], l)
  /\ Enter(l, work[l], "lock", 0, "timetable")
  /\ lock' = [lock EXCEPT ![work[l]] = Locked(@)]
  /\ UNCHANGED <<position, atUnlock, inUse, trainVars, plan, queueVars>>

DecideExecute(l) ==
  /\ pc[l] = "decide" /\ lock[work[l]].state = "HardLocked"
  /\ Goto(l, "ready")
  /\ caller' = [caller EXCEPT ![l] = "timetable"]
  /\ UNCHANGED <<lock, mutex, position, atUnlock, work, next, inUse,
                 trainVars, plan, queueVars>>

\* Reserve or Lock is refused at its start: by the route's lock, or by the
\* booster or a condition.  The entry stays in the timetable.
DecideRefused(l) ==
  /\ pc[l] = "decide"
  /\ LET k == lock[work[l]]
     IN \/ k.state = "Reserved" /\ ~CanLock(k, l)
        \/ k.state # "HardLocked" /\ "refusal" \in Disturbances
  /\ Settle(l, "idle")
  /\ UNCHANGED <<lock, mutex, position, atUnlock, inUse, trainVars, plan,
                 queueVars>>

(***************************************************************************)
(* Route::Lock                                                               *)
(***************************************************************************)
LockMember(l) ==
  LET r == work[l]
      x == Member(r, next[l])
  IN /\ pc[l] = "lock" /\ next[l] <= Len(Parts[r])
     /\ IF CanLock(lock[x], l)
        THEN /\ lock' = [lock EXCEPT ![x] = Locked(@)]
             /\ Proceed(l, "lock", next[l] + 1)
        ELSE /\ IF next[l] = 0 THEN Proceed(l, ReleaseLabel(r), 1)
                               ELSE Proceed(l, "undoTrack", 0)
             /\ UNCHANGED lock
     /\ UNCHANGED <<mutex, position, atUnlock, work, caller, inUse,
                    trainVars, plan, queueVars>>

RouteLocked(l) ==
  /\ pc[l] = "lock" /\ next[l] > Len(Parts[work[l]])
  /\ Leave(l)
  /\ Proceed(l, "ready", 0)
  /\ UNCHANGED <<lock, position, atUnlock, work, caller, inUse, trainVars,
                 plan, queueVars>>

(***************************************************************************)
(* Route::Execute                                                            *)
(***************************************************************************)

\* A route in use is executed by its owner only; one that is not in use is
\* executed by anybody, whoever owns its members.
MayExecute(t) == ~InUse(lock[work[t]]) \/ lock[work[t]].owner = Id(t)

CheckExecute(t) ==
  /\ pc[t] = "ready" /\ MayExecute(t)
  /\ inUse' = [inUse EXCEPT ![t] = InUse(lock[work[t]])]
  /\ Goto(t, "enter")
  /\ UNCHANGED <<lock, mutex, position, atUnlock, work, next, caller,
                 trainVars, plan, queueVars>>

\* A fault: the execution starts with the second relation.
BeginExecuteLate(t) ==
  /\ pc[t] = "enter"
  /\ Enter(t, work[t], "execute", 2, caller[t])
  /\ UNCHANGED <<lock, position, atUnlock, inUse, trainVars, plan,
                 queueVars>>

\* A fault: Route::Execute does not wait for the mutex.
BeginExecuteUnguarded(t) ==
  /\ pc[t] = "enter"
  /\ mutex' = [mutex EXCEPT ![work[t]] = t]
  /\ Proceed(t, "execute", 1)
  /\ UNCHANGED <<lock, position, atUnlock, work, caller, inUse, trainVars,
                 plan, queueVars>>

\* The lock may have changed while the thread waited for the mutex.
BeginExecute(t) ==
  /\ pc[t] = "enter"
  /\ Enter(t, work[t], "execute", 1, caller[t])
  /\ UNCHANGED <<lock, position, atUnlock, inUse, trainVars, plan,
                 queueVars>>

\* A locomotive releases a route it could not execute, and then its track.
ExecuteFails(t) ==
  IF t = Operator
  THEN Settle(t, "idle")
  ELSE /\ Proceed(t, "abort", 0)
       /\ caller' = [caller EXCEPT ![t] = "drop"]
       /\ UNCHANGED work

ExecuteRefused(t) ==
  /\ pc[t] = "ready"
  /\ ~MayExecute(t) \/ "refusal" \in Disturbances
  /\ ExecuteFails(t)
  /\ UNCHANGED <<lock, mutex, position, atUnlock, inUse, trainVars, plan,
                 queueVars>>

\* Relation::Execute on the next member, by force: its lock is not asked.
ExecuteMember(t) ==
  LET r == work[t]
      e == Parts[r][next[t]]
  IN /\ pc[t] = "execute" /\ next[t] <= Len(Parts[r])
     /\ \/ /\ position' = IF e \in Elements
                          THEN [position EXCEPT ![e] = Setting[r][next[t]]]
                          ELSE position
           /\ Proceed(t, "execute", next[t] + 1)
           /\ UNCHANGED <<mutex, work, caller, inUse>>
        \/ /\ "refusal" \in Disturbances
           /\ ExecuteFails(t)
           /\ Leave(t)
           /\ inUse' = [inUse EXCEPT ![t] = FALSE]
           /\ UNCHANGED position
     /\ UNCHANGED <<lock, atUnlock, trainVars, plan, queueVars>>

\* All members are set.  A locomotive takes the route as its first or second
\* (PrepareDestinationFirst, PrepareDestinationSecond) and drives.
RouteExecuted(t) ==
  LET r == work[t]
  IN /\ pc[t] = "execute" /\ next[t] > Len(Parts[r])
     /\ Leave(t)
     /\ Settle(t, "idle")
     /\ atUnlock' = [atUnlock EXCEPT ![r] = @ \/ inUse[t]]
     /\ inUse' = [inUse EXCEPT ![t] = FALSE]
     /\ IF t = Operator
        THEN UNCHANGED <<trainVars, plan>>
        ELSE /\ IF first[t] = None
                THEN first' = [first EXCEPT ![t] = r] /\ UNCHANGED second
                ELSE second' = [second EXCEPT ![t] = r] /\ UNCHANGED first
             /\ follow' = [follow EXCEPT ![t] = Head(plan[t]).after]
             /\ plan' = [plan EXCEPT ![t] = Tail(@)]
             /\ UNCHANGED from
     /\ UNCHANGED <<lock, position, queueVars>>

(***************************************************************************)
(* Route::Release and its variants                                           *)
(***************************************************************************)

\* Route::Release waits for the mutex.
BeginRelease(t) ==
  /\ pc[t] = "abort"
  /\ Enter(t, work[t], ReleaseLabel(work[t]), 1, caller[t])
  /\ UNCHANGED <<lock, position, atUnlock, inUse, trainVars, plan,
                 queueVars>>

\* A fault: ReleaseInternal is called instead.
UndoTrackNot(l) ==
  /\ pc[l] = "undoTrack"
  /\ Proceed(l, ReleaseLabel(work[l]), 1)
  /\ UNCHANGED <<lock, mutex, position, atUnlock, work, caller, inUse,
                 trainVars, plan, queueVars>>

\* ReleaseInternalWithToTrack frees the destination first.
UndoTrack(l) ==
  /\ pc[l] = "undoTrack"
  /\ ReleaseItem(ToTrack[work[l]], l)
  /\ Proceed(l, ReleaseLabel(work[l]), 1)
  /\ UNCHANGED <<mutex, atUnlock, work, caller, inUse, trainVars, plan,
                 queueVars>>

\* The relations "At unlock" are executed, by force; failures are ignored.
UnlockMember(t) ==
  LET r == work[t]
      i == next[t]
  IN /\ pc[t] = "unlock" /\ i <= Len(AtUnlock[r])
     /\ \/ position' = [position EXCEPT
                          ![AtUnlock[r][i]] = UnlockSetting[r][i]]
        \/ "refusal" \in Disturbances /\ UNCHANGED position
     /\ Proceed(t, "unlock", i + 1)
     /\ UNCHANGED <<lock, mutex, atUnlock, work, caller, inUse, trainVars,
                    plan, queueVars>>

\* A fault: executeAtUnlock is not reset.
UnlockDoneStays(t) ==
  /\ pc[t] = "unlock" /\ next[t] > Len(AtUnlock[work[t]])
  /\ Proceed(t, "undo", 1)
  /\ UNCHANGED <<lock, mutex, position, atUnlock, work, caller, inUse,
                 trainVars, plan, queueVars>>

UnlockDone(t) ==
  /\ pc[t] = "unlock" /\ next[t] > Len(AtUnlock[work[t]])
  /\ atUnlock' = [atUnlock EXCEPT ![work[t]] = FALSE]
  /\ Proceed(t, "undo", 1)
  /\ UNCHANGED <<lock, mutex, position, work, caller, inUse, trainVars,
                 plan, queueVars>>

\* A fault: the loop does not advance.
UndoMemberAgain(t) ==
  /\ pc[t] = "undo" /\ next[t] <= Len(Parts[work[t]])
  /\ ReleaseItem(Parts[work[t]][next[t]], Id(t))
  /\ UNCHANGED <<mutex, atUnlock, threadVars, trainVars, plan,
                 queueVars>>

\* Every member is released, whether or not this route reserved it.
UndoMember(t) ==
  LET r == work[t]
  IN /\ pc[t] = "undo" /\ next[t] <= Len(Parts[r])
     /\ ReleaseItem(Parts[r][next[t]], Id(t))
     /\ Proceed(t, "undo", next[t] + 1)
     /\ UNCHANGED <<mutex, atUnlock, work, caller, inUse, trainVars, plan,
                    queueVars>>

\* At last the route's own lock, and back to the caller.
ReturnFromRelease(t) ==
  CASE caller[t] = "drop"  -> Goto(t, "dropTrack") /\ UNCHANGED <<work, next,
                                                                  caller>>
    [] caller[t] = "queue" -> Settle(t, "free")
    [] OTHER               -> Settle(t, "idle")

RouteReleased(t) ==
  /\ pc[t] = "undo" /\ next[t] > Len(Parts[work[t]])
  /\ lock' = [lock EXCEPT ![work[t]] = Released(@, Id(t))]
  /\ Leave(t)
  /\ ReturnFromRelease(t)
  /\ UNCHANGED <<position, atUnlock, inUse, trainVars, plan, queueVars>>

\* After a failed ReserveRoute or ExecuteRoute the destination is released.
DropTrack(l) ==
  /\ pc[l] = "dropTrack"
  /\ ReleaseItem(ToTrack[work[l]], l)
  /\ Settle(l, "idle")
  /\ UNCHANGED <<mutex, atUnlock, inUse, trainVars, plan, queueVars>>

(***************************************************************************)
(* The train                                                                 *)
(***************************************************************************)

\* Manager::LocoBaseIntoTrack: ReserveForce, SetTrack and Lock of a free track.
PlaceLoco(l, t) ==
  /\ pc[l] = "idle" /\ from[l] = None /\ ~InUse(lock[t])
  /\ lock' = [lock EXCEPT ![t] = Locked(Reserved(@, l))]
  /\ from' = [from EXCEPT ![l] = t]
  /\ UNCHANGED <<mutex, position, atUnlock, threadVars, first,
                 second, follow, plan, queueVars>>

\* The locomotive was stopped and is started again.
StartLoco(l) ==
  /\ pc[l] = "idle" /\ from[l] # None /\ first[l] = None
  /\ follow' = [follow EXCEPT ![l] = RouteAuto]
  /\ UNCHANGED <<lock, mutex, position, atUnlock, threadVars, from,
                 first, second, plan, queueVars>>

\* A fault: the track that is reached is given back, not the one that is left.
LeftWrong(a, b) == IF a = b THEN <<>> ELSE <<b>>

\* The tracks ShiftRoute leaves, from track a to track b; none on a circle.
Left(a, b) == IF a = b THEN <<>> ELSE <<a>>

\* A fault: the route that goes on is released, not the one that ends.
ReachFirstWrong(l) ==
  /\ pc[l] = "idle" /\ second[l] # None
  /\ LET b == ToTrack[first[l]]
     IN /\ from' = [from EXCEPT ![l] = b]
        /\ freeTracks' = [freeTracks EXCEPT ![l] = Left(from[l], b)]
  /\ freeRoutes' = [freeRoutes EXCEPT ![l] = <<second[l]>>]
  /\ first' = [first EXCEPT ![l] = second[l]]
  /\ second' = [second EXCEPT ![l] = None]
  /\ Goto(l, "free")
  /\ UNCHANGED <<lock, mutex, position, atUnlock, work, next, caller, inUse,
                 follow, plan>>

\* The routes a locomotive has taken, the first one first.
Running(l) ==
  (IF first[l] = None THEN <<>> ELSE <<first[l]>>)
  \o (IF second[l] = None THEN <<>> ELSE <<second[l]>>)

\* FeedbackIdFirstReached: the second route becomes the first one.
ReachFirst(l) ==
  /\ pc[l] = "idle" /\ second[l] # None
  /\ LET b == ToTrack[first[l]]
     IN /\ from' = [from EXCEPT ![l] = b]
        /\ freeTracks' = [freeTracks EXCEPT ![l] = Left(from[l], b)]
  /\ freeRoutes' = [freeRoutes EXCEPT ![l] = <<first[l]>>]
  /\ first' = [first EXCEPT ![l] = second[l]]
  /\ second' = [second EXCEPT ![l] = None]
  /\ Goto(l, "free")
  /\ UNCHANGED <<lock, mutex, position, atUnlock, work, next, caller,
                 inUse, follow, plan>>

\* A fault: both routes are released, though there may be no second one.
ReachStopBoth(l) ==
  /\ pc[l] = "idle" /\ first[l] # None
  /\ from' = [from EXCEPT ![l] = ToTrack[first[l]]]
  /\ freeTracks' = [freeTracks EXCEPT ![l] = Left(from[l], ToTrack[first[l]])]
  /\ freeRoutes' = [freeRoutes EXCEPT ![l] = <<first[l], second[l]>>]
  /\ first' = [first EXCEPT ![l] = None]
  /\ second' = [second EXCEPT ![l] = None]
  /\ Goto(l, "free")
  /\ UNCHANGED <<lock, mutex, position, atUnlock, work, next, caller, inUse,
                 follow, plan>>

\* FeedbackIdStopReached: the destination of the last route is reached, and
\* every track before it is left.
ReachStop(l) ==
  /\ pc[l] = "idle" /\ first[l] # None
  /\ LET b == ToTrack[first[l]]
     IN IF second[l] = None
        THEN /\ from' = [from EXCEPT ![l] = b]
             /\ freeTracks' = [freeTracks EXCEPT ![l] = Left(from[l], b)]
        ELSE /\ from' = [from EXCEPT ![l] = ToTrack[second[l]]]
             /\ freeTracks' = [freeTracks EXCEPT ![l] =
                   Left(from[l], b) \o Left(b, ToTrack[second[l]])]
  /\ freeRoutes' = [freeRoutes EXCEPT ![l] = Running(l)]
  /\ first' = [first EXCEPT ![l] = None]
  /\ second' = [second EXCEPT ![l] = None]
  /\ Goto(l, "free")
  /\ UNCHANGED <<lock, mutex, position, atUnlock, work, next, caller, inUse,
                 follow, plan>>

\* LocoBase::Release: the operator takes the locomotive from the layout.  Its
\* thread has ended before, so the queues are worked off in its place.  The
\* timetable is kept.
ReleaseLoco(l) ==
  /\ pc[l] = "idle" /\ from[l] # None
  /\ plan[l] = <<>> \/ "removal" \in Disturbances
  /\ freeRoutes' = [freeRoutes EXCEPT ![l] = Running(l)]
  /\ freeTracks' = [freeTracks EXCEPT ![l] =
        <<from[l]>> \o [i \in 1..Len(Running(l)) |-> ToTrack[Running(l)[i]]]]
  /\ from' = [from EXCEPT ![l] = None]
  /\ first' = [first EXCEPT ![l] = None]
  /\ second' = [second EXCEPT ![l] = None]
  /\ Goto(l, "free")
  /\ UNCHANGED <<lock, mutex, position, atUnlock, work, next, caller, inUse,
                 follow, plan>>

\* ReleaseRouteAndTrack: first the tracks, then the routes.
FreeTrack(l) ==
  /\ pc[l] = "free" /\ freeTracks[l] # <<>>
  /\ ReleaseItem(Head(freeTracks[l]), l)
  /\ freeTracks' = [freeTracks EXCEPT ![l] = Tail(@)]
  /\ UNCHANGED <<mutex, atUnlock, threadVars, trainVars, plan,
                 freeRoutes>>

FreeRoute(l) ==
  /\ pc[l] = "free" /\ freeTracks[l] = <<>> /\ freeRoutes[l] # <<>>
  /\ LET r == Head(freeRoutes[l])
     IN Enter(l, r, ReleaseLabel(r), 1, "queue")
  /\ freeRoutes' = [freeRoutes EXCEPT ![l] = Tail(@)]
  /\ UNCHANGED <<lock, position, atUnlock, inUse, trainVars, plan,
                 freeTracks>>

FreeDone(l) ==
  /\ pc[l] = "free" /\ freeTracks[l] = <<>> /\ freeRoutes[l] = <<>>
  /\ Goto(l, "idle")
  /\ UNCHANGED <<lock, mutex, position, atUnlock, work, next, caller,
                 inUse, trainVars, plan, queueVars>>

(***************************************************************************)
(* Feedbacks and the operator                                                *)
(***************************************************************************)

\* The locomotive's thread is outside the part of its loop that is protected
\* by its stateMutex.
OutsideTick(l) ==
  \/ pc[l] \in {"idle", "free"}
  \/ pc[l] \in {"unlock", "undo"} /\ caller[l] = "queue"

\* "Release when free": the last feedback of a track becomes free.
FeedbackFree(t) ==
  LET l == lock[t].owner
  IN /\ t \in FreeingTracks /\ l # None
     /\ OutsideTick(l)
     /\ ~(from[l] = t /\ first[l] = None)
     /\ \A r \in {first[l], second[l]} \ {None} : ToTrack[r] # t
     /\ ReleaseItem(t, l)
     /\ UNCHANGED <<mutex, atUnlock, threadVars, trainVars, plan,
                    queueVars>>

\* The operator's thread starts on item x.
Operate(x, label) ==
  /\ pc[Operator] = "idle"
  /\ Proceed(Operator, label, 0)
  /\ work' = [work EXCEPT ![Operator] = x]
  /\ caller' = [caller EXCEPT ![Operator] = "operator"]
  /\ UNCHANGED <<lock, mutex, position, atUnlock, inUse, trainVars, plan,
                 queueVars>>

\* Manager::RouteExecuteAsync.
OperatorExecutes(r) ==
  "executeRoute" \in Disturbances /\ Operate(r, "ready")

\* Manager::RouteRelease.
OperatorReleasesRoute(r) ==
  "releaseRoute" \in Disturbances /\ Operate(r, "abort")

\* Manager::SwitchState and its siblings test IsInUse first.
OperatorThrows(e) ==
  "throwElement" \in Disturbances /\ ~InUse(lock[e]) /\ Operate(e, "throw")

ElementThrown ==
  /\ pc[Operator] = "throw"
  /\ \E p \in Positions :
       position' = [position EXCEPT ![work[Operator]] = p]
  /\ Settle(Operator, "idle")
  /\ UNCHANGED <<lock, mutex, atUnlock, inUse, trainVars, plan, queueVars>>

\* Manager::TrackRelease and SignalRelease pass the empty identifier,
\* SwitchRelease and AccessoryRelease a reference to the owner: each frees the
\* item whoever holds it.
OperatorReleasesItem(x) ==
  /\ "releaseItem" \in Disturbances
  /\ ReleaseItem(x, None)
  /\ UNCHANGED <<mutex, atUnlock, threadVars, trainVars, plan, queueVars>>

\* Manager::AccessoryBaseState: a command station reports an element's state.
ForeignCommand(e, p) ==
  /\ "foreign" \in Disturbances
  /\ position' = [position EXCEPT ![e] = p]
  /\ UNCHANGED <<lock, mutex, atUnlock, threadVars, trainVars, plan,
                 queueVars>>

(***************************************************************************)
(* The specification                                                         *)
(***************************************************************************)

\* The procedures of class Route, run by locomotives and by the operator.
ProcedureStep(t) ==
  \/ CheckExecute(t) \/ BeginExecute(t) \/ ExecuteRefused(t)
  \/ ExecuteMember(t) \/ RouteExecuted(t) \/ BeginRelease(t)
  \/ UnlockMember(t) \/ UnlockDone(t)
  \/ UndoMember(t) \/ RouteReleased(t)

\* What the thread of a locomotive does once it has begun with a route.
LocoStep(l) ==
  \/ ReserveMember(l) \/ RouteReserved(l) \/ CheckReserved(l) \/ Dequeue(l)
  \/ DecideReserve(l) \/ DecideLock(l) \/ DecideExecute(l) \/ DecideRefused(l)
  \/ LockMember(l) \/ RouteLocked(l) \/ UndoTrack(l) \/ DropTrack(l)
  \/ FreeTrack(l) \/ FreeRoute(l) \/ FreeDone(l)

\* What begins something new: it depends on the layout, the train or a person.
LocoBegins(l) ==
  \/ \E r \in Routes : SearchRoute(l, r)
  \/ \E r \in Routes, a \in {RouteAuto, RouteStop} : AddTimeTable(l, r, a)
  \/ \E t \in Tracks : PlaceLoco(l, t)
  \/ PlanFollowUp(l) \/ StartLoco(l) \/ ReleaseLoco(l)
  \/ ReachFirst(l) \/ ReachStop(l)

OperatorStep ==
  \/ \E r \in Routes : OperatorExecutes(r) \/ OperatorReleasesRoute(r)
  \/ \E e \in Elements : OperatorThrows(e)
  \/ \E x \in Tracks \cup Elements : OperatorReleasesItem(x)
  \/ ElementThrown

Environment ==
  \/ \E t \in Tracks : FeedbackFree(t)
  \/ \E e \in Elements, p \in Positions : ForeignCommand(e, p)

Next ==
  \/ \E t \in Threads : ProcedureStep(t)
  \/ \E l \in Locos : LocoStep(l) \/ LocoBegins(l)
  \/ OperatorStep
  \/ Environment

Spec == Init /\ [][Next]_vars

\* Threads go on with what they have begun; trains and persons need not.
FairSpec ==
  /\ Spec
  /\ \A t \in Threads : WF_vars(ProcedureStep(t))
  /\ \A l \in Locos : WF_vars(LocoStep(l))

(***************************************************************************)
(* Properties                                                                *)
(***************************************************************************)

\* The routes a train runs on or is about to run on.
Active(l) == {first[l], second[l]} \ {None}

\* The members of a route; a track that is released when free is not held to
\* the end, except as a destination.
HeldMembers(r) ==
  {ToTrack[r]}
  \cup {Parts[r][i] : i \in {j \in 1..Len(Parts[r]) :
                               Parts[r][j] \notin FreeingTracks}}

\* A train runs on routes that are its own with every element on the way and
\* with the destination (LocoBase.cpp, ExecuteRoute before the loco starts).
RouteComplete ==
  \A l \in Locos : \A r \in Active(l) :
    \A x \in HeldMembers(r) \cup {r} : lock[x].owner = l

\* No switch and no accessory of a route moves away from the state the route
\* asks for while a train is on the route (Relation::Execute).
SwitchesSet ==
  \A l \in Locos : \A r \in Active(l) : \A i \in 1..Len(Parts[r]) :
    Parts[r][i] \in Elements \ Signals =>
      position[Parts[r][i]] = Setting[r][i]

\* The track a train stands on, or leaves, stays its own until the train has
\* reached the next one (LocoBase::ShiftRoute).
StartTrackHeld ==
  \A l \in Locos :
    from[l] \notin {None} \cup FreeingTracks => lock[from[l]].owner = l

\* Nothing is left behind: between two procedures a locomotive owns what its
\* train and the entry at the front of its timetable need and nothing else,
\* whatever was refused half way (Route::Reserve, LocoBase::ExecuteRoute).
Ahead(l) == Active(l) \cup {plan[l][i].route : i \in DOMAIN plan[l] \cap {1}}

Needed(l) ==
  {from[l]} \cup Ahead(l) \cup
  UNION {{ToTrack[r]} \cup {Parts[r][i] : i \in 1..Len(Parts[r])} :
           r \in Ahead(l)}

NothingLeaks ==
  \A l \in Locos : pc[l] = "idle" =>
    \A x \in Lockables : lock[x].owner = l => x \in Needed(l)

\* A signal that does not show stop is locked by a train (StopAllSignals).
SignalsProtect ==
  \A s \in Signals : position[s] # StopAspect => lock[s].owner # None

\* A locomotive loses a lock only by a step of its own thread, of the feedback
\* of a track that is released when free, or of the operator: no locomotive
\* ever takes an item from another one (LockableItem::Release).
Steps(t) == <<pc[t], work[t], next[t], caller[t]>>'
            # <<pc[t], work[t], next[t], caller[t]>>

OnlyOwnerReleases ==
  [][\A x \in Lockables : \A l \in Locos :
       lock[x].owner = l /\ lock'[x].owner # l =>
         \/ Steps(l)
         \/ freeTracks'[l] # freeTracks[l]
         \/ Steps(Operator)
         \/ x \in FreeingTracks
         \/ x \notin Routes /\ "releaseItem" \in Disturbances]_vars

\* A route that is not locked has no relations "At unlock" pending: they are
\* never executed for a train that did not run (Route::ReleaseInternal).
PendingUnlock == \A r \in Routes : atUnlock[r] => InUse(lock[r])

\* When a route becomes free, its relations "At unlock" have been executed and
\* none is left pending, whatever the operator and other trains did to it: no
\* execution of the route falls into its release (Route::ReleaseInternal).
UnlockedWhenFree ==
  [][\A r \in Routes :
       InUse(lock[r]) /\ ~InUse(lock'[r]) => ~atUnlock'[r]]_vars

\* The interlocking implements the abstract grants of routes: a route counts
\* as granted from the moment a train takes it as its first or second route.
Holder(r) ==
  IF \E l \in Locos : r \in Active(l)
  THEN CHOOSE l \in Locos : r \in Active(l)
  ELSE None

Grants == INSTANCE RouteGrant WITH granted <- [r \in Routes |-> Holder(r)]

ImplementsRouteGrant == Grants!Spec

\* What a train has passed is given back: the routes in the release queue of
\* a locomotive are released eventually, and only routes ahead of it remain
\* (ReleaseRouteAndTrack against the other users of the routes' mutexes).
PassedRouteReleased ==
  \A l \in Locos :
    freeRoutes[l] # <<>> ~>
      /\ freeRoutes[l] = <<>>
      /\ \A r \in Routes : lock[r].owner = l => r \in Ahead(l)
=============================================================================
