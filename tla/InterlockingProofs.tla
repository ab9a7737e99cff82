------------------------- MODULE InterlockingProofs -------------------------
(***************************************************************************)
(* Theorems about module Interlocking for every layout, every set of         *)
(* locomotives and every set of disturbances, with their proofs.             *)
(***************************************************************************)
EXTENDS Interlocking, TLAPS

(***************************************************************************)
(* Type correctness                                                          *)
(*                                                                           *)
(* TypeOK is not inductive.  The step of a thread uses the item it works on  *)
(* as a route, so the label of the thread has to say what that item is; and  *)
(* a train takes a route only when it stands on a track.                     *)
(***************************************************************************)

RouteLabels == Labels \ {"idle", "dequeue", "free", "throw"}

WorkOK ==
  \A t \in Threads :
    /\ pc[t] \in RouteLabels => work[t] \in Routes
    /\ pc[t] = "throw" => work[t] \in Elements /\ t = Operator
    /\ pc[t] \in {"execute", "unlock", "undo"} => next[t] # 0

\* The labels of a thread that is about to give its train a route.
Preparing(l) ==
  pc[l] \in {"reserve", "check", "dequeue", "decide", "lock", "ready",
             "enter", "execute"}

\* The labels of a thread that serves the head of the timetable.
Serving(l) ==
  \/ pc[l] \in {"decide", "lock", "ready", "enter", "execute"}
  \/ pc[l] \in {"reserve", "check"} /\ caller[l] # "search"

TrainOK ==
  \A l \in Locos :
    /\ second[l] # None => first[l] # None
    /\ first[l] # None => from[l] # None
    /\ Preparing(l) => from[l] # None
    /\ Serving(l) => plan[l] # <<>>

TypeInv == TypeOK /\ WorkOK /\ TrainOK

\* The invariant holds initially: nobody works on anything.
LEMMA InitType == Init => TypeInv
BY KindsDiffer, LayoutTypes, NoneIsNoLoco
   DEF Init, TypeInv, TypeOK, ItemTypes, ThreadTypes, TrainTypes, WorkOK,
       TrainOK, RouteLabels, Preparing, Serving, Locks, LockStates, Owners,
       FreeLock, FollowUps, Lockables, Threads, Labels, Callers

(***************************************************************************)
(* What the operations of a lock, the members of a route and the entries of  *)
(* a timetable are.                                                          *)
(***************************************************************************)
\* The operations of a lock yield locks.
LEMMA LockTypes ==
  ASSUME NEW k \in Locks, NEW id \in Owners
  PROVE  /\ Reserved(k, id) \in Locks
         /\ Locked(k) \in Locks
         /\ Released(k, id) \in Locks
BY DEF Locks, LockStates, Owners, Reserved, Locked, Released, FreeLock

\* The members of a route are its destination track and the objects of its
\* relations "At lock".
LEMMA MemberTypes ==
  ASSUME NEW r \in Routes, NEW i \in Nat, i <= Len(Parts[r])
  PROVE  /\ Member(r, i) \in Tracks \cup Elements
         /\ i # 0 => /\ Parts[r][i] \in Tracks \cup Elements
                     /\ Setting[r][i] \in Positions
BY LayoutTypes, RelationTypes DEF Member

\* The relations "At unlock" operate elements only.
LEMMA UnlockTypes ==
  ASSUME NEW r \in Routes, NEW i \in Nat, i # 0, i <= Len(AtUnlock[r])
  PROVE  AtUnlock[r][i] \in Elements /\ UnlockSetting[r][i] \in Positions
BY RelationTypes

\* A timetable grows by entries, at its end.
LEMMA EntryTypes ==
  ASSUME NEW p \in Seq(Entries), NEW r \in Routes,
         NEW a \in FollowUps
  PROVE  /\ Append(p, [route |-> r, after |-> a]) \in Seq(Entries)
         /\ Append(p, [route |-> r, after |-> a]) # <<>>
<1> DEFINE e == [route |-> r, after |-> a]
<1>1. e \in Entries
  BY DEF Entries, FollowUps
<1> HIDE DEF e
<1>2. Append(p, e) \in Seq(Entries) /\ Append(p, e) # <<>>
  BY <1>1
<1> QED BY <1>2 DEF e

\* A timetable is served from its front.
LEMMA HeadTypes ==
  ASSUME NEW p \in Seq(Entries), p # <<>>
  PROVE  /\ Head(p).route \in Routes
         /\ Head(p).after \in FollowUps
         /\ Tail(p) \in Seq(Entries)
<1>1. Head(p) \in Entries /\ Tail(p) \in Seq(Entries)
  OBVIOUS
<1> QED BY <1>1 DEF Entries, FollowUps

\* Releasing a track or an element keeps the types.
LEMMA ReleaseItemType ==
  ASSUME ItemTypes, NEW x \in Tracks \cup Elements, NEW id \in Owners,
         ReleaseItem(x, id)
  PROVE  /\ lock' \in [Lockables -> Locks]
         /\ position' \in [Elements -> Positions]
<1>1. lock[x] \in Locks
  BY DEF ItemTypes, Lockables
<1>2. Released(lock[x], id) \in Locks
  BY <1>1, LockTypes
<1>3. lock' \in [Lockables -> Locks]
  BY <1>2 DEF ItemTypes, ReleaseItem
<1>4. position' \in [Elements -> Positions]
  BY LayoutTypes DEF ItemTypes, ReleaseItem, StopSignals
<1> QED BY <1>3, <1>4

(***************************************************************************)
(* Each part of the invariant is kept by every action.                       *)
(***************************************************************************)

\* Locks, mutexes and positions keep their types.
LEMMA ItemTypesStep == TypeInv /\ [Next]_vars => ItemTypes'
<1> SUFFICES ASSUME TypeInv, [Next]_vars PROVE ItemTypes'
  OBVIOUS
<1> USE NoneIsNoLoco DEF TypeInv, TypeOK
<1>1. ASSUME NEW l \in Locos, NEW r \in Routes, SearchRoute(l, r)
     PROVE ItemTypes'
  BY <1>1, LockTypes
     DEF SearchRoute, ItemTypes, EnterReserve, Enter, Threads, Lockables,
         Owners
<1>2. ASSUME NEW l \in Locos, ReserveMember(l) PROVE ItemTypes'
  <2>1. Member(work[l], next[l]) \in Lockables
    BY <1>2, MemberTypes
       DEF ReserveMember, ThreadTypes, WorkOK, RouteLabels, Labels, Lockables,
           Threads
  <2>2. Reserved(lock[Member(work[l], next[l])], l) \in Locks
    BY <2>1, LockTypes DEF ItemTypes, Owners
  <2>3. lock' \in [Lockables -> Locks]
    BY <1>2, <2>2 DEF ReserveMember, ItemTypes
  <2> QED BY <1>2, <2>3 DEF ReserveMember, ItemTypes
<1>3. ASSUME NEW l \in Locos, RouteReserved(l) PROVE ItemTypes'
  BY <1>3 DEF RouteReserved, ItemTypes, Leave, Enter, Threads
<1>4. ASSUME NEW l \in Locos, DecideReserve(l) PROVE ItemTypes'
  BY <1>4, LockTypes
     DEF DecideReserve, ItemTypes, WorkOK, RouteLabels, Labels, EnterReserve,
         Enter, Threads, Lockables, Owners
<1>5. ASSUME NEW l \in Locos, DecideLock(l) PROVE ItemTypes'
  BY <1>5, LockTypes
     DEF DecideLock, ItemTypes, WorkOK, RouteLabels, Labels, Enter, Threads,
         Lockables, Owners
<1>6. ASSUME NEW l \in Locos, LockMember(l) PROVE ItemTypes'
  BY <1>6, LockTypes DEF LockMember, ItemTypes, Owners
<1>7. ASSUME NEW l \in Locos, RouteLocked(l) PROVE ItemTypes'
  BY <1>7 DEF RouteLocked, ItemTypes, Leave, Enter, Threads
<1>8. ASSUME NEW t \in Threads, BeginExecute(t) PROVE ItemTypes'
  BY <1>8 DEF BeginExecute, ItemTypes, Leave, Enter, Threads
<1>9. ASSUME NEW t \in Threads, ExecuteMember(t) PROVE ItemTypes'
  <2>1. Setting[work[t]][next[t]] \in Positions
    BY <1>9, MemberTypes
       DEF ExecuteMember, ThreadTypes, WorkOK, RouteLabels, Labels
  <2> QED BY <1>9, <2>1 DEF ExecuteMember, ItemTypes, Leave
<1>10. ASSUME NEW t \in Threads, RouteExecuted(t) PROVE ItemTypes'
  BY <1>10 DEF RouteExecuted, ItemTypes, Leave, ThreadTypes
<1>11. ASSUME NEW t \in Threads, BeginRelease(t) PROVE ItemTypes'
  BY <1>11 DEF BeginRelease, ItemTypes, Leave, Enter, Threads
<1>12. ASSUME NEW l \in Locos, UndoTrack(l) PROVE ItemTypes'
  BY <1>12, ReleaseItemType, LayoutTypes
     DEF UndoTrack, ItemTypes, WorkOK, RouteLabels, Labels, Owners, Threads
<1>13. ASSUME NEW t \in Threads, UnlockMember(t) PROVE ItemTypes'
  BY <1>13, UnlockTypes
     DEF UnlockMember, ItemTypes, WorkOK, RouteLabels, Labels, Threads,
         ThreadTypes
<1>14. ASSUME NEW t \in Threads, UnlockDone(t) PROVE ItemTypes'
  BY <1>14 DEF UnlockDone, ItemTypes, Leave, Enter, Threads
<1>15. ASSUME NEW t \in Threads, UndoMember(t) PROVE ItemTypes'
  <2>1. /\ Parts[work[t]][next[t]] \in Tracks \cup Elements
        /\ work[t] \in Lockables
    BY <1>15, MemberTypes
       DEF UndoMember, ThreadTypes, WorkOK, RouteLabels, Labels, Lockables
  <2>2. Id(t) \in Owners
    BY <2>1 DEF Id, Threads, Owners, ItemTypes, Locks
  <2> QED BY <1>15, <2>1, <2>2, ReleaseItemType DEF UndoMember, ItemTypes
<1>16. ASSUME NEW t \in Threads, RouteReleased(t) PROVE ItemTypes'
  <2>1. work[t] \in Lockables
    BY <1>16
       DEF RouteReleased, ThreadTypes, WorkOK, RouteLabels, Labels, Lockables
  <2>2. Id(t) \in Owners
    BY <2>1 DEF Id, Threads, Owners, ItemTypes, Locks
  <2>3. Released(lock[work[t]], Id(t)) \in Locks
    BY <2>1, <2>2, LockTypes DEF ItemTypes
  <2> QED BY <1>16, <2>3 DEF RouteReleased, ItemTypes, Leave
<1>17. ASSUME NEW l \in Locos, DropTrack(l) PROVE ItemTypes'
  BY <1>17, ReleaseItemType, LayoutTypes
     DEF DropTrack, ItemTypes, WorkOK, RouteLabels, Labels, Owners, Threads
<1>18. ASSUME NEW l \in Locos, NEW t \in Tracks, PlaceLoco(l, t)
     PROVE ItemTypes'
  BY <1>18, LockTypes DEF PlaceLoco, ItemTypes, Owners, Lockables
<1>19. ASSUME NEW l \in Locos, FreeTrack(l) PROVE ItemTypes'
  BY <1>19, ReleaseItemType DEF FreeTrack, ItemTypes, Owners, TrainTypes
<1>20. ASSUME NEW l \in Locos, FreeRoute(l) PROVE ItemTypes'
  BY <1>20 DEF FreeRoute, ItemTypes, Leave, Enter, Threads
<1>21. ASSUME NEW t \in Tracks, FeedbackFree(t) PROVE ItemTypes'
  BY <1>21, ReleaseItemType
     DEF FeedbackFree, ItemTypes, Owners, Locks, Lockables
<1>22. ASSUME ElementThrown PROVE ItemTypes'
  BY <1>22 DEF ElementThrown, ItemTypes, Leave, Enter, Threads
<1>23. ASSUME NEW y \in Tracks \cup Elements, OperatorReleasesItem(y)
     PROVE ItemTypes'
  BY <1>23, ReleaseItemType DEF OperatorReleasesItem, ItemTypes, Owners
<1>24. ASSUME NEW e \in Elements, NEW p \in Positions, ForeignCommand(e, p)
     PROVE ItemTypes'
  BY <1>24 DEF ForeignCommand, ItemTypes, Leave, Enter, Threads
<1>25. CASE UNCHANGED <<lock, mutex, position, atUnlock>>
  BY <1>25 DEF ItemTypes, threadVars, trainVars, queueVars
<1>26. ASSUME NEW l \in Locos, NEW r \in Routes, NEW a \in {RouteAuto,
     RouteStop}, AddTimeTable(l, r, a)
     PROVE UNCHANGED <<lock, mutex, position, atUnlock>>
  BY <1>26 DEF AddTimeTable, Operate, threadVars
<1>27. ASSUME NEW t \in Threads, CheckExecute(t)
     PROVE UNCHANGED <<lock, mutex, position, atUnlock>>
  BY <1>27 DEF CheckExecute, Operate, threadVars
<1>28. ASSUME NEW l \in Locos, CheckReserved(l)
     PROVE UNCHANGED <<lock, mutex, position, atUnlock>>
  BY <1>28 DEF CheckReserved, Operate, threadVars
<1>29. ASSUME NEW l \in Locos, DecideExecute(l)
     PROVE UNCHANGED <<lock, mutex, position, atUnlock>>
  BY <1>29 DEF DecideExecute, Operate, threadVars
<1>30. ASSUME NEW l \in Locos, DecideRefused(l)
     PROVE UNCHANGED <<lock, mutex, position, atUnlock>>
  BY <1>30 DEF DecideRefused, Operate, threadVars
<1>31. ASSUME NEW l \in Locos, Dequeue(l)
     PROVE UNCHANGED <<lock, mutex, position, atUnlock>>
  BY <1>31 DEF Dequeue, Operate, threadVars
<1>32. ASSUME NEW t \in Threads, ExecuteRefused(t)
     PROVE UNCHANGED <<lock, mutex, position, atUnlock>>
  BY <1>32 DEF ExecuteRefused, Operate, threadVars
<1>33. ASSUME NEW l \in Locos, FreeDone(l)
     PROVE UNCHANGED <<lock, mutex, position, atUnlock>>
  BY <1>33 DEF FreeDone, Operate, threadVars
<1>34. ASSUME NEW r \in Routes, OperatorExecutes(r)
     PROVE UNCHANGED <<lock, mutex, position, atUnlock>>
  BY <1>34 DEF OperatorExecutes, Operate, threadVars
<1>35. ASSUME NEW r \in Routes, OperatorReleasesRoute(r)
     PROVE UNCHANGED <<lock, mutex, position, atUnlock>>
  BY <1>35 DEF OperatorReleasesRoute, Operate, threadVars
<1>36. ASSUME NEW e \in Elements, OperatorThrows(e)
     PROVE UNCHANGED <<lock, mutex, position, atUnlock>>
  BY <1>36 DEF OperatorThrows, Operate, threadVars
<1>37. ASSUME NEW l \in Locos, PlanFollowUp(l)
     PROVE UNCHANGED <<lock, mutex, position, atUnlock>>
  BY <1>37 DEF PlanFollowUp, Operate, threadVars
<1>38. ASSUME NEW l \in Locos, ReachFirst(l)
     PROVE UNCHANGED <<lock, mutex, position, atUnlock>>
  BY <1>38 DEF ReachFirst, Operate, threadVars
<1>39. ASSUME NEW l \in Locos, ReachStop(l)
     PROVE UNCHANGED <<lock, mutex, position, atUnlock>>
  BY <1>39 DEF ReachStop, Operate, threadVars
<1>40. ASSUME NEW l \in Locos, ReleaseLoco(l)
     PROVE UNCHANGED <<lock, mutex, position, atUnlock>>
  BY <1>40 DEF ReleaseLoco, Operate, threadVars
<1>41. ASSUME NEW l \in Locos, StartLoco(l)
     PROVE UNCHANGED <<lock, mutex, position, atUnlock>>
  BY <1>41 DEF StartLoco, Operate, threadVars
<1>42. CASE UNCHANGED vars
  BY <1>42, <1>25 DEF vars
<1> QED
  BY <1>1, <1>2, <1>3, <1>4, <1>5, <1>6, <1>7, <1>8, <1>9, <1>10, <1>11,
     <1>12, <1>13, <1>14, <1>15, <1>16, <1>17, <1>18, <1>19, <1>20, <1>21,
     <1>22, <1>23, <1>24, <1>25, <1>26, <1>27, <1>28, <1>29, <1>30, <1>31,
     <1>32, <1>33, <1>34, <1>35, <1>36, <1>37, <1>38, <1>39, <1>40, <1>41,
     <1>42
  DEF Next, ProcedureStep, LocoStep, LocoBegins, OperatorStep, Environment

\* A thread works on a route at every label that needs one.
LEMMA ThreadTypesStep == TypeInv /\ [Next]_vars => ThreadTypes' /\ WorkOK'
<1> SUFFICES ASSUME TypeInv, [Next]_vars PROVE ThreadTypes' /\ WorkOK'
  OBVIOUS
<1> USE KindsDiffer
   DEF TypeInv, TypeOK, ThreadTypes, WorkOK, RouteLabels, Labels,
       Goto, Proceed, Settle, Enter
<1>1. ASSUME NEW l \in Locos, NEW r \in Routes, SearchRoute(l, r)
     PROVE ThreadTypes' /\ WorkOK'
  BY <1>1 DEF SearchRoute, EnterReserve, Callers, Threads
<1>2. ASSUME NEW r \in Routes, OperatorExecutes(r)
     PROVE ThreadTypes' /\ WorkOK'
  BY <1>2, KindsDiffer DEF OperatorExecutes, Operate, Threads, Callers, Owners
<1>3. ASSUME NEW r \in Routes, OperatorReleasesRoute(r)
     PROVE ThreadTypes' /\ WorkOK'
  BY <1>3, KindsDiffer
     DEF OperatorReleasesRoute, Operate, Threads, Callers, Owners, ItemTypes,
         Locks, Lockables
<1>4. ASSUME NEW e \in Elements, OperatorThrows(e)
     PROVE ThreadTypes' /\ WorkOK'
  BY <1>4, KindsDiffer DEF OperatorThrows, Operate, Threads, Callers, Owners
<1>5. ASSUME NEW l \in Locos, ReserveMember(l) PROVE ThreadTypes' /\ WorkOK'
  <2>1. /\ pc' \in [Threads -> Labels] /\ next' \in [Threads -> Nat]
        /\ pc[l] \in RouteLabels /\ pc'[l] \in RouteLabels
        /\ pc'[l] \in {"execute", "unlock", "undo"} => next'[l] # 0
    BY <1>5 DEF ReserveMember, ReleaseLabel, Threads
  <2>2. UNCHANGED <<work, caller, inUse>>
    BY <1>5 DEF ReserveMember
  <2>3. \A t \in Threads \ {l} : pc'[t] = pc[t] /\ next'[t] = next[t]
    BY <1>5 DEF ReserveMember
  <2> QED BY <2>1, <2>2, <2>3 
<1>6. ASSUME NEW l \in Locos, RouteReserved(l) PROVE ThreadTypes' /\ WorkOK'
  BY <1>6 DEF RouteReserved, Threads, Callers
<1>7. ASSUME NEW l \in Locos, CheckReserved(l) PROVE ThreadTypes' /\ WorkOK'
  BY <1>7 DEF CheckReserved, Callers, Threads
<1>8. ASSUME NEW l \in Locos, Dequeue(l) PROVE ThreadTypes' /\ WorkOK'
  <2>1. Head(plan[l]).route \in Routes
    BY <1>8, HeadTypes DEF Dequeue, TrainTypes
  <2> QED BY <1>8, <2>1 DEF Dequeue, Threads, Callers
<1>9. ASSUME NEW l \in Locos, DecideReserve(l) PROVE ThreadTypes' /\ WorkOK'
  BY <1>9 DEF DecideReserve, EnterReserve, Callers, Threads
<1>10. ASSUME NEW l \in Locos, DecideLock(l) PROVE ThreadTypes' /\ WorkOK'
  BY <1>10 DEF DecideLock, Callers, Threads
<1>11. ASSUME NEW l \in Locos, DecideExecute(l) PROVE ThreadTypes' /\ WorkOK'
  BY <1>11 DEF DecideExecute, Callers, Threads
<1>12. ASSUME NEW l \in Locos, DecideRefused(l) PROVE ThreadTypes' /\ WorkOK'
  BY <1>12 DEF DecideRefused, Threads, Callers
<1>13. ASSUME NEW l \in Locos, LockMember(l) PROVE ThreadTypes' /\ WorkOK'
  <2>1. /\ pc' \in [Threads -> Labels] /\ next' \in [Threads -> Nat]
        /\ pc[l] \in RouteLabels /\ pc'[l] \in RouteLabels
        /\ pc'[l] \in {"execute", "unlock", "undo"} => next'[l] # 0
    BY <1>13 DEF LockMember, ReleaseLabel, Threads
  <2>2. UNCHANGED <<work, caller, inUse>>
    BY <1>13 DEF LockMember
  <2>3. \A t \in Threads \ {l} : pc'[t] = pc[t] /\ next'[t] = next[t]
    BY <1>13 DEF LockMember
  <2> QED BY <2>1, <2>2, <2>3 
<1>14. ASSUME NEW l \in Locos, RouteLocked(l) PROVE ThreadTypes' /\ WorkOK'
  BY <1>14 DEF RouteLocked, Threads, Callers
<1>15. ASSUME NEW l \in Locos, UndoTrack(l) PROVE ThreadTypes' /\ WorkOK'
  BY <1>15 DEF UndoTrack, ReleaseLabel, Threads
<1>16. ASSUME NEW l \in Locos, DropTrack(l) PROVE ThreadTypes' /\ WorkOK'
  BY <1>16 DEF DropTrack, Threads, Callers
<1>17. ASSUME NEW l \in Locos, FreeRoute(l) PROVE ThreadTypes' /\ WorkOK'
  BY <1>17 DEF FreeRoute, ReleaseLabel, Threads, Callers, TrainTypes
<1>18. ASSUME NEW l \in Locos, FreeDone(l) PROVE ThreadTypes' /\ WorkOK'
  BY <1>18 DEF FreeDone, Threads, Callers
<1>19. ASSUME NEW l \in Locos, PlanFollowUp(l) PROVE ThreadTypes' /\ WorkOK'
  BY <1>19 DEF PlanFollowUp, Threads, Callers
<1>20. ASSUME NEW l \in Locos, ReleaseLoco(l) PROVE ThreadTypes' /\ WorkOK'
  BY <1>20 DEF ReleaseLoco, Threads, Callers
<1>21. ASSUME NEW l \in Locos, ReachFirst(l) PROVE ThreadTypes' /\ WorkOK'
  BY <1>21 DEF ReachFirst, Threads, Callers
<1>22. ASSUME NEW l \in Locos, ReachStop(l) PROVE ThreadTypes' /\ WorkOK'
  BY <1>22 DEF ReachStop, Threads, Callers
<1>23. ASSUME NEW t \in Threads, CheckExecute(t) PROVE ThreadTypes' /\ WorkOK'
  BY <1>23 DEF CheckExecute, InUse
<1>24. ASSUME NEW t \in Threads, BeginExecute(t) PROVE ThreadTypes' /\ WorkOK'
  BY <1>24 DEF BeginExecute, Threads, Callers
<1>25. ASSUME NEW t \in Threads, ExecuteRefused(t)
     PROVE ThreadTypes' /\ WorkOK'
  BY <1>25 DEF ExecuteRefused, ExecuteFails, Threads, Callers
<1>26. ASSUME NEW t \in Threads, ExecuteMember(t)
     PROVE ThreadTypes' /\ WorkOK'
  <2>1. CASE Proceed(t, "execute", next[t] + 1) /\ UNCHANGED <<work, caller,
       inUse>>
    BY <1>26, <2>1 DEF ExecuteMember
  <2>2. ASSUME t = Operator, Settle(t, "idle"),
       inUse' = [inUse EXCEPT ![t] = FALSE]
        PROVE  ThreadTypes' /\ WorkOK'
    BY <1>26, <2>2 DEF ExecuteMember, Callers
  <2>3. ASSUME t # Operator, inUse' = [inUse EXCEPT ![t] = FALSE],
               Proceed(t, "abort", 0), UNCHANGED work,
               caller' = [caller EXCEPT ![t] = "drop"]
        PROVE  ThreadTypes' /\ WorkOK'
    BY <1>26, <2>3 DEF ExecuteMember, Callers
  <2> QED BY <1>26, <2>1, <2>2, <2>3 DEF ExecuteMember, ExecuteFails
<1>27. ASSUME NEW t \in Threads, RouteExecuted(t)
     PROVE ThreadTypes' /\ WorkOK'
  BY <1>27 DEF RouteExecuted, Threads, Callers
<1>28. ASSUME NEW t \in Threads, BeginRelease(t) PROVE ThreadTypes' /\ WorkOK'
  BY <1>28 DEF BeginRelease, ReleaseLabel, Threads, Callers
<1>29. ASSUME NEW t \in Threads, UnlockMember(t) PROVE ThreadTypes' /\ WorkOK'
  BY <1>29 DEF UnlockMember, Threads, Callers
<1>30. ASSUME NEW t \in Threads, UnlockDone(t) PROVE ThreadTypes' /\ WorkOK'
  BY <1>30 DEF UnlockDone, Threads, Callers
<1>31. ASSUME NEW t \in Threads, UndoMember(t) PROVE ThreadTypes' /\ WorkOK'
  BY <1>31 DEF UndoMember, Threads, Callers
<1>32. ASSUME NEW t \in Threads, RouteReleased(t)
     PROVE ThreadTypes' /\ WorkOK'
  <2>1. CASE Settle(t, "idle")
    BY <1>32, <2>1 DEF RouteReleased, Callers
  <2>2. CASE Settle(t, "free")
    BY <1>32, <2>2 DEF RouteReleased, Callers
  <2>3. CASE Goto(t, "dropTrack") /\ UNCHANGED <<work, next, caller>>
    BY <1>32, <2>3 DEF RouteReleased
  <2> QED BY <1>32, <2>1, <2>2, <2>3 DEF RouteReleased, ReturnFromRelease
<1>33. ASSUME ElementThrown PROVE ThreadTypes' /\ WorkOK'
  BY <1>33 DEF ElementThrown, Threads, Callers
<1>34. CASE UNCHANGED threadVars
  BY <1>34 DEF ItemTypes, threadVars, trainVars, queueVars
<1>35. ASSUME NEW l \in Locos, NEW r \in Routes, NEW a \in {RouteAuto,
     RouteStop}, AddTimeTable(l, r, a)
     PROVE UNCHANGED threadVars
  BY <1>35 DEF AddTimeTable, Operate, threadVars
<1>36. ASSUME NEW t \in Tracks, FeedbackFree(t)
     PROVE UNCHANGED threadVars
  BY <1>36 DEF FeedbackFree, Operate, threadVars
<1>37. ASSUME NEW e \in Elements, NEW p \in Positions, ForeignCommand(e, p)
     PROVE UNCHANGED threadVars
  BY <1>37 DEF ForeignCommand, Operate, threadVars
<1>38. ASSUME NEW l \in Locos, FreeTrack(l)
     PROVE UNCHANGED threadVars
  BY <1>38 DEF FreeTrack, Operate, threadVars
<1>39. ASSUME NEW y \in Tracks \cup Elements, OperatorReleasesItem(y)
     PROVE UNCHANGED threadVars
  BY <1>39 DEF OperatorReleasesItem, Operate, threadVars
<1>40. ASSUME NEW l \in Locos, NEW t \in Tracks, PlaceLoco(l, t)
     PROVE UNCHANGED threadVars
  BY <1>40 DEF PlaceLoco, Operate, threadVars
<1>41. ASSUME NEW l \in Locos, StartLoco(l)
     PROVE UNCHANGED threadVars
  BY <1>41 DEF StartLoco, Operate, threadVars
<1>42. CASE UNCHANGED vars
  BY <1>42, <1>34 DEF vars
<1> QED
  BY <1>1, <1>2, <1>3, <1>4, <1>5, <1>6, <1>7, <1>8, <1>9, <1>10, <1>11,
     <1>12, <1>13, <1>14, <1>15, <1>16, <1>17, <1>18, <1>19, <1>20, <1>21,
     <1>22, <1>23, <1>24, <1>25, <1>26, <1>27, <1>28, <1>29, <1>30, <1>31,
     <1>32, <1>33, <1>34, <1>35, <1>36, <1>37, <1>38, <1>39, <1>40, <1>41,
     <1>42
  DEF Next, ProcedureStep, LocoStep, LocoBegins, OperatorStep, Environment

\* A train takes a route only when it stands on a track and its timetable has
\* an entry.
LEMMA TrainTypesStep == TypeInv /\ [Next]_vars => TrainTypes' /\ TrainOK'
<1> SUFFICES ASSUME TypeInv, [Next]_vars PROVE TrainTypes' /\ TrainOK'
  OBVIOUS
<1> USE KindsDiffer, NoneIsNoLoco
   DEF TypeInv, TypeOK, TrainTypes, TrainOK, Preparing, Serving, Goto,
       Proceed, Settle, Enter, trainVars, queueVars, threadVars, Threads,
       ThreadTypes
<1>1. ASSUME NEW l \in Locos, NEW r \in Routes, SearchRoute(l, r)
     PROVE TrainTypes' /\ TrainOK'
  BY <1>1 DEF SearchRoute, EnterReserve, SeeksRoute
<1>2. ASSUME NEW l \in Locos, NEW r \in Routes, NEW a \in {RouteAuto,
     RouteStop}, AddTimeTable(l, r, a)
     PROVE TrainTypes' /\ TrainOK'
  BY <1>2, EntryTypes DEF AddTimeTable, FollowUps
<1>3. ASSUME NEW l \in Locos, NEW t \in Tracks, PlaceLoco(l, t)
     PROVE TrainTypes' /\ TrainOK'
  BY <1>3 DEF PlaceLoco
<1>4. ASSUME NEW r \in Routes, OperatorExecutes(r)
     PROVE TrainTypes' /\ TrainOK'
  BY <1>4 DEF OperatorExecutes, Operate
<1>5. ASSUME NEW r \in Routes, OperatorReleasesRoute(r)
     PROVE TrainTypes' /\ TrainOK'
  BY <1>5 DEF OperatorReleasesRoute, Operate
<1>6. ASSUME NEW e \in Elements, OperatorThrows(e)
     PROVE TrainTypes' /\ TrainOK'
  BY <1>6 DEF OperatorThrows, Operate
<1>7. ASSUME NEW y \in Tracks \cup Elements, OperatorReleasesItem(y)
     PROVE TrainTypes' /\ TrainOK'
  BY <1>7 DEF OperatorReleasesItem, Operate
<1>8. ASSUME NEW t \in Tracks, FeedbackFree(t) PROVE TrainTypes' /\ TrainOK'
  BY <1>8 DEF FeedbackFree
<1>9. ASSUME NEW e \in Elements, NEW p \in Positions, ForeignCommand(e, p)
     PROVE TrainTypes' /\ TrainOK'
  BY <1>9 DEF ForeignCommand
<1>10. ASSUME NEW l \in Locos, ReserveMember(l) PROVE TrainTypes' /\ TrainOK'
  BY <1>10 DEF ReserveMember, ReleaseLabel
<1>11. ASSUME NEW l \in Locos, RouteReserved(l) PROVE TrainTypes' /\ TrainOK'
  BY <1>11 DEF RouteReserved
<1>12. ASSUME NEW l \in Locos, CheckReserved(l) PROVE TrainTypes' /\ TrainOK'
  <2>1. /\ work[l] \in Routes /\ FollowUp[work[l]] \in FollowUps
        /\ plan[l] \in Seq(Entries)
    BY <1>12, LayoutTypes DEF CheckReserved, WorkOK, RouteLabels, Labels
  <2> DEFINE p == Append(plan[l], [route |-> work[l],
       after |-> FollowUp[work[l]]])
  <2>2. p \in Seq(Entries) /\ p # <<>>
    BY <2>1, EntryTypes
  <2>3. CASE plan' = [plan EXCEPT ![l] = p]
    <3> HIDE DEF p
    <3> QED BY <1>12, <2>2, <2>3 DEF CheckReserved
  <2>4. CASE UNCHANGED plan
    BY <1>12, <2>4 DEF CheckReserved
  <2> QED BY <1>12, <2>3, <2>4 DEF CheckReserved
<1>13. ASSUME NEW l \in Locos, Dequeue(l) PROVE TrainTypes' /\ TrainOK'
  <2>0. Tail(plan[l]) \in Seq(Entries)
    BY <1>13, HeadTypes DEF Dequeue
  <2>1. plan' \in [Locos -> Seq(Entries)]
    BY <1>13, <2>0 DEF Dequeue
  <2>2. TrainOK'
    BY <1>13 DEF Dequeue, SeeksRoute
  <2> QED BY <1>13, <2>1, <2>2 DEF Dequeue
<1>14. ASSUME NEW l \in Locos, DecideReserve(l) PROVE TrainTypes' /\ TrainOK'
  BY <1>14 DEF DecideReserve, EnterReserve, SeeksRoute
<1>15. ASSUME NEW l \in Locos, DecideLock(l) PROVE TrainTypes' /\ TrainOK'
  BY <1>15 DEF DecideLock
<1>16. ASSUME NEW l \in Locos, DecideExecute(l) PROVE TrainTypes' /\ TrainOK'
  BY <1>16 DEF DecideExecute
<1>17. ASSUME NEW l \in Locos, DecideRefused(l) PROVE TrainTypes' /\ TrainOK'
  BY <1>17 DEF DecideRefused
<1>18. ASSUME NEW l \in Locos, LockMember(l) PROVE TrainTypes' /\ TrainOK'
  BY <1>18 DEF LockMember, ReleaseLabel
<1>19. ASSUME NEW l \in Locos, RouteLocked(l) PROVE TrainTypes' /\ TrainOK'
  BY <1>19 DEF RouteLocked
<1>20. ASSUME NEW l \in Locos, UndoTrack(l) PROVE TrainTypes' /\ TrainOK'
  BY <1>20 DEF UndoTrack, ReleaseLabel
<1>21. ASSUME NEW l \in Locos, DropTrack(l) PROVE TrainTypes' /\ TrainOK'
  BY <1>21 DEF DropTrack
<1>22. ASSUME NEW l \in Locos, FreeTrack(l) PROVE TrainTypes' /\ TrainOK'
  BY <1>22 DEF FreeTrack
<1>23. ASSUME NEW l \in Locos, FreeRoute(l) PROVE TrainTypes' /\ TrainOK'
  BY <1>23 DEF FreeRoute, ReleaseLabel
<1>24. ASSUME NEW l \in Locos, FreeDone(l) PROVE TrainTypes' /\ TrainOK'
  BY <1>24 DEF FreeDone
<1>25. ASSUME NEW l \in Locos, PlanFollowUp(l) PROVE TrainTypes' /\ TrainOK'
  BY <1>25, EntryTypes, LayoutTypes DEF PlanFollowUp, FollowUps, SeeksRoute
<1>26. ASSUME NEW l \in Locos, StartLoco(l) PROVE TrainTypes' /\ TrainOK'
  BY <1>26 DEF StartLoco, FollowUps
<1>27. ASSUME NEW l \in Locos, ReleaseLoco(l) PROVE TrainTypes' /\ TrainOK'
  BY <1>27, LayoutTypes DEF ReleaseLoco, Left, Running
<1>28. ASSUME NEW l \in Locos, ReachFirst(l) PROVE TrainTypes' /\ TrainOK'
  <2>1. from[l] \in Tracks /\ first[l] \in Routes /\ second[l] \in Routes
    BY <1>28 DEF ReachFirst
  <2>2. ToTrack[first[l]] \in Tracks
    BY <2>1, LayoutTypes
  <2>3. Left(from[l], ToTrack[first[l]]) \in Seq(Tracks)
    BY <2>1, <2>2 DEF Left
  <2> DEFINE s == Left(from[l], ToTrack[first[l]])
  <2>6. freeTracks' = [freeTracks EXCEPT ![l] = s]
    BY <1>28 DEF ReachFirst
  <2>7. freeTracks' \in [Locos -> Seq(Tracks)]
    <3> HIDE DEF s
    <3> QED BY <2>6, <2>3 DEF s
  <2>8. <<first[l]>> \in Seq(Routes)
    BY <2>1
  <2>9. freeRoutes' \in [Locos -> Seq(Routes)]
    BY <1>28, <2>8 DEF ReachFirst
  <2>4. TrainTypes'
    BY <1>28, <2>1, <2>2, <2>7, <2>9 DEF ReachFirst
  <2>5. TrainOK'
    BY <1>28, <2>1, <2>2 DEF ReachFirst, Lockables
  <2> QED BY <2>4, <2>5
<1>29. ASSUME NEW l \in Locos, ReachStop(l) PROVE TrainTypes' /\ TrainOK'
  <2>1. from[l] \in Tracks /\ first[l] \in Routes
    BY <1>29 DEF ReachStop
  <2>2. /\ ToTrack[first[l]] \in Tracks
        /\ second[l] # None => ToTrack[second[l]] \in Tracks
    BY <2>1, LayoutTypes
  <2>3. \A a, b \in Tracks : Left(a, b) \in Seq(Tracks)
    BY DEF Left
  <2> DEFINE b == ToTrack[first[l]]
             s == IF second[l] = None THEN Left(from[l], b)
                  ELSE Left(from[l], b) \o Left(b, ToTrack[second[l]])
  <2>8. s \in Seq(Tracks)
    <3>1. CASE second[l] = None
      BY <2>1, <2>2, <2>3, <3>1
    <3>2. CASE second[l] # None
      <4>1. Left(from[l], b) \in Seq(Tracks) /\ Left(b,
           ToTrack[second[l]]) \in Seq(Tracks)
        BY <2>1, <2>2, <2>3, <3>2
      <4> QED BY <3>2, <4>1
    <3> QED BY <3>1, <3>2
  <2>9. freeTracks' = [freeTracks EXCEPT ![l] = s]
    BY <1>29 DEF ReachStop
  <2>4. freeTracks' \in [Locos -> Seq(Tracks)]
    <3> HIDE DEF s
    <3> QED BY <2>8, <2>9
  <2>5. Running(l) \in Seq(Routes)
    BY <2>1 DEF Running
  <2>6. TrainTypes'
    BY <1>29, <2>2, <2>4, <2>5 DEF ReachStop
  <2>7. TrainOK'
    BY <1>29, <2>1, <2>2 DEF ReachStop
  <2> QED BY <2>6, <2>7
<1>30. ASSUME NEW t \in Threads, CheckExecute(t) PROVE TrainTypes' /\ TrainOK'
  BY <1>30 DEF CheckExecute
<1>31. ASSUME NEW t \in Threads, BeginExecute(t) PROVE TrainTypes' /\ TrainOK'
  BY <1>31 DEF BeginExecute
<1>32. ASSUME NEW t \in Threads, ExecuteRefused(t)
     PROVE TrainTypes' /\ TrainOK'
  BY <1>32 DEF ExecuteRefused, ExecuteFails
<1>33. ASSUME NEW t \in Threads, ExecuteMember(t)
     PROVE TrainTypes' /\ TrainOK'
  BY <1>33 DEF ExecuteMember, ExecuteFails
<1>34. ASSUME NEW t \in Threads, RouteExecuted(t)
     PROVE TrainTypes' /\ TrainOK'
  <2>1. work[t] \in Routes
    BY <1>34 DEF RouteExecuted, WorkOK, RouteLabels, Labels
  <2>2. t # Operator => /\ Head(plan[t]).after \in FollowUps
                        /\ Tail(plan[t]) \in Seq(Entries)
    BY <1>34, HeadTypes DEF RouteExecuted
  <2>3. TrainTypes'
    <3>1. CASE t = Operator
      BY <1>34, <3>1 DEF RouteExecuted
    <3>2. CASE t # Operator
      <4>2. plan' = [plan EXCEPT ![t] = Tail(plan[t])]
        BY <1>34, <3>2 DEF RouteExecuted
      <4>3. follow' = [follow EXCEPT ![t] = Head(plan[t]).after]
        BY <1>34, <3>2 DEF RouteExecuted
      <4>1. /\ plan' \in [Locos -> Seq(Entries)]
            /\ follow' \in [Locos -> FollowUps]
        BY <3>2, <4>2, <4>3, <2>2
      <4> QED BY <1>34, <2>1, <3>2, <4>1 DEF RouteExecuted
    <3> QED BY <3>1, <3>2
  <2>4. TrainOK'
    BY <1>34, <2>1 DEF RouteExecuted
  <2> QED BY <2>3, <2>4
<1>35. ASSUME NEW t \in Threads, BeginRelease(t) PROVE TrainTypes' /\ TrainOK'
  BY <1>35 DEF BeginRelease, ReleaseLabel
<1>36. ASSUME NEW t \in Threads, UnlockMember(t) PROVE TrainTypes' /\ TrainOK'
  BY <1>36 DEF UnlockMember
<1>37. ASSUME NEW t \in Threads, UnlockDone(t) PROVE TrainTypes' /\ TrainOK'
  BY <1>37 DEF UnlockDone
<1>38. ASSUME NEW t \in Threads, UndoMember(t) PROVE TrainTypes' /\ TrainOK'
  BY <1>38 DEF UndoMember
<1>39. ASSUME NEW t \in Threads, RouteReleased(t)
     PROVE TrainTypes' /\ TrainOK'
  BY <1>39 DEF RouteReleased, ReturnFromRelease
<1>40. ASSUME ElementThrown PROVE TrainTypes' /\ TrainOK'
  BY <1>40 DEF ElementThrown
<1>41. CASE UNCHANGED <<threadVars, trainVars, plan, queueVars>>
  BY <1>41 DEF ItemTypes, threadVars, trainVars, queueVars
<1>42. CASE UNCHANGED vars
  BY <1>42, <1>41 DEF vars
<1> HIDE
   DEF TypeInv, TypeOK, TrainTypes, TrainOK, Preparing, Serving, Goto,
       Proceed, Settle, Enter, trainVars, queueVars, threadVars, ThreadTypes
<1> QED
  BY <1>1, <1>2, <1>3, <1>4, <1>5, <1>6, <1>7, <1>8, <1>9, <1>10, <1>11,
     <1>12, <1>13, <1>14, <1>15, <1>16, <1>17, <1>18, <1>19, <1>20, <1>21,
     <1>22, <1>23, <1>24, <1>25, <1>26, <1>27, <1>28, <1>29, <1>30, <1>31,
     <1>32, <1>33, <1>34, <1>35, <1>36, <1>37, <1>38, <1>39, <1>40, <1>41,
     <1>42
  DEF Next, ProcedureStep, LocoStep, LocoBegins, OperatorStep, Environment

\* The inductive invariant: the types, what a thread works on at each label,
\* and what a train has when it is about to take a route.
THEOREM TypeInvariant == Spec => []TypeInv
<1>1. TypeInv /\ [Next]_vars => TypeInv'
  BY ItemTypesStep, ThreadTypesStep, TrainTypesStep DEF TypeInv, TypeOK
<1> QED BY InitType, <1>1, PTL DEF Spec

\* Every variable has its type, for every layout: the queues hold routes and
\* tracks, never the null pointers of a locomotive without a second route
\* (LocoBase::ShiftRoute), and the timetable holds routes.
THEOREM TypeCorrect == Spec => []TypeOK
<1>1. TypeInv => TypeOK
  BY DEF TypeInv
<1> QED BY TypeInvariant, <1>1, PTL

(***************************************************************************)
(* Only the owner, or the operator, takes a lock away                        *)
(***************************************************************************)
\* Reserving and locking do not change the owner of an owned item.
LEMMA ReserveKeeps ==
  ASSUME NEW k \in Locks, NEW id \in Locos, CanReserve(k, id)
  PROVE  /\ k.owner # None => Reserved(k, id).owner = k.owner
         /\ Locked(k).owner = k.owner
BY NoneIsNoLoco
   DEF CanReserve, Reserved, Locked, InUse, Locks, Owners

\* A release changes the owner of its own item only, and only on behalf of that
\* owner or with the empty identifier.
LEMMA ReleaseKeeps ==
  ASSUME ItemTypes, NEW x \in Tracks \cup Elements, NEW id \in Owners,
         ReleaseItem(x, id),
         NEW y \in Lockables, lock[y].owner # None,
         lock'[y].owner # lock[y].owner
  PROVE  y = x /\ id \in {None, lock[y].owner}
BY DEF ItemTypes, ReleaseItem, Released, CanRelease, FreeLock, Lockables

\* Step by step, who may take a lock away from a locomotive.
LEMMA OwnerStep ==
  ASSUME TypeInv, [Next]_vars, NEW x \in Lockables, NEW l \in Locos,
         lock[x].owner = l, lock'[x].owner # l
  PROVE  \/ Steps(l)
         \/ freeTracks'[l] # freeTracks[l]
         \/ Steps(Operator)
         \/ x \in FreeingTracks
         \/ x \notin Routes /\ "releaseItem" \in Disturbances
<1> DEFINE Goal == \/ Steps(l)
                   \/ freeTracks'[l] # freeTracks[l]
                   \/ Steps(Operator)
                   \/ x \in FreeingTracks
                   \/ x \notin Routes /\ "releaseItem" \in Disturbances
<1> USE KindsDiffer, NoneIsNoLoco DEF TypeInv, TypeOK
<1>1. ASSUME NEW m \in Locos, NEW r \in Routes, SearchRoute(m, r) PROVE Goal
  BY <1>1, ReserveKeeps
     DEF SearchRoute, EnterReserve, Enter, ItemTypes, Lockables
<1>2. ASSUME NEW m \in Locos, DecideReserve(m) PROVE Goal
  BY <1>2, ReserveKeeps
     DEF DecideReserve, EnterReserve, Enter, ItemTypes, Lockables
<1>3. ASSUME NEW m \in Locos, DecideLock(m) PROVE Goal
  BY <1>3, ReserveKeeps DEF DecideLock, ItemTypes, Lockables, CanLock, Locked
<1>4. ASSUME NEW m \in Locos, LockMember(m) PROVE Goal
  <2> DEFINE y == Member(work[m], next[m])
  <2>1. lock' = lock \/ lock' = [lock EXCEPT ![y] = Locked(lock[y])]
    BY <1>4 DEF LockMember
  <2> QED BY <2>1 DEF ItemTypes, Locked, Locks, Lockables
<1>5. ASSUME NEW m \in Locos, ReserveMember(m) PROVE Goal
  BY <1>5, ReserveKeeps DEF ReserveMember, ItemTypes, Lockables
<1>6. ASSUME NEW m \in Locos, NEW t \in Tracks, PlaceLoco(m, t) PROVE Goal
  BY <1>6, ReserveKeeps DEF PlaceLoco, ItemTypes, Lockables, InUse
<1>7. ASSUME NEW m \in Locos, UndoTrack(m) PROVE Goal
  BY <1>7, ReleaseKeeps, LayoutTypes
     DEF UndoTrack, Steps, Proceed, Goto, ReleaseLabel, ThreadTypes, WorkOK,
         RouteLabels, Labels, Threads, Owners
<1>8. ASSUME NEW m \in Locos, DropTrack(m) PROVE Goal
  BY <1>8, ReleaseKeeps, LayoutTypes
     DEF DropTrack, Steps, Settle, Proceed, Goto, ThreadTypes, WorkOK,
         RouteLabels, Labels, Threads, Owners
<1>9. ASSUME NEW m \in Locos, FreeTrack(m) PROVE Goal
  <2>1. Head(freeTracks[m]) \in Tracks /\ Tail(freeTracks[m]) # freeTracks[m]
    BY <1>9 DEF FreeTrack, TrainTypes
  <2>2. m = l
    BY <1>9, <2>1, ReleaseKeeps DEF FreeTrack, Owners
  <2>3. freeTracks'[m] = Tail(freeTracks[m])
    BY <1>9 DEF FreeTrack, TrainTypes
  <2> QED BY <2>1, <2>2, <2>3
<1>10. ASSUME NEW t \in Threads, UndoMember(t) PROVE Goal
  <2>1. Parts[work[t]][next[t]] \in Tracks \cup Elements
    BY <1>10, MemberTypes
       DEF UndoMember, ThreadTypes, WorkOK, RouteLabels, Labels
  <2>2. Steps(t)
    BY <1>10 DEF UndoMember, Steps, Proceed, ThreadTypes
  <2> QED BY <1>10, <2>1, <2>2, ReleaseKeeps
             DEF UndoMember, ThreadTypes, Threads, Owners, Id
<1>11. ASSUME NEW t \in Threads, RouteReleased(t) PROVE Goal
  BY <1>11
     DEF RouteReleased, ItemTypes, Released, CanRelease, FreeLock, Steps,
         ReturnFromRelease, Settle, Proceed, Goto, ThreadTypes, WorkOK,
         RouteLabels, Labels, Threads, Id
<1>12. ASSUME NEW t \in Tracks, FeedbackFree(t) PROVE Goal
  BY <1>12, ReleaseKeeps DEF FeedbackFree, ItemTypes, Locks, Owners, Lockables
<1>13. ASSUME NEW y \in Tracks \cup Elements, OperatorReleasesItem(y)
     PROVE Goal
  BY <1>13, ReleaseKeeps DEF OperatorReleasesItem, Owners
<1>14. ASSUME UNCHANGED lock PROVE Goal
  BY <1>14
<1>15. ASSUME NEW m \in Locos, NEW r \in Routes, NEW a \in {RouteAuto,
     RouteStop}, AddTimeTable(m, r, a)
     PROVE UNCHANGED lock
  BY <1>15 DEF AddTimeTable
<1>16. ASSUME NEW r \in Routes, OperatorExecutes(r) PROVE UNCHANGED lock
  BY <1>16 DEF OperatorExecutes, Operate
<1>17. ASSUME NEW r \in Routes, OperatorReleasesRoute(r) PROVE UNCHANGED lock
  BY <1>17 DEF OperatorReleasesRoute, Operate
<1>18. ASSUME NEW e \in Elements, OperatorThrows(e) PROVE UNCHANGED lock
  BY <1>18 DEF OperatorThrows, Operate
<1>19. ASSUME NEW e \in Elements, NEW p \in Positions, ForeignCommand(e, p)
     PROVE UNCHANGED lock
  BY <1>19 DEF ForeignCommand
<1>20. ASSUME NEW m \in Locos, RouteReserved(m) PROVE UNCHANGED lock
  BY <1>20 DEF RouteReserved
<1>21. ASSUME NEW m \in Locos, CheckReserved(m) PROVE UNCHANGED lock
  BY <1>21 DEF CheckReserved
<1>22. ASSUME NEW m \in Locos, Dequeue(m) PROVE UNCHANGED lock
  BY <1>22 DEF Dequeue
<1>23. ASSUME NEW m \in Locos, DecideExecute(m) PROVE UNCHANGED lock
  BY <1>23 DEF DecideExecute
<1>24. ASSUME NEW m \in Locos, DecideRefused(m) PROVE UNCHANGED lock
  BY <1>24 DEF DecideRefused
<1>25. ASSUME NEW m \in Locos, RouteLocked(m) PROVE UNCHANGED lock
  BY <1>25 DEF RouteLocked
<1>26. ASSUME NEW m \in Locos, FreeRoute(m) PROVE UNCHANGED lock
  BY <1>26 DEF FreeRoute
<1>27. ASSUME NEW m \in Locos, FreeDone(m) PROVE UNCHANGED lock
  BY <1>27 DEF FreeDone
<1>28. ASSUME NEW m \in Locos, PlanFollowUp(m) PROVE UNCHANGED lock
  BY <1>28 DEF PlanFollowUp
<1>29. ASSUME NEW m \in Locos, StartLoco(m) PROVE UNCHANGED lock
  BY <1>29 DEF StartLoco
<1>30. ASSUME NEW m \in Locos, ReleaseLoco(m) PROVE UNCHANGED lock
  BY <1>30 DEF ReleaseLoco
<1>31. ASSUME NEW m \in Locos, ReachFirst(m) PROVE UNCHANGED lock
  BY <1>31 DEF ReachFirst
<1>32. ASSUME NEW m \in Locos, ReachStop(m) PROVE UNCHANGED lock
  BY <1>32 DEF ReachStop
<1>33. ASSUME NEW t \in Threads, CheckExecute(t) PROVE UNCHANGED lock
  BY <1>33 DEF CheckExecute
<1>34. ASSUME NEW t \in Threads, BeginExecute(t) PROVE UNCHANGED lock
  BY <1>34 DEF BeginExecute
<1>35. ASSUME NEW t \in Threads, ExecuteRefused(t) PROVE UNCHANGED lock
  BY <1>35 DEF ExecuteRefused
<1>36. ASSUME NEW t \in Threads, ExecuteMember(t) PROVE UNCHANGED lock
  BY <1>36 DEF ExecuteMember
<1>37. ASSUME NEW t \in Threads, RouteExecuted(t) PROVE UNCHANGED lock
  BY <1>37 DEF RouteExecuted
<1>38. ASSUME NEW t \in Threads, BeginRelease(t) PROVE UNCHANGED lock
  BY <1>38 DEF BeginRelease
<1>39. ASSUME NEW t \in Threads, UnlockMember(t) PROVE UNCHANGED lock
  BY <1>39 DEF UnlockMember
<1>40. ASSUME NEW t \in Threads, UnlockDone(t) PROVE UNCHANGED lock
  BY <1>40 DEF UnlockDone
<1>41. ASSUME ElementThrown PROVE UNCHANGED lock
  BY <1>41 DEF ElementThrown
<1>42. ASSUME UNCHANGED vars PROVE Goal
  BY <1>42, <1>14 DEF vars
<1> HIDE DEF Goal
<1>q. Goal
  BY <1>1, <1>2, <1>3, <1>4, <1>5, <1>6, <1>7, <1>8, <1>9, <1>10, <1>11,
     <1>12, <1>13, <1>14, <1>15, <1>16, <1>17, <1>18, <1>19, <1>20, <1>21,
     <1>22, <1>23, <1>24, <1>25, <1>26, <1>27, <1>28, <1>29, <1>30, <1>31,
     <1>32, <1>33, <1>34, <1>35, <1>36, <1>37, <1>38, <1>39, <1>40, <1>41,
     <1>42
     DEF Next, ProcedureStep, LocoStep, LocoBegins, OperatorStep, Environment
<1> QED BY <1>q DEF Goal

\* No locomotive ever takes an item from another one, whatever the layout and
\* whatever interferes (LockableItem::Release compares the owner).
THEOREM OwnersKeep == Spec => OnlyOwnerReleases
<1>1. TypeInv /\ [Next]_vars =>
        [\A x \in Lockables : \A l \in Locos :
           lock[x].owner = l /\ lock'[x].owner # l =>
             \/ Steps(l)
             \/ freeTracks'[l] # freeTracks[l]
             \/ Steps(Operator)
             \/ x \in FreeingTracks
             \/ x \notin Routes /\ "releaseItem" \in Disturbances]_vars
  BY OwnerStep
<1> QED BY TypeInvariant, <1>1, PTL DEF Spec, OnlyOwnerReleases

(***************************************************************************)
(* The updateMutex of a route                                                *)
(***************************************************************************)
Inside(t) ==
  pc[t] \in {"reserve", "lock", "execute", "undoTrack", "unlock", "undo"}

MutexInv ==
  \A t \in Threads :
    /\ Inside(t) => mutex[work[t]] = t
    /\ pc[t] = "undo" => ~atUnlock[work[t]]

\* Every action keeps the mutex with the thread that is inside.
LEMMA MutexStep ==
  ASSUME TypeInv, MutexInv, [Next]_vars
  PROVE  MutexInv'
<1> USE KindsDiffer, NoneIsNoLoco
    DEF TypeInv, TypeOK, ItemTypes, ThreadTypes, WorkOK, RouteLabels, Labels,
        MutexInv, Inside, Threads, Lockables
<1>1. ASSUME NEW l \in Locos, NEW r \in Routes, SearchRoute(l, r)
     PROVE MutexInv'
  BY <1>1 DEF SearchRoute, EnterReserve, Enter, Proceed, Goto
<1>2. ASSUME NEW r \in Routes, OperatorExecutes(r) PROVE MutexInv'
  BY <1>2 DEF OperatorExecutes, Operate, Proceed, Goto
<1>3. ASSUME NEW r \in Routes, OperatorReleasesRoute(r) PROVE MutexInv'
  BY <1>3 DEF OperatorReleasesRoute, Operate, Proceed, Goto
<1>4. ASSUME NEW e \in Elements, OperatorThrows(e) PROVE MutexInv'
  BY <1>4 DEF OperatorThrows, Operate, Proceed, Goto
<1>5. ASSUME NEW l \in Locos, ReserveMember(l) PROVE MutexInv'
  BY <1>5 DEF ReserveMember, Proceed, Goto, ReleaseLabel
<1>6. ASSUME NEW l \in Locos, RouteReserved(l) PROVE MutexInv'
  BY <1>6 DEF RouteReserved, Leave, Settle, Proceed, Goto
<1>7. ASSUME NEW l \in Locos, CheckReserved(l) PROVE MutexInv'
  BY <1>7 DEF CheckReserved, Leave, Settle, Proceed, Goto
<1>8. ASSUME NEW l \in Locos, Dequeue(l) PROVE MutexInv'
  BY <1>8 DEF Dequeue, Leave, Settle, Proceed, Goto
<1>9. ASSUME NEW l \in Locos, DecideReserve(l) PROVE MutexInv'
  BY <1>9 DEF DecideReserve, EnterReserve, Enter, Proceed, Goto
<1>10. ASSUME NEW l \in Locos, DecideLock(l) PROVE MutexInv'
  BY <1>10 DEF DecideLock, Enter, Proceed, Goto
<1>11. ASSUME NEW l \in Locos, DecideExecute(l) PROVE MutexInv'
  BY <1>11 DEF DecideExecute, Leave, Settle, Proceed, Goto
<1>12. ASSUME NEW l \in Locos, DecideRefused(l) PROVE MutexInv'
  BY <1>12 DEF DecideRefused, Leave, Settle, Proceed, Goto
<1>13. ASSUME NEW l \in Locos, LockMember(l) PROVE MutexInv'
  BY <1>13 DEF LockMember, Proceed, Goto, ReleaseLabel
<1>14. ASSUME NEW l \in Locos, RouteLocked(l) PROVE MutexInv'
  BY <1>14 DEF RouteLocked, Leave, Settle, Proceed, Goto
<1>15. ASSUME NEW l \in Locos, UndoTrack(l) PROVE MutexInv'
  BY <1>15 DEF UndoTrack, Proceed, Goto, ReleaseLabel
<1>16. ASSUME NEW l \in Locos, DropTrack(l) PROVE MutexInv'
  BY <1>16 DEF DropTrack, Leave, Settle, Proceed, Goto
<1>17. ASSUME NEW l \in Locos, FreeRoute(l) PROVE MutexInv'
  BY <1>17 DEF FreeRoute, Enter, Proceed, Goto, ReleaseLabel, TrainTypes
<1>18. ASSUME NEW l \in Locos, FreeDone(l) PROVE MutexInv'
  BY <1>18 DEF FreeDone, Leave, Settle, Proceed, Goto
<1>19. ASSUME NEW l \in Locos, PlanFollowUp(l) PROVE MutexInv'
  BY <1>19 DEF PlanFollowUp, Leave, Settle, Proceed, Goto
<1>20. ASSUME NEW l \in Locos, ReleaseLoco(l) PROVE MutexInv'
  BY <1>20 DEF ReleaseLoco, Leave, Settle, Proceed, Goto
<1>21. ASSUME NEW l \in Locos, ReachFirst(l) PROVE MutexInv'
  BY <1>21 DEF ReachFirst, Leave, Settle, Proceed, Goto
<1>22. ASSUME NEW l \in Locos, ReachStop(l) PROVE MutexInv'
  BY <1>22 DEF ReachStop, Leave, Settle, Proceed, Goto
<1>23. ASSUME NEW t \in Threads, CheckExecute(t) PROVE MutexInv'
  BY <1>23 DEF CheckExecute, Leave, Settle, Proceed, Goto
<1>24. ASSUME NEW t \in Threads, BeginExecute(t) PROVE MutexInv'
  BY <1>24 DEF BeginExecute, Enter, Proceed, Goto
<1>25. ASSUME NEW t \in Threads, ExecuteRefused(t) PROVE MutexInv'
  BY <1>25 DEF ExecuteRefused, ExecuteFails, Settle, Proceed, Goto
<1>26. ASSUME NEW t \in Threads, ExecuteMember(t) PROVE MutexInv'
  <2>1. ASSUME Proceed(t, "execute", next[t] + 1),
               UNCHANGED <<mutex, work, caller, inUse>>
        PROVE  MutexInv'
    BY <1>26, <2>1 DEF ExecuteMember, Proceed, Goto
  <2>2. ASSUME ExecuteFails(t), Leave(t)
        PROVE  MutexInv'
    BY <1>26, <2>2
       DEF ExecuteMember, Leave, ExecuteFails, Settle, Proceed, Goto
  <2> QED BY <1>26, <2>1, <2>2 DEF ExecuteMember
<1>27. ASSUME NEW t \in Threads, RouteExecuted(t) PROVE MutexInv'
  BY <1>27 DEF RouteExecuted, Leave, Settle, Proceed, Goto
<1>28. ASSUME NEW t \in Threads, BeginRelease(t) PROVE MutexInv'
  BY <1>28 DEF BeginRelease, Enter, Proceed, Goto, ReleaseLabel
<1>29. ASSUME NEW t \in Threads, UnlockMember(t) PROVE MutexInv'
  BY <1>29 DEF UnlockMember, Leave, Settle, Proceed, Goto
<1>30. ASSUME NEW t \in Threads, UnlockDone(t) PROVE MutexInv'
  BY <1>30 DEF UnlockDone, Leave, Settle, Proceed, Goto
<1>31. ASSUME NEW t \in Threads, UndoMember(t) PROVE MutexInv'
  BY <1>31 DEF UndoMember, Leave, Settle, Proceed, Goto
<1>32. ASSUME NEW t \in Threads, RouteReleased(t) PROVE MutexInv'
  BY <1>32 DEF RouteReleased, Leave, ReturnFromRelease, Settle, Proceed, Goto
<1>33. ASSUME ElementThrown PROVE MutexInv'
  BY <1>33 DEF ElementThrown, Leave, Settle, Proceed, Goto
<1>34. ASSUME UNCHANGED <<mutex, atUnlock, pc, work>> PROVE MutexInv'
  BY <1>34
<1>35. ASSUME NEW l \in Locos, NEW t \in Tracks, PlaceLoco(l, t)
     PROVE UNCHANGED <<mutex, atUnlock, pc, work>>
  BY <1>35 DEF PlaceLoco, threadVars
<1>36. ASSUME NEW l \in Locos, StartLoco(l)
     PROVE UNCHANGED <<mutex, atUnlock, pc, work>>
  BY <1>36 DEF StartLoco, threadVars
<1>37. ASSUME NEW l \in Locos, FreeTrack(l)
     PROVE UNCHANGED <<mutex, atUnlock, pc, work>>
  BY <1>37 DEF FreeTrack, threadVars
<1>38. ASSUME NEW l \in Locos, NEW r \in Routes, NEW a \in {RouteAuto,
     RouteStop}, AddTimeTable(l, r, a)
     PROVE UNCHANGED <<mutex, atUnlock, pc, work>>
  BY <1>38 DEF AddTimeTable, threadVars
<1>39. ASSUME NEW t \in Tracks, FeedbackFree(t)
     PROVE UNCHANGED <<mutex, atUnlock, pc, work>>
  BY <1>39 DEF FeedbackFree, threadVars
<1>40. ASSUME NEW y \in Tracks \cup Elements, OperatorReleasesItem(y)
     PROVE UNCHANGED <<mutex, atUnlock, pc, work>>
  BY <1>40 DEF OperatorReleasesItem, threadVars
<1>41. ASSUME NEW e \in Elements, NEW p \in Positions, ForeignCommand(e, p)
     PROVE UNCHANGED <<mutex, atUnlock, pc, work>>
  BY <1>41 DEF ForeignCommand, threadVars
<1>42. ASSUME UNCHANGED vars PROVE MutexInv'
  BY <1>42, <1>34 DEF vars, threadVars
<1> HIDE
   DEF TypeInv, TypeOK, ItemTypes, ThreadTypes, WorkOK, RouteLabels, Labels,
       MutexInv, Inside
<1> QED
  BY <1>1, <1>2, <1>3, <1>4, <1>5, <1>6, <1>7, <1>8, <1>9, <1>10, <1>11,
     <1>12, <1>13, <1>14, <1>15, <1>16, <1>17, <1>18, <1>19, <1>20, <1>21,
     <1>22, <1>23, <1>24, <1>25, <1>26, <1>27, <1>28, <1>29, <1>30, <1>31,
     <1>32, <1>33, <1>34, <1>35, <1>36, <1>37, <1>38, <1>39, <1>40, <1>41,
     <1>42
     DEF Next, ProcedureStep, LocoStep, LocoBegins, OperatorStep, Environment

(***************************************************************************)
(* The lock of a route                                                       *)
(***************************************************************************)
\* The lock of a route is changed by the locomotive that owns it or takes it
\* while it is free, or at the end of a release.
RouteLockMoves(r) ==
  \/ lock'[r] = lock[r]
  \/ \E l \in Locos : /\ lock[r].owner \in {None, l}
                      /\ lock'[r].owner = l
                      /\ lock'[r].state # "Free"
  \/ \E t \in Threads : RouteReleased(t) /\ work[t] = r

\* What reserving and locking make of a lock.
LEMMA TakenLock ==
  ASSUME NEW k \in Locks, NEW l \in Locos
  PROVE  /\ CanReserve(k, l) => /\ k.owner \in {None, l}
                                /\ Reserved(k, l).owner = l
                                /\ Reserved(k, l).state # "Free"
         /\ CanLock(k, l) => /\ Locked(k).owner = l
                             /\ Locked(k).state # "Free"
BY DEF CanReserve, Reserved, CanLock, Locked, InUse, Locks

\* Releases of tracks and elements leave the locks of routes alone.
LEMMA ReleaseItemRoutes ==
  ASSUME ItemTypes, NEW x \in Tracks \cup Elements, NEW id,
         ReleaseItem(x, id), NEW r \in Routes
  PROVE  lock'[r] = lock[r]
BY KindsDiffer DEF ItemTypes, ReleaseItem, Lockables

\* No other step changes the lock of a route.
LEMMA RouteLockStep ==
  ASSUME TypeInv, [Next]_vars, NEW r \in Routes
  PROVE  RouteLockMoves(r)
<1> USE KindsDiffer, LayoutTypes DEF TypeInv, TypeOK, ItemTypes, Lockables
<1>1. ASSUME NEW t \in Threads, RouteReleased(t) PROVE RouteLockMoves(r)
  BY <1>1 DEF RouteReleased, RouteLockMoves
<1>2. ASSUME NEW l \in Locos, NEW q \in Routes, SearchRoute(l, q)
     PROVE RouteLockMoves(r)
  BY <1>2, TakenLock DEF SearchRoute, EnterReserve, RouteLockMoves
<1>3. ASSUME NEW l \in Locos, DecideReserve(l) PROVE RouteLockMoves(r)
  BY <1>3, TakenLock DEF DecideReserve, EnterReserve, RouteLockMoves
<1>4. ASSUME NEW l \in Locos, DecideLock(l) PROVE RouteLockMoves(r)
  BY <1>4, TakenLock DEF DecideLock, RouteLockMoves, CanLock
<1>5. ASSUME NEW l \in Locos, LockMember(l) PROVE lock'[r] = lock[r]
  <2>1. Member(work[l], next[l]) \in Tracks \cup Elements
    BY <1>5, MemberTypes
       DEF LockMember, ThreadTypes, WorkOK, RouteLabels, Labels, Threads
  <2>2. lock \in [Lockables -> Locks]
    OBVIOUS
  <2> HIDE DEF TypeInv, TypeOK, ItemTypes
  <2> QED BY <2>2, <1>5, <2>1 DEF LockMember
<1>6. ASSUME NEW l \in Locos, ReserveMember(l) PROVE lock'[r] = lock[r]
  <2>1. Member(work[l], next[l]) \in Tracks \cup Elements
    BY <1>6, MemberTypes
       DEF ReserveMember, ThreadTypes, WorkOK, RouteLabels, Labels, Threads
  <2>2. lock \in [Lockables -> Locks]
    OBVIOUS
  <2> HIDE DEF TypeInv, TypeOK, ItemTypes
  <2> QED BY <2>2, <1>6, <2>1 DEF ReserveMember
<1>7. ASSUME NEW l \in Locos, NEW t \in Tracks, PlaceLoco(l, t)
     PROVE lock'[r] = lock[r]
  BY <1>7 DEF PlaceLoco
<1>8. ASSUME NEW l \in Locos, UndoTrack(l) PROVE lock'[r] = lock[r]
  BY <1>8, ReleaseItemRoutes
     DEF UndoTrack, ThreadTypes, WorkOK, RouteLabels, Labels, Threads
<1>9. ASSUME NEW l \in Locos, DropTrack(l) PROVE lock'[r] = lock[r]
  BY <1>9, ReleaseItemRoutes
     DEF DropTrack, ThreadTypes, WorkOK, RouteLabels, Labels, Threads
<1>10. ASSUME NEW l \in Locos, FreeTrack(l) PROVE lock'[r] = lock[r]
  BY <1>10, ReleaseItemRoutes DEF FreeTrack, TrainTypes
<1>11. ASSUME NEW t \in Threads, UndoMember(t) PROVE lock'[r] = lock[r]
  BY <1>11, MemberTypes, ReleaseItemRoutes
     DEF UndoMember, ThreadTypes, WorkOK, RouteLabels, Labels, Threads
<1>12. ASSUME NEW t \in Tracks, FeedbackFree(t) PROVE lock'[r] = lock[r]
  BY <1>12, ReleaseItemRoutes DEF FeedbackFree
<1>13. ASSUME NEW y \in Tracks \cup Elements, OperatorReleasesItem(y)
     PROVE lock'[r] = lock[r]
  BY <1>13, ReleaseItemRoutes DEF OperatorReleasesItem
<1>14. lock'[r] = lock[r] => RouteLockMoves(r)
  BY DEF RouteLockMoves
<1>15. ASSUME NEW l \in Locos, NEW q \in Routes, NEW a \in {RouteAuto,
     RouteStop}, AddTimeTable(l, q, a)
     PROVE lock' = lock
  BY <1>15 DEF AddTimeTable
<1>16. ASSUME NEW q \in Routes, OperatorExecutes(q) PROVE lock' = lock
  BY <1>16 DEF OperatorExecutes, Operate
<1>17. ASSUME NEW q \in Routes, OperatorReleasesRoute(q) PROVE lock' = lock
  BY <1>17 DEF OperatorReleasesRoute, Operate
<1>18. ASSUME NEW e \in Elements, OperatorThrows(e) PROVE lock' = lock
  BY <1>18 DEF OperatorThrows, Operate
<1>19. ASSUME NEW e \in Elements, NEW p \in Positions, ForeignCommand(e, p)
     PROVE lock' = lock
  BY <1>19 DEF ForeignCommand
<1>20. ASSUME NEW l \in Locos, RouteReserved(l) PROVE lock' = lock
  BY <1>20 DEF RouteReserved
<1>21. ASSUME NEW l \in Locos, CheckReserved(l) PROVE lock' = lock
  BY <1>21 DEF CheckReserved
<1>22. ASSUME NEW l \in Locos, Dequeue(l) PROVE lock' = lock
  BY <1>22 DEF Dequeue
<1>23. ASSUME NEW l \in Locos, DecideExecute(l) PROVE lock' = lock
  BY <1>23 DEF DecideExecute
<1>24. ASSUME NEW l \in Locos, DecideRefused(l) PROVE lock' = lock
  BY <1>24 DEF DecideRefused
<1>25. ASSUME NEW l \in Locos, RouteLocked(l) PROVE lock' = lock
  BY <1>25 DEF RouteLocked
<1>26. ASSUME NEW l \in Locos, FreeRoute(l) PROVE lock' = lock
  BY <1>26 DEF FreeRoute
<1>27. ASSUME NEW l \in Locos, FreeDone(l) PROVE lock' = lock
  BY <1>27 DEF FreeDone
<1>28. ASSUME NEW l \in Locos, PlanFollowUp(l) PROVE lock' = lock
  BY <1>28 DEF PlanFollowUp
<1>29. ASSUME NEW l \in Locos, StartLoco(l) PROVE lock' = lock
  BY <1>29 DEF StartLoco
<1>30. ASSUME NEW l \in Locos, ReleaseLoco(l) PROVE lock' = lock
  BY <1>30 DEF ReleaseLoco
<1>31. ASSUME NEW l \in Locos, ReachFirst(l) PROVE lock' = lock
  BY <1>31 DEF ReachFirst
<1>32. ASSUME NEW l \in Locos, ReachStop(l) PROVE lock' = lock
  BY <1>32 DEF ReachStop
<1>33. ASSUME NEW t \in Threads, CheckExecute(t) PROVE lock' = lock
  BY <1>33 DEF CheckExecute
<1>34. ASSUME NEW t \in Threads, BeginExecute(t) PROVE lock' = lock
  BY <1>34 DEF BeginExecute
<1>35. ASSUME NEW t \in Threads, ExecuteRefused(t) PROVE lock' = lock
  BY <1>35 DEF ExecuteRefused
<1>36. ASSUME NEW t \in Threads, ExecuteMember(t) PROVE lock' = lock
  BY <1>36 DEF ExecuteMember
<1>37. ASSUME NEW t \in Threads, RouteExecuted(t) PROVE lock' = lock
  BY <1>37 DEF RouteExecuted
<1>38. ASSUME NEW t \in Threads, BeginRelease(t) PROVE lock' = lock
  BY <1>38 DEF BeginRelease
<1>39. ASSUME NEW t \in Threads, UnlockMember(t) PROVE lock' = lock
  BY <1>39 DEF UnlockMember
<1>40. ASSUME NEW t \in Threads, UnlockDone(t) PROVE lock' = lock
  BY <1>40 DEF UnlockDone
<1>41. ASSUME ElementThrown PROVE lock' = lock
  BY <1>41 DEF ElementThrown
<1>42. ASSUME UNCHANGED vars PROVE lock' = lock
  BY <1>42 DEF vars
<1> HIDE DEF TypeInv, TypeOK, ItemTypes
<1> QED
  BY <1>1, <1>2, <1>3, <1>4, <1>5, <1>6, <1>7, <1>8, <1>9, <1>10, <1>11,
     <1>12, <1>13, <1>14, <1>15, <1>16, <1>17, <1>18, <1>19, <1>20, <1>21,
     <1>22, <1>23, <1>24, <1>25, <1>26, <1>27, <1>28, <1>29, <1>30, <1>31,
     <1>32, <1>33, <1>34, <1>35, <1>36, <1>37, <1>38, <1>39, <1>40, <1>41,
     <1>42
     DEF Next, ProcedureStep, LocoStep, LocoBegins, OperatorStep, Environment

\* Only the end of a release makes a route free, and there nothing is pending.
LEMMA UnlockedStep ==
  ASSUME TypeInv, MutexInv, [Next]_vars, NEW r \in Routes,
         InUse(lock[r]), ~InUse(lock'[r])
  PROVE  ~atUnlock'[r]
<1>1. PICK t \in Threads : RouteReleased(t) /\ work[t] = r
  BY RouteLockStep DEF RouteLockMoves, InUse
<1> QED BY <1>1 DEF RouteReleased, MutexInv

\* The updateMutex of a route belongs to the thread that reserves, locks,
\* executes or releases the route; and once the relations "At unlock" have
\* been executed, none is pending until the release has ended.
THEOREM MutexInvariant == Spec => []MutexInv
<1>1. Init => MutexInv
  BY DEF Init, MutexInv, Inside
<1>2. TypeInv /\ MutexInv /\ [Next]_vars => MutexInv'
  BY MutexStep
<1> QED BY TypeInvariant, <1>1, <1>2, PTL DEF Spec

\* However the operator, the trains and the command stations interfere, a
\* route that becomes free has had its relations "At unlock" executed: the
\* execution of a route never falls into its release (the updateMutex).
THEOREM UnlockedRoutes == Spec => UnlockedWhenFree
<1>1. TypeInv /\ MutexInv /\ [Next]_vars =>
        [\A r \in Routes :
           InUse(lock[r]) /\ ~InUse(lock'[r]) => ~atUnlock'[r]]_vars
  BY UnlockedStep
<1> QED BY TypeInvariant, MutexInvariant, <1>1, PTL DEF Spec, UnlockedWhenFree

(***************************************************************************)
(* When relations "At unlock" are pending, as long as the operator does not  *)
(* release routes.                                                           *)
(*                                                                           *)
(* The local isInUse of Route::Execute is read before the mutex of the route *)
(* is taken and used inside.  It stays true in between: a route in use is    *)
(* executed by its owner only, and only the owner can release it.            *)
(***************************************************************************)

\* Who has seen his route in use owns it.
InUseOK ==
  \A t \in Threads : inUse[t] =>
    /\ t \in Locos
    /\ pc[t] \in {"enter", "execute"}
    /\ lock[work[t]].owner = t

\* The operator executes routes and throws elements.
OperatorOK == pc[Operator] \in {"idle", "ready", "enter", "execute", "throw"}

\* A route without an owner is free.
RoutesOwned == \A r \in Routes : Consistent(lock[r])

PendingInv == InUseOK /\ OperatorOK /\ RoutesOwned /\ PendingUnlock

\* An owner keeps his route while he executes it.
LEMMA OwnerStays ==
  ASSUME TypeInv, PendingInv, [Next]_vars, NEW t \in Threads, inUse[t]
  PROVE  lock'[work[t]].owner = t
<1>1. work[t] \in Routes
  BY DEF TypeInv, TypeOK, WorkOK, PendingInv, InUseOK, RouteLabels, Labels
<1>2. ASSUME NEW u \in Threads, RouteReleased(u), work[u] = work[t]
      PROVE  lock'[work[t]].owner = t
  <2>1. u # Operator /\ u # t
    BY <1>2 DEF RouteReleased, PendingInv, InUseOK, OperatorOK
  <2>2. lock' = [lock EXCEPT ![work[u]] = Released(@, u)]
    BY <1>2, <2>1 DEF RouteReleased, Id
  <2> QED
    BY <1>1, <1>2, <2>1, <2>2, NoneIsNoLoco
       DEF TypeInv, TypeOK, ItemTypes, Lockables, Released, CanRelease,
           PendingInv, InUseOK, Threads
<1> QED
  BY <1>1, <1>2, RouteLockStep, NoneIsNoLoco
     DEF RouteLockMoves, PendingInv, InUseOK

\* The locals of a thread follow its label.
LEMMA LocalsStep ==
  ASSUME TypeInv, PendingInv, "releaseRoute" \notin Disturbances, [Next]_vars
  PROVE  InUseOK' /\ OperatorOK'
<1> DEFINE Kept(t) ==
             /\ work'[t] = work[t]
             /\ inUse[t] \/ (lock' = lock /\ lock[work[t]].owner = t)
           ThreadGoal ==
             /\ OperatorOK'
             /\ \A t \in Threads : inUse'[t] =>
                  /\ t \in Locos
                  /\ pc'[t] \in {"enter", "execute"}
                  /\ Kept(t)
<1> USE KindsDiffer, NoneIsNoLoco
    DEF TypeInv, TypeOK, ItemTypes, ThreadTypes, WorkOK, RouteLabels, Labels,
        PendingInv, InUseOK, OperatorOK, RoutesOwned, Consistent, Threads,
        Lockables
<1>1. ASSUME NEW l \in Locos, NEW r \in Routes, SearchRoute(l, r)
     PROVE ThreadGoal
  BY <1>1 DEF SearchRoute, EnterReserve, Enter, Proceed, Goto
<1>2. ASSUME NEW l \in Locos, ReserveMember(l) PROVE ThreadGoal
  BY <1>2 DEF ReserveMember, Proceed, Goto
<1>3. ASSUME NEW l \in Locos, RouteReserved(l) PROVE ThreadGoal
  BY <1>3 DEF RouteReserved, Proceed, Goto
<1>4. ASSUME NEW l \in Locos, CheckReserved(l) PROVE ThreadGoal
  BY <1>4 DEF CheckReserved, Goto
<1>5. ASSUME NEW l \in Locos, Dequeue(l) PROVE ThreadGoal
  BY <1>5 DEF Dequeue, Goto, Settle, Proceed
<1>6. ASSUME NEW l \in Locos, DecideExecute(l) PROVE ThreadGoal
  BY <1>6 DEF DecideExecute, Goto
<1>7. ASSUME NEW l \in Locos, DecideRefused(l) PROVE ThreadGoal
  BY <1>7 DEF DecideRefused, Settle, Proceed, Goto
<1>8. ASSUME NEW l \in Locos, LockMember(l) PROVE ThreadGoal
  BY <1>8 DEF LockMember, Proceed, Goto
<1>9. ASSUME NEW l \in Locos, RouteLocked(l) PROVE ThreadGoal
  BY <1>9 DEF RouteLocked, Proceed, Goto
<1>10. ASSUME NEW l \in Locos, UndoTrack(l) PROVE ThreadGoal
  BY <1>10 DEF UndoTrack, Proceed, Goto
<1>11. ASSUME NEW l \in Locos, DropTrack(l) PROVE ThreadGoal
  BY <1>11 DEF DropTrack, Settle, Proceed, Goto
<1>12. ASSUME NEW l \in Locos, FreeTrack(l) PROVE ThreadGoal
  BY <1>12 DEF FreeTrack, threadVars
<1>13. ASSUME NEW l \in Locos, FreeRoute(l) PROVE ThreadGoal
  BY <1>13 DEF FreeRoute, Enter, Proceed, Goto
<1>14. ASSUME NEW l \in Locos, FreeDone(l) PROVE ThreadGoal
  BY <1>14 DEF FreeDone, Goto
<1>15. ASSUME NEW l \in Locos, PlanFollowUp(l) PROVE ThreadGoal
  BY <1>15 DEF PlanFollowUp, Goto
<1>16. ASSUME NEW l \in Locos, StartLoco(l) PROVE ThreadGoal
  BY <1>16 DEF StartLoco, threadVars
<1>17. ASSUME NEW l \in Locos, ReleaseLoco(l) PROVE ThreadGoal
  BY <1>17 DEF ReleaseLoco, Goto
<1>18. ASSUME NEW l \in Locos, ReachFirst(l) PROVE ThreadGoal
  BY <1>18 DEF ReachFirst, Goto
<1>19. ASSUME NEW l \in Locos, ReachStop(l) PROVE ThreadGoal
  BY <1>19 DEF ReachStop, Goto
<1>20. ASSUME NEW l \in Locos, DecideReserve(l) PROVE ThreadGoal
  BY <1>20 DEF DecideReserve, EnterReserve, Enter, Proceed, Goto
<1>21. ASSUME NEW l \in Locos, DecideLock(l) PROVE ThreadGoal
  BY <1>21 DEF DecideLock, Enter, Proceed, Goto
<1>22. ASSUME NEW t \in Threads, CheckExecute(t) PROVE ThreadGoal
  BY <1>22 DEF CheckExecute, Goto, MayExecute, InUse, Id
<1>23. ASSUME NEW t \in Threads, BeginExecute(t) PROVE ThreadGoal
  BY <1>23 DEF BeginExecute, Enter, Proceed, Goto
<1>24. ASSUME NEW t \in Threads, ExecuteRefused(t) PROVE ThreadGoal
  BY <1>24 DEF ExecuteRefused, ExecuteFails, Settle, Proceed, Goto
<1>25. ASSUME NEW t \in Threads, ExecuteMember(t) PROVE ThreadGoal
  BY <1>25 DEF ExecuteMember, ExecuteFails, Settle, Proceed, Goto
<1>26. ASSUME NEW t \in Threads, RouteExecuted(t) PROVE ThreadGoal
  BY <1>26 DEF RouteExecuted, Settle, Proceed, Goto
<1>27. ASSUME NEW t \in Threads, BeginRelease(t) PROVE ThreadGoal
  BY <1>27 DEF BeginRelease, Enter, Proceed, Goto
<1>28. ASSUME NEW t \in Threads, UnlockMember(t) PROVE ThreadGoal
  BY <1>28 DEF UnlockMember, Proceed, Goto
<1>29. ASSUME NEW t \in Threads, UnlockDone(t) PROVE ThreadGoal
  BY <1>29 DEF UnlockDone, Proceed, Goto
<1>30. ASSUME NEW t \in Threads, UndoMember(t) PROVE ThreadGoal
  BY <1>30 DEF UndoMember, Proceed, Goto
<1>31. ASSUME NEW t \in Threads, RouteReleased(t) PROVE ThreadGoal
  BY <1>31 DEF RouteReleased, ReturnFromRelease, Settle, Proceed, Goto
<1>32. ASSUME NEW l \in Locos, NEW q \in Routes,
            NEW a \in {RouteAuto, RouteStop}, AddTimeTable(l, q, a)
     PROVE ThreadGoal
  BY <1>32 DEF AddTimeTable, threadVars
<1>33. ASSUME NEW l \in Locos, NEW t \in Tracks, PlaceLoco(l, t)
     PROVE ThreadGoal
  BY <1>33 DEF PlaceLoco, threadVars
<1>34. ASSUME NEW q \in Routes, OperatorExecutes(q) PROVE ThreadGoal
  BY <1>34 DEF OperatorExecutes, Operate, Proceed, Goto
<1>35. ASSUME NEW q \in Routes, OperatorReleasesRoute(q) PROVE ThreadGoal
  BY <1>35 DEF OperatorReleasesRoute
<1>36. ASSUME NEW e \in Elements, OperatorThrows(e) PROVE ThreadGoal
  BY <1>36 DEF OperatorThrows, Operate, Proceed, Goto
<1>37. ASSUME NEW y \in Tracks \cup Elements, OperatorReleasesItem(y)
     PROVE ThreadGoal
  BY <1>37 DEF OperatorReleasesItem, threadVars
<1>38. ASSUME ElementThrown PROVE ThreadGoal
  BY <1>38 DEF ElementThrown, Settle, Proceed, Goto
<1>39. ASSUME NEW t \in Tracks, FeedbackFree(t) PROVE ThreadGoal
  BY <1>39 DEF FeedbackFree, threadVars
<1>40. ASSUME NEW e \in Elements, NEW p \in Positions, ForeignCommand(e, p)
     PROVE ThreadGoal
  BY <1>40 DEF ForeignCommand, threadVars
<1>41. ASSUME UNCHANGED vars PROVE ThreadGoal
  BY <1>41 DEF vars, threadVars
<1> HIDE DEF ThreadGoal
<1>42. ThreadGoal
  BY <1>1, <1>2, <1>3, <1>4, <1>5, <1>6, <1>7, <1>8, <1>9, <1>10, <1>11,
     <1>12, <1>13, <1>14, <1>15, <1>16, <1>17, <1>18, <1>19, <1>20, <1>21,
     <1>22, <1>23, <1>24, <1>25, <1>26, <1>27, <1>28, <1>29, <1>30, <1>31,
     <1>32, <1>33, <1>34, <1>35, <1>36, <1>37, <1>38, <1>39, <1>40, <1>41
     DEF Next, ProcedureStep, LocoStep, LocoBegins, OperatorStep, Environment
<1>43. OperatorOK'
  BY <1>42 DEF ThreadGoal
<1>44. InUseOK'
  BY <1>42, OwnerStays DEF ThreadGoal
<1> QED BY <1>43, <1>44

\* Relations become pending by the execution of a route in use only.
LEMMA ArmedStep ==
  ASSUME TypeInv, [Next]_vars, NEW r \in Routes, atUnlock'[r], ~atUnlock[r]
  PROVE  \E t \in Threads : RouteExecuted(t) /\ work[t] = r /\ inUse[t]
<1> DEFINE Goal ==
      \E t \in Threads : RouteExecuted(t) /\ work[t] = r /\ inUse[t]
<1>1. ASSUME NEW l \in Locos, NEW q \in Routes, SearchRoute(l, q)
      PROVE  atUnlock' = atUnlock
  BY <1>1 DEF SearchRoute
<1>2. ASSUME NEW l \in Locos, ReserveMember(l) PROVE atUnlock' = atUnlock
  BY <1>2 DEF ReserveMember
<1>3. ASSUME NEW l \in Locos, RouteReserved(l) PROVE atUnlock' = atUnlock
  BY <1>3 DEF RouteReserved
<1>4. ASSUME NEW l \in Locos, CheckReserved(l) PROVE atUnlock' = atUnlock
  BY <1>4 DEF CheckReserved
<1>5. ASSUME NEW l \in Locos, Dequeue(l) PROVE atUnlock' = atUnlock
  BY <1>5 DEF Dequeue
<1>6. ASSUME NEW l \in Locos, DecideReserve(l) PROVE atUnlock' = atUnlock
  BY <1>6 DEF DecideReserve
<1>7. ASSUME NEW l \in Locos, DecideLock(l) PROVE atUnlock' = atUnlock
  BY <1>7 DEF DecideLock
<1>8. ASSUME NEW l \in Locos, DecideExecute(l) PROVE atUnlock' = atUnlock
  BY <1>8 DEF DecideExecute
<1>9. ASSUME NEW l \in Locos, DecideRefused(l) PROVE atUnlock' = atUnlock
  BY <1>9 DEF DecideRefused
<1>10. ASSUME NEW l \in Locos, LockMember(l) PROVE atUnlock' = atUnlock
  BY <1>10 DEF LockMember
<1>11. ASSUME NEW l \in Locos, RouteLocked(l) PROVE atUnlock' = atUnlock
  BY <1>11 DEF RouteLocked
<1>12. ASSUME NEW l \in Locos, UndoTrack(l) PROVE atUnlock' = atUnlock
  BY <1>12 DEF UndoTrack
<1>13. ASSUME NEW l \in Locos, DropTrack(l) PROVE atUnlock' = atUnlock
  BY <1>13 DEF DropTrack
<1>14. ASSUME NEW l \in Locos, FreeTrack(l) PROVE atUnlock' = atUnlock
  BY <1>14 DEF FreeTrack
<1>15. ASSUME NEW l \in Locos, FreeRoute(l) PROVE atUnlock' = atUnlock
  BY <1>15 DEF FreeRoute
<1>16. ASSUME NEW l \in Locos, FreeDone(l) PROVE atUnlock' = atUnlock
  BY <1>16 DEF FreeDone
<1>17. ASSUME NEW l \in Locos, PlanFollowUp(l) PROVE atUnlock' = atUnlock
  BY <1>17 DEF PlanFollowUp
<1>18. ASSUME NEW l \in Locos, StartLoco(l) PROVE atUnlock' = atUnlock
  BY <1>18 DEF StartLoco
<1>19. ASSUME NEW l \in Locos, ReleaseLoco(l) PROVE atUnlock' = atUnlock
  BY <1>19 DEF ReleaseLoco
<1>20. ASSUME NEW l \in Locos, ReachFirst(l) PROVE atUnlock' = atUnlock
  BY <1>20 DEF ReachFirst
<1>21. ASSUME NEW l \in Locos, ReachStop(l) PROVE atUnlock' = atUnlock
  BY <1>21 DEF ReachStop
<1>22. ASSUME NEW t \in Threads, CheckExecute(t) PROVE atUnlock' = atUnlock
  BY <1>22 DEF CheckExecute
<1>23. ASSUME NEW t \in Threads, BeginExecute(t) PROVE atUnlock' = atUnlock
  BY <1>23 DEF BeginExecute
<1>24. ASSUME NEW t \in Threads, ExecuteRefused(t) PROVE atUnlock' = atUnlock
  BY <1>24 DEF ExecuteRefused
<1>25. ASSUME NEW t \in Threads, ExecuteMember(t) PROVE atUnlock' = atUnlock
  BY <1>25 DEF ExecuteMember
<1>26. ASSUME NEW t \in Threads, BeginRelease(t) PROVE atUnlock' = atUnlock
  BY <1>26 DEF BeginRelease
<1>27. ASSUME NEW t \in Threads, UnlockMember(t) PROVE atUnlock' = atUnlock
  BY <1>27 DEF UnlockMember
<1>28. ASSUME NEW t \in Threads, UndoMember(t) PROVE atUnlock' = atUnlock
  BY <1>28 DEF UndoMember
<1>29. ASSUME NEW t \in Threads, RouteReleased(t) PROVE atUnlock' = atUnlock
  BY <1>29 DEF RouteReleased
<1>30. ASSUME NEW l \in Locos, NEW q \in Routes,
             NEW a \in {RouteAuto, RouteStop}, AddTimeTable(l, q, a)
      PROVE  atUnlock' = atUnlock
  BY <1>30 DEF AddTimeTable
<1>31. ASSUME NEW l \in Locos, NEW t \in Tracks, PlaceLoco(l, t)
      PROVE  atUnlock' = atUnlock
  BY <1>31 DEF PlaceLoco
<1>32. ASSUME NEW q \in Routes, OperatorExecutes(q) PROVE atUnlock' = atUnlock
  BY <1>32 DEF OperatorExecutes, Operate
<1>33. ASSUME NEW q \in Routes, OperatorReleasesRoute(q)
      PROVE  atUnlock' = atUnlock
  BY <1>33 DEF OperatorReleasesRoute, Operate
<1>34. ASSUME NEW e \in Elements, OperatorThrows(e) PROVE atUnlock' = atUnlock
  BY <1>34 DEF OperatorThrows, Operate
<1>35. ASSUME NEW y \in Tracks \cup Elements, OperatorReleasesItem(y)
      PROVE  atUnlock' = atUnlock
  BY <1>35 DEF OperatorReleasesItem
<1>36. ASSUME ElementThrown PROVE atUnlock' = atUnlock
  BY <1>36 DEF ElementThrown
<1>37. ASSUME NEW t \in Tracks, FeedbackFree(t) PROVE atUnlock' = atUnlock
  BY <1>37 DEF FeedbackFree
<1>38. ASSUME NEW e \in Elements, NEW p \in Positions, ForeignCommand(e, p)
      PROVE  atUnlock' = atUnlock
  BY <1>38 DEF ForeignCommand
<1>39. ASSUME UNCHANGED vars PROVE atUnlock' = atUnlock
  BY <1>39 DEF vars
<1>40. ASSUME NEW t \in Threads, UnlockDone(t) PROVE FALSE
  BY <1>40 DEF UnlockDone, TypeInv, TypeOK, ItemTypes
<1>41. ASSUME NEW t \in Threads, RouteExecuted(t) PROVE Goal
  BY <1>41 DEF RouteExecuted, TypeInv, TypeOK, ItemTypes
<1>42. ~(atUnlock' = atUnlock)
  OBVIOUS
<1> HIDE DEF Goal
<1>43. Goal
  BY <1>1, <1>2, <1>3, <1>4, <1>5, <1>6, <1>7, <1>8, <1>9, <1>10, <1>11,
     <1>12, <1>13, <1>14, <1>15, <1>16, <1>17, <1>18, <1>19, <1>20, <1>21,
     <1>22, <1>23, <1>24, <1>25, <1>26, <1>27, <1>28, <1>29, <1>30, <1>31,
     <1>32, <1>33, <1>34, <1>35, <1>36, <1>37, <1>38, <1>39, <1>40, <1>41,
     <1>42
     DEF Next, ProcedureStep, LocoStep, LocoBegins, OperatorStep, Environment
<1> QED BY <1>43 DEF Goal

\* A route never becomes free with something pending, and nothing becomes
\* pending for a free route.
LEMMA PendingStep ==
  ASSUME TypeInv, MutexInv, PendingInv, [Next]_vars
  PROVE  RoutesOwned' /\ PendingUnlock'
<1>1. ASSUME NEW r \in Routes PROVE Consistent(lock'[r])
  <2>1. ASSUME NEW t \in Threads, RouteReleased(t), work[t] = r
        PROVE  Consistent(lock'[r])
    BY <2>1 DEF RouteReleased, Released, FreeLock, Consistent, PendingInv,
                RoutesOwned, TypeInv, TypeOK, ItemTypes, Lockables
  <2> QED
    BY <2>1, RouteLockStep, NoneIsNoLoco
       DEF RouteLockMoves, Consistent, PendingInv, RoutesOwned
<1>2. ASSUME NEW r \in Routes, atUnlock'[r] PROVE InUse(lock'[r])
  <2>1. CASE atUnlock[r]
    BY <2>1, <1>2, UnlockedStep DEF PendingInv, PendingUnlock
  <2>2. CASE ~atUnlock[r]
    <3>1. PICK t \in Threads : RouteExecuted(t) /\ work[t] = r /\ inUse[t]
      BY <2>2, <1>2, ArmedStep
    <3>2. lock' = lock /\ t \in Locos /\ lock[r].owner = t
      BY <3>1 DEF RouteExecuted, PendingInv, InUseOK
    <3> QED BY <3>2, NoneIsNoLoco DEF InUse
  <2> QED BY <2>1, <2>2
<1> QED BY <1>1, <1>2 DEF RoutesOwned, PendingUnlock

\* Without an operator who releases routes, relations "At unlock" are pending
\* for routes in use only, for every layout: no switch is ever thrown for a
\* train that did not run (Route::Execute against Route::ReleaseInternal).
THEOREM PendingOnlyInUse ==
  "releaseRoute" \notin Disturbances => (Spec => []PendingUnlock)
<1> SUFFICES ASSUME "releaseRoute" \notin Disturbances
             PROVE  Spec => []PendingUnlock
  OBVIOUS
<1>1. Init => PendingInv
  BY DEF Init, PendingInv, InUseOK, OperatorOK, RoutesOwned, PendingUnlock,
         Consistent, FreeLock, Threads, Lockables
<1>2. TypeInv /\ MutexInv /\ PendingInv /\ [Next]_vars => PendingInv'
  BY LocalsStep, PendingStep DEF PendingInv
<1>3. PendingInv => PendingUnlock
  BY DEF PendingInv
<1> QED BY TypeInvariant, MutexInvariant, <1>1, <1>2, <1>3, PTL DEF Spec
=============================================================================
