----------------------------- MODULE LockOrder -----------------------------
(***************************************************************************)
(* The mutexes of RailControl and the threads that take them.                *)
(*                                                                           *)
(* A call of the program is seen here as its trace of mutexes: what it takes *)
(* and gives back (std::lock_guard, so in the order of the blocks), and what *)
(* it merely glances at: takes and gives back with nothing in between.       *)
(* A function of the source is a set of such traces, one for each way it may *)
(* go on.  Where a call may or may not take a mutex (a signal that shows     *)
(* stop already is not published, a route need not have conditions) and      *)
(* nothing else depends on it, the longer way is taken.                      *)
(*                                                                           *)
(* Left out are the mutexes that guard a single field or map and under which *)
(* nothing is called (lockMutex, trackMutex, routeMutex, signalMutex, ...).  *)
(* locoMutex and multipleUnitMutex are used alike and are one here.          *)
(***************************************************************************)
EXTENDS Integers, Sequences

CONSTANTS
  Locos,     \* locomotives; the automode thread of a locomotive bears its name
  Tracks,
  Routes,
  From, To,  \* the tracks of a route
  Reporters, \* threads that read feedbacks from command stations
  Clients,   \* threads that serve browsers
  Debouncer, \* the thread of Manager::DebounceWorker
  Commands,  \* what browsers ask for
  Overruns,  \* whether a train may reach the feedback that says it has gone too far
  FreeingTracks, \* tracks with "release when free"
  Nobody

Threads == Locos \cup Reporters \cup Clients \cup {Debouncer}

(***************************************************************************)
(* Mutexes                                                                   *)
(***************************************************************************)
StateOf(l) == <<"state", l>>     \* LocoBase::stateMutex
MutexOf(r) == <<"route", r>>     \* Route::updateMutex
UpdateOf(t) == <<"track", t>>    \* Track::updateMutex
FeedbackMap == <<"feedback">>    \* Manager::feedbackMutex
ControlMap == <<"control">>      \* Manager::controlMutex
LocoMap == <<"loco">>            \* Manager::locoMutex, multipleUnitMutex

Mutexes == {StateOf(l) : l \in Locos} \cup {MutexOf(r) : r \in Routes}
           \cup {UpdateOf(t) : t \in Tracks} \cup {FeedbackMap, ControlMap, LocoMap}

\* The order in which the greater part of the program takes them.
Rank(m) == CASE m[1] = "state" -> 1
             [] m[1] = "route" -> 2
             [] m[1] = "feedback" -> 3
             [] m[1] = "track" -> 4
             [] m[1] = "control" -> 5
             [] m[1] = "loco" -> 6

(***************************************************************************)
(* Traces                                                                    *)
(***************************************************************************)
Step(op, m) == [op |-> op, on |-> m]

Nothing == {<<>>}
Glance(m) == {<<Step("glance", m)>>}
a ** b == {x \o y : x \in a, y \in b}
Maybe(a) == a \cup Nothing
Holding(m, a) == {<<Step("take", m)>> \o x \o <<Step("give", m)>> : x \in a}

(***************************************************************************)
(* Manager: to publish a state is to call every control under controlMutex.  *)
(* The web server looks up the locomotive of a track that it publishes.      *)
(***************************************************************************)
PublishState == Glance(ControlMap)
TrackPublishState == Holding(ControlMap, Glance(LocoMap))

GetLocoBase == Glance(LocoMap)
LocoBaseSpeed == Glance(ControlMap)
GetFeedback == Glance(FeedbackMap)

(***************************************************************************)
(* Tracks and routes                                                         *)
(***************************************************************************)
StopAllSignals == PublishState

TrackReserve(t) == Glance(UpdateOf(t))
\* A fault: a refused reservation returns without giving the mutex back.
TrackReserveRefusedKept(t) == {<<Step("take", UpdateOf(t))>> \o x : x \in GetLocoBase}
TrackReserveRefused(t) == Holding(UpdateOf(t), GetLocoBase)
TrackRelease(t) == StopAllSignals ** Glance(UpdateOf(t)) ** TrackPublishState

\* A condition asks for a feedback, a relation turns a track round.
CheckConditions(r) == Holding(MutexOf(r), GetFeedback)
RelationExecute == TrackPublishState

RouteExecute(r) == CheckConditions(r) ** Holding(MutexOf(r), RelationExecute)
RouteRelease(r) == Holding(MutexOf(r), RelationExecute)
RouteReserve(r) == CheckConditions(r) ** Holding(MutexOf(r), TrackReserve(To[r]))
RouteReserveRefused(r) ==
  CheckConditions(r) ** Holding(MutexOf(r), TrackReserveRefused(To[r]))
RouteLock(r) == CheckConditions(r) ** Holding(MutexOf(r), TrackPublishState)

(***************************************************************************)
(* LocoBase::AutoMode: what a tick does under stateMutex, and the release of *)
(* what was given up after it.                                               *)
(***************************************************************************)
PrepareDestination(r) == TrackPublishState ** LocoBaseSpeed

SearchDestination(r) ==
  Glance(UpdateOf(From[r])) ** (RouteReserveRefused(r) \cup
    (RouteReserve(r) ** RouteLock(r) ** RouteExecute(r)
       ** (PrepareDestination(r) \cup (RouteRelease(r) ** TrackRelease(To[r])))))

\* The name of the feedback is asked for when the state does not fit.
FeedbackIdReached == LocoBaseSpeed ** Maybe(GetFeedback)

ReleaseRouteAndTrack(r) == TrackRelease(From[r]) ** RouteRelease(r)

AutoMode(l) ==
  UNION {Holding(StateOf(l), SearchDestination(r))
           \cup (Holding(StateOf(l), FeedbackIdReached) ** ReleaseRouteAndTrack(r)) : r \in Routes}

(***************************************************************************)
(* Feedbacks.  A report updates the track under its updateMutex and tells    *)
(* the locomotive; the debouncer does so under feedbackMutex.                *)
(***************************************************************************)
LocationReached ==
  LocoBaseSpeed
    \cup (IF Overruns THEN LocoBaseSpeed ** PublishState ** GetFeedback ELSE {})

\* Without a locomotive the booster is stopped, which is to publish a state as well.
FeedbackOccupied(t) == Holding(UpdateOf(t), GetLocoBase ** LocationReached)

\* A fault: the feedbacks of the track are looked up with the map's mutex.
FeedbackFreeLocked(t) == Holding(UpdateOf(t), GetFeedback)
FeedbackFree(t) ==
  IF t \in FreeingTracks
  THEN Holding(UpdateOf(t), GetLocoBase
                 ** (UNION {Glance(StateOf(l)) : l \in Locos})
                 ** StopAllSignals ** TrackPublishState)
  ELSE Glance(UpdateOf(t))

SetState(t) ==
  GetFeedback ** PublishState ** FeedbackOccupied(t) ** TrackPublishState
    ** Maybe(UNION {RouteExecute(r) : r \in Routes})

Debounce(t) == PublishState ** FeedbackFree(t) ** TrackPublishState

DebounceWorker == UNION {Holding(FeedbackMap, Debounce(t)) : t \in Tracks}

(***************************************************************************)
(* The commands of browsers.                                                 *)
(***************************************************************************)
LocoRelease(l) ==
  GetLocoBase ** LocoBaseSpeed ** Glance(StateOf(l))
    ** (UNION {ReleaseRouteAndTrack(r) : r \in Routes}) ** PublishState

LocoBaseIntoTrack(l, t) == GetLocoBase ** Glance(StateOf(l)) ** TrackPublishState

\* A fault: the locomotive is started where it was found.
LocoBaseStartInPlace(l) == Holding(LocoMap, Glance(StateOf(l))) ** PublishState
LocoBaseStart(l) == GetLocoBase ** Glance(StateOf(l)) ** PublishState

\* Every locomotive is spoken to; the steps are those of one, again and again.
LocoBaseStartAll == Holding(LocoMap, UNION {Glance(StateOf(l)) : l \in Locos})
LocoBaseStopAllImmediately == Holding(LocoMap, Glance(ControlMap))

ReleaseByHand ==
  (UNION {TrackRelease(t) : t \in Tracks}) \cup (UNION {RouteRelease(r) : r \in Routes})

Command(c) ==
  CASE c = "remove" -> UNION {LocoRelease(l) : l \in Locos}
    [] c = "place" -> UNION {LocoBaseIntoTrack(l, t) : l \in Locos, t \in Tracks}
    [] c = "start" -> UNION {LocoBaseStart(l) : l \in Locos}
    [] c = "release" -> ReleaseByHand
    [] c = "execute" -> UNION {RouteExecute(r) : r \in Routes}
    [] c = "feedback" -> UNION {SetState(t) : t \in Tracks}
    [] c = "startAll" -> LocoBaseStartAll
    [] c = "stopAllImmediately" -> LocoBaseStopAllImmediately

\* What thread h may do for task c.
Traces(h, c) ==
  CASE h \in Locos -> AutoMode(h)
    [] h \in Reporters -> UNION {SetState(t) : t \in Tracks}
    [] h = Debouncer -> DebounceWorker
    [] h \in Clients -> Command(c)

Tasks(h) == IF h \in Clients THEN Commands ELSE {"work"}

(***************************************************************************)
(* What the threads do                                                       *)
(***************************************************************************)
VARIABLES
  task,    \* what a thread is asked to do; "none" between two calls
  rest,    \* the steps before it
  holder   \* who has a mutex

vars == <<task, rest, holder>>

Init ==
  /\ task = [h \in Threads |-> "none"]
  /\ rest = [h \in Threads |-> <<>>]
  /\ holder = [m \in Mutexes |-> Nobody]

Busy(h) == rest[h] # <<>>

Wanted(h) == Head(rest[h]).on

Begin(h) ==
  /\ task[h] = "none" /\ ~Busy(h)
  /\ \E c \in Tasks(h) : \E x \in Traces(h, c) :
       /\ task' = [task EXCEPT ![h] = c]
       /\ rest' = [rest EXCEPT ![h] = x]
  /\ UNCHANGED holder

Goes(h, op) == Busy(h) /\ Head(rest[h]).op = op

Pass(h) == rest' = [rest EXCEPT ![h] = Tail(@)] /\ UNCHANGED task

Take(h) ==
  /\ Goes(h, "take")
  /\ holder[Wanted(h)] = Nobody
  /\ holder' = [holder EXCEPT ![Wanted(h)] = h]
  /\ Pass(h)

GlanceAt(h) ==
  /\ Goes(h, "glance")
  /\ holder[Wanted(h)] = Nobody
  /\ Pass(h)
  /\ UNCHANGED holder

Give(h) ==
  /\ Goes(h, "give")
  /\ holder' = [holder EXCEPT ![Wanted(h)] = Nobody]
  /\ Pass(h)

\* A fault: a call that has not achieved anything tries again.
EndRetry(h) ==
  /\ task[h] # "none"
  /\ ~Busy(h)
  /\ \E x \in Traces(h, task[h]) : rest' = [rest EXCEPT ![h] = x]
  /\ UNCHANGED <<task, holder>>

End(h) ==
  /\ task[h] # "none"
  /\ ~Busy(h)
  /\ task' = [task EXCEPT ![h] = "none"]
  /\ UNCHANGED <<rest, holder>>

Proceed(h) == Take(h) \/ GlanceAt(h) \/ Give(h) \/ End(h)

Next == \E h \in Threads : Begin(h) \/ Proceed(h)

Spec == Init /\ [][Next]_vars

(***************************************************************************)
(* A mutex does not keep a waiting thread out for ever: the loops of the     *)
(* program sleep between two rounds.                                         *)
(***************************************************************************)
FairSpec ==
  /\ Spec
  /\ \A h \in Threads : SF_vars(Take(h) \/ GlanceAt(h)) /\ WF_vars(Give(h) \/ End(h))

(***************************************************************************)
(* Properties                                                                *)
(***************************************************************************)
Steps == [op : {"take", "glance", "give"}, on : Mutexes]

Kept(x, m) == \E k \in 1..Len(x) : x[k] = Step("give", m)

\* Type correctness; who has a mutex is on the way to give it back.
TypeOK ==
  /\ task \in [Threads -> Commands \cup {"none", "work"}]
  /\ rest \in [Threads -> Seq(Steps)]
  /\ holder \in [Mutexes -> Threads \cup {Nobody}]
  /\ \A m \in Mutexes : holder[m] # Nobody => Kept(rest[holder[m]], m)

Waiting(h) == Goes(h, "take") \/ Goes(h, "glance")

\* No threads wait for each other in a circle, and none for itself.
NoCircularWait ==
  \A S \in SUBSET Threads :
    S # {} => \E h \in S : ~(Waiting(h) /\ holder[Wanted(h)] \in S)

\* Every call returns.
Returns == \A h \in Threads : (task[h] # "none") ~> (task[h] = "none")

\* The button that stops all trains immediately stops them.
StopAllServed ==
  \A h \in Clients : (task[h] = "stopAllImmediately") ~> (task[h] = "none")

(***************************************************************************)
(* The order: whatever a thread wants while it holds a mutex ranks higher.   *)
(***************************************************************************)
Covered(x, i, m) ==
  \E k \in i..Len(x) :
    /\ x[k] = Step("give", m)
    /\ \A j \in i..(k - 1) : x[j].op # "give" => Rank(m) < Rank(x[j].on)

Ordered(x) == \A i \in 1..Len(x) : x[i].op = "take" => Covered(x, i + 1, x[i].on)

\* What the program must not be asked for to keep the order.
InOrder ==
  /\ Commands \subseteq {"remove", "place", "start", "release", "execute", "feedback"}
  /\ ~Overruns
  /\ FreeingTracks = {}

\* Whatever a thread is asked to do, it takes the mutexes in this order.
TracesOrdered == \A h \in Threads : \A c \in Tasks(h) : \A x \in Traces(h, c) : Ordered(x)

\* The same, of what the threads are about to do.
RankKept == \A h \in Threads : Ordered(rest[h])

(***************************************************************************)
(* Assumptions on the constants                                              *)
(***************************************************************************)
ASSUME NobodyIsNoThread == Nobody \notin Threads

ASSUME LayoutTypes == From \in [Routes -> Tracks] /\ To \in [Routes -> Tracks]

ASSUME ThreadsDiffer ==
  /\ Locos \cap Reporters = {}
  /\ Clients \cap (Locos \cup Reporters) = {}
  /\ Debouncer \notin Locos \cup Reporters \cup Clients
=============================================================================
