------------------------------ MODULE AutoMode ------------------------------
(***************************************************************************)
(* Automatic operation of one locomotive (LocoBase): the automode thread,    *)
(* the thread that reports feedbacks, and a browser that starts, stops and   *)
(* removes the locomotive.                                                   *)
(*                                                                           *)
(* The automode thread works in ticks, each under the stateMutex.  Feedbacks *)
(* do not take that mutex: LocationReached compares a feedback with the ids  *)
(* that the tick changes, controls the speed, and puts what is left to do    *)
(* into a queue for the next tick.  What a tick and a report do to each      *)
(* other is the subject of this module; how a route is reserved, locked,     *)
(* executed and released is module Interlocking's.                           *)
(***************************************************************************)
EXTENDS Naturals, Sequences, SequencesExt

CONSTANTS
  Tracks, Routes,
  FromTrack, ToTrack,   \* of a route
  FollowUp,             \* a route, RouteAuto or RouteStop
  Reduced, Stop, Over,  \* feedbacks of a route; Reduced and Over may be None
  Delayed,              \* routes whose stop feedback has a delay
  Wait,                 \* waiting time after a route, in ticks
  Disturbances,         \* what may interfere; see below
  MaxPlan,              \* bound on the entries of the timetable
  MaxReached,           \* bound on the reports no tick has looked at
  RouteAuto, RouteStop, None

(***************************************************************************)
(* The interferences a configuration may switch on.                          *)
(*   "timetable"  the operator adds routes to the timetable                  *)
(*   "removal"    the operator takes the locomotive off                      *)
(*   "miss"       the train passes a stop feedback, behind which it has a    *)
(*                route, without a report                                    *)
(*   "again"      a feedback the train has passed reports a second time      *)
(*   "lag"        the train gets from one stop feedback to the next before   *)
(*                the automode thread has looked at the first                *)
(*   "between"    a tick falls between a report's comparison with a feedback *)
(*                id and the second use of that id                           *)
(***************************************************************************)
AllDisturbances == {"timetable", "removal", "miss", "again", "lag", "between"}

FollowUps == Routes \cup {RouteAuto, RouteStop}
Entries == [route : Routes, after : FollowUps]
Feedbacks == (UNION {{Reduced[r], Stop[r], Over[r]} : r \in Routes}) \ {None}

ASSUME KindsDiffer ==
  /\ None \notin Routes \cup Tracks
  /\ RouteAuto # RouteStop
  /\ Routes \cap {RouteAuto, RouteStop} = {}

ASSUME RouteTypes ==
  /\ FromTrack \in [Routes -> Tracks]
  /\ ToTrack \in [Routes -> Tracks]
  /\ FollowUp \in [Routes -> FollowUps]
  /\ DOMAIN Reduced = Routes /\ DOMAIN Stop = Routes /\ DOMAIN Over = Routes
  /\ \A r \in Routes : Stop[r] # None
  /\ Delayed \subseteq Routes
  /\ Wait \in [Routes -> Nat]

ASSUME Bounds ==
  /\ Disturbances \subseteq AllDisturbances
  /\ MaxPlan \in Nat
  /\ MaxReached \in Nat

VARIABLES
  state, request,       \* state, requestManualMode
  tick,                 \* where the automode thread is within a tick
  from, first, second,  \* trackFrom, routeFirst, routeSecond
  ids,                  \* the feedback ids LocationReached compares with
  delayed,              \* stopDelay > 0
  wait,                 \* wait
  follow, plan,         \* followUpRoute, timeTableQueue
  reached,              \* feedbackIdsReached
  report,               \* the feedback LocationReached is at, and where
  client,               \* where the browser's thread is
  moving,               \* speed > MinSpeed
  ahead,                \* routes whose stop feedback is still before the train
  spot,                 \* how far it is on the front one
  last                  \* the last route whose stop feedback it has passed

autoVars  == <<state, tick>>
routeVars == <<from, first, second, ids, delayed, wait>>
trainVars == <<ahead, spot, last>>
vars == <<autoVars, request, routeVars, follow, plan, reached, report, client,
          moving, trainVars>>

(***************************************************************************)
(* Type definitions                                                          *)
(***************************************************************************)
States == {"Manual", "Off", "GetFirst", "GetSecond", "Running", "Stopping",
           "Terminated", "Error"}

Maybe(S) == S \cup {None}

NoIds == [first |-> None, firstReduced |-> None, reduced |-> None,
          stop |-> None, over |-> None]

NoReport == [at |-> "none", id |-> None]

TypeOK ==
  /\ state \in States
  /\ request \in BOOLEAN /\ delayed \in BOOLEAN /\ moving \in BOOLEAN
  /\ tick \in {"look", "search", "serve"}
  /\ from \in Maybe(Tracks)
  /\ first \in Maybe(Routes) /\ second \in Maybe(Routes)
  /\ second # None => first # None
  /\ first # None => from # None
  /\ ids \in [DOMAIN NoIds -> Maybe(Feedbacks)]
  /\ wait \in Nat
  /\ follow \in FollowUps
  /\ plan \in Seq(Entries) /\ Len(plan) <= MaxPlan + 1
  /\ reached \in Seq(Maybe(Feedbacks))
  /\ report \in [at : {"none", "first", "reduced", "reduce", "stop", "delay",
                       "halt", "over"},
                 id : Maybe(Feedbacks)]
  /\ client \in {"idle", "asks", "polls", "halts", "waits"}
  /\ ahead \in Seq(Routes)
  /\ spot \in {"start", "again", "reduced"}
  /\ last \in Maybe(Routes)

\* The routes the locomotive has.
Active == IF first = None THEN <<>>
          ELSE IF second = None THEN <<first>>
          ELSE <<first, second>>

\* The automode thread exists; outside the ticks nobody has the stateMutex.
ThreadRuns == state \notin {"Manual", "Terminated"}
Unlocked == tick = "look"

Init ==
  /\ state = "Manual" /\ request = FALSE /\ tick = "look"
  /\ from = None /\ first = None /\ second = None
  /\ ids = NoIds /\ delayed = FALSE /\ wait = 0
  /\ follow = RouteAuto /\ plan = <<>>
  /\ reached = <<>> /\ report = NoReport
  /\ client = "idle"
  /\ moving = FALSE
  /\ ahead = <<>> /\ spot = "start" /\ last = None

(***************************************************************************)
(* A tick: the feedbacks that have been reached                              *)
(***************************************************************************)

\* Who compares with an id and uses it a second time wants it unchanged.
Between == report.at \in {"reduce", "halt"}
MayChangeIds == Between => "between" \in Disturbances

\* ShiftRoute, n times.
Shift(n) ==
  /\ from' = ToTrack[Active[n]]
  /\ first' = IF n = 1 THEN second ELSE None
  /\ second' = None

\* FeedbackIdFirstReached and FeedbackIdStopReached without a route.
NoRoute ==
  /\ moving' = FALSE
  /\ state' = "Error"
  /\ UNCHANGED routeVars

\* The first of two routes has ended, and the train goes on at the speed of the
\* second.  That there is one is SecondPresent; a null pointer is not followed.
FeedbackIdFirstReached ==
  IF first = None \/ from = None THEN NoRoute
  ELSE /\ moving' = TRUE
       /\ Shift(1)
       /\ state' = CASE state = "Running" -> "GetSecond"
                     [] state = "Stopping" -> "Stopping"
                     [] OTHER -> "Error"
       /\ ids' = [ids EXCEPT !.first = None, !.firstReduced = None]
       /\ UNCHANGED <<delayed, wait>>

\* A fault: a train that stops before a second route was looked for.
FeedbackIdStopReachedRunning ==
  IF first = None \/ from = None THEN NoRoute
  ELSE /\ Shift(Len(Active))
       /\ state' = CASE state = "Running" -> "GetFirst"
                     [] state = "Stopping" -> "Off"
                     [] OTHER -> "Error"
       /\ ids' = [ids EXCEPT !.stop = None, !.reduced = None]
       /\ UNCHANGED <<moving, delayed, wait>>

\* The train has stopped at the end of its last route.
FeedbackIdStopReached ==
  IF first = None \/ from = None THEN NoRoute
  ELSE /\ Shift(Len(Active))
       /\ state' = CASE state \in {"Running", "GetSecond"} -> "GetFirst"
                     [] state = "Stopping" -> "Off"
                     [] OTHER -> "Error"
       /\ ids' = [ids EXCEPT !.stop = None, !.reduced = None]
       /\ UNCHANGED <<moving, delayed, wait>>

\* AutoMode: a tick with a feedback in the queue.
TakeFeedback ==
  /\ ThreadRuns /\ tick = "look" /\ reached # <<>> /\ MayChangeIds
  /\ reached' = Tail(reached)
  /\ LET id == Head(reached)
     IN  IF id = ids.first THEN FeedbackIdFirstReached
         ELSE IF id = ids.stop THEN FeedbackIdStopReached
         ELSE UNCHANGED <<moving, state, routeVars>>
  /\ UNCHANGED <<tick, request, follow, plan, report, client, trainVars>>

(***************************************************************************)
(* A tick: the states                                                        *)
(***************************************************************************)
TurnOff ==
  /\ state = "Off"
  /\ state' = "Terminated"
  /\ request' = FALSE
  /\ wait' = 0
  /\ UNCHANGED <<tick, moving>>

LeaveFirst ==
  /\ state = "GetFirst"
  /\ request \/ follow = RouteStop
  /\ state' = "Off"
  /\ UNCHANGED <<tick, request, wait, moving>>

WaitFirst ==
  /\ state = "GetFirst"
  /\ ~(request \/ follow = RouteStop) /\ wait > 0
  /\ wait' = wait - 1
  /\ UNCHANGED <<state, tick, request, moving>>

\* GetTimetableDestinationFirst begins.
BeginFirst ==
  /\ state = "GetFirst"
  /\ ~(request \/ follow = RouteStop) /\ wait = 0
  /\ IF first # None THEN state' = "Error" /\ UNCHANGED tick
     ELSE tick' = "search" /\ UNCHANGED state
  /\ UNCHANGED <<request, wait, moving>>

\* GetTimetableDestinationSecond begins.
BeginSecond ==
  /\ state = "GetSecond"
  /\ ~request /\ wait = 0
  /\ tick' = "search"
  /\ UNCHANGED <<state, request, wait, moving>>

ObeyRequest ==
  /\ state \in {"GetSecond", "Running"}
  /\ request
  /\ state' = "Stopping"
  /\ UNCHANGED <<tick, request, wait, moving>>

\* The request was cancelled.
Continue ==
  /\ state = "Stopping"
  /\ ~request
  /\ state' = CASE second # None -> "Running"
                [] second = None /\ first # None -> "GetSecond"
                [] OTHER -> "GetFirst"
  /\ UNCHANGED <<tick, request, wait, moving>>

\* Nothing to do until the train arrives or the request is cancelled.
Idle ==
  /\ \/ state = "Running" /\ ~request
     \/ state = "GetSecond" /\ ~request /\ wait > 0
     \/ state = "Stopping" /\ request
  /\ UNCHANGED <<state, tick, request, wait, moving>>

InError ==
  /\ state = "Error"
  /\ moving' = FALSE
  /\ state' = IF request THEN "Off" ELSE state
  /\ UNCHANGED <<tick, request, wait>>

\* AutoMode: a tick that has seen the queue empty.
ActOnState ==
  /\ tick = "look" /\ reached = <<>>
  /\ \/ TurnOff \/ LeaveFirst \/ WaitFirst \/ BeginFirst
     \/ BeginSecond \/ ObeyRequest \/ Continue \/ Idle \/ InError
  /\ UNCHANGED <<from, first, second, ids, delayed, follow, plan, reached,
                 report, client, trainVars>>

(***************************************************************************)
(* A tick: the next destination                                              *)
(***************************************************************************)

\* The track the next route has to begin at.
EndTrack == IF first = None THEN from ELSE ToTrack[first]

\* AddTimeTable cancels a request to stop.
Timetabled(r, after) ==
  /\ plan' = Append(plan, [route |-> r, after |-> after])
  /\ request' = FALSE

\* GetNextDestination, with the search for and the reservation of a route.
PlanDestination ==
  /\ tick = "search"
  /\ \/ /\ plan = <<>> /\ follow = RouteStop
        /\ tick' = "look" /\ request' = TRUE
        /\ UNCHANGED plan
     \/ /\ plan = <<>> /\ follow # RouteStop
        /\ \E r \in Routes :
             /\ r = follow \/ (follow = RouteAuto /\ FromTrack[r] = EndTrack)
             /\ Timetabled(r, FollowUp[r])
        /\ tick' = "serve"
     \/ /\ plan # <<>> \/ follow = RouteAuto  \* nothing to do or found
        /\ tick' = "serve"
        /\ UNCHANGED <<plan, request>>
  /\ UNCHANGED <<state, routeVars, follow, reached, report, client, moving,
                 trainVars>>

\* A fault: the ids of an earlier pair of routes stay.
PrepareDestinationFirstStale(r) ==
  /\ first' = r
  /\ ids' = [ids EXCEPT !.reduced = Reduced[r], !.stop = Stop[r],
                        !.over = Over[r]]
  /\ delayed' = (r \in Delayed)
  /\ wait' = Wait[r]
  /\ moving' = TRUE
  /\ state' = "GetSecond"
  /\ UNCHANGED <<from, second>>

\* The end of PrepareDestinationFirst; the train starts.
PrepareDestinationFirst(r) ==
  /\ first' = r
  /\ ids' = [first |-> None, firstReduced |-> None, reduced |-> Reduced[r],
             stop |-> Stop[r], over |-> Over[r]]
  /\ delayed' = (r \in Delayed)
  /\ wait' = Wait[r]
  /\ moving' = TRUE
  /\ state' = "GetSecond"
  /\ UNCHANGED <<from, second>>

\* The end of PrepareDestinationSecond.
PrepareDestinationSecond(r) ==
  /\ second' = r
  /\ ids' = [first |-> ids.stop, firstReduced |-> ids.reduced,
             reduced |-> Reduced[r], stop |-> Stop[r], over |-> Over[r]]
  /\ wait' = Wait[r]
  /\ state' = "Running"
  /\ UNCHANGED <<from, first, delayed, moving>>

\* GetDestinationFromTimeTable: an entry that does not fit is dropped, a
\* route that was refused (its execution fails) stays in front.
NoDestination ==
  /\ tick = "serve"
  /\ \/ plan = <<>> /\ UNCHANGED plan
     \/ plan # <<>> /\ plan' = Tail(plan)
        /\ FromTrack[Head(plan).route] # EndTrack
     \/ plan # <<>> /\ UNCHANGED plan
        /\ FromTrack[Head(plan).route] = EndTrack
  /\ tick' = "look"
  /\ UNCHANGED <<state, request, routeVars, follow, reached, report, client,
                 moving, trainVars>>

\* ... and a route that was executed is prepared.
ServeTimetable ==
  /\ tick = "serve" /\ plan # <<>> /\ MayChangeIds
  /\ LET r == Head(plan).route
     IN  /\ FromTrack[r] = EndTrack
         /\ IF state = "GetFirst" THEN PrepareDestinationFirst(r)
            ELSE PrepareDestinationSecond(r)
         /\ ahead' = Append(ahead, r)
  /\ plan' = Tail(plan)
  /\ follow' = Head(plan).after
  /\ tick' = "look"
  /\ UNCHANGED <<request, reached, report, client, spot, last>>

Tick == TakeFeedback \/ ActOnState \/ PlanDestination \/ NoDestination
        \/ ServeTimetable

(***************************************************************************)
(* LocationReached, comparison by comparison                                 *)
(***************************************************************************)
ReportAt(at) == report' = [report EXCEPT !.at = at]
Reached(id) == reached' = Append(reached, id)

\* With the id of a first route the speed of the second is looked up, see
\* SecondPresent.
CompareFirst ==
  /\ report.at = "first"
  /\ IF report.id = ids.first THEN Reached(ids.first) ELSE UNCHANGED reached
  /\ ReportAt("reduced")
  /\ UNCHANGED moving

CompareReduced ==
  /\ report.at = "reduced"
  /\ ReportAt(IF report.id = ids.reduced THEN "reduce" ELSE "stop")
  /\ UNCHANGED <<reached, moving>>

\* A fault: the wrong id.
LocationReducedReachedStop ==
  /\ report.at = "reduce"
  /\ IF ids.first # None THEN Reached(ids.stop) ELSE UNCHANGED reached
  /\ ReportAt("stop")
  /\ UNCHANGED moving

\* LocationReducedReached, LocationCreepReached: in case the id of the first
\* route has been missed, it is reported now.
LocationReducedReached ==
  /\ report.at = "reduce"
  /\ IF ids.first # None THEN Reached(ids.first) ELSE UNCHANGED reached
  /\ ReportAt("stop")
  /\ UNCHANGED moving

\* A fault: after the delay the id is compared with another one.
CompareStopCreep ==
  /\ report.at \in {"stop", "delay"}
  /\ IF report.id # (IF report.at = "stop" THEN ids.stop ELSE ids.reduced)
     THEN ReportAt("over") /\ UNCHANGED moving
     ELSE IF report.at = "stop" /\ delayed
     THEN ReportAt("delay") /\ UNCHANGED moving
     ELSE ReportAt("halt") /\ moving' = FALSE
  /\ UNCHANGED reached

\* The train is stopped, at once or after the delay.
CompareStop ==
  /\ report.at \in {"stop", "delay"}
  /\ IF report.id # ids.stop THEN ReportAt("over") /\ UNCHANGED moving
     ELSE IF report.at = "stop" /\ delayed
     THEN ReportAt("delay") /\ UNCHANGED moving
     ELSE ReportAt("halt") /\ moving' = FALSE
  /\ UNCHANGED reached

LocationStopReached ==
  /\ report.at = "halt"
  /\ Reached(ids.stop)
  /\ ReportAt("over")
  /\ UNCHANGED moving

CompareOver ==
  /\ report.at = "over"
  /\ moving' = (moving /\ report.id # ids.over)
  /\ report' = NoReport
  /\ UNCHANGED reached

LocationReached ==
  /\ \/ CompareFirst \/ CompareReduced \/ LocationReducedReached
     \/ CompareStop \/ LocationStopReached \/ CompareOver
  /\ UNCHANGED <<autoVars, request, routeVars, follow, plan, client,
                 trainVars>>

(***************************************************************************)
(* The train                                                                 *)
(***************************************************************************)
Reports(id) ==
  /\ report.at = "none" /\ Len(reached) < MaxReached
  /\ report' = [at |-> "first", id |-> id]

PassReduced ==
  /\ moving /\ ahead # <<>> /\ spot # "reduced"
  /\ Reduced[Head(ahead)] # None
  /\ Reports(Reduced[Head(ahead)])
  /\ spot' = "reduced"
  /\ UNCHANGED <<ahead, last>>

\* A feedback of the destination, where the train stops or runs through.
PassStop ==
  /\ moving /\ ahead # <<>>
  /\ spot = "reduced" \/ Reduced[Head(ahead)] = None
  /\ reached = <<>> \/ "lag" \in Disturbances
  /\ \/ Reports(Stop[Head(ahead)])
     \/ /\ "miss" \in Disturbances /\ Len(ahead) > 1
        /\ report.at = "none" /\ UNCHANGED report
  /\ ahead' = Tail(ahead)
  /\ spot' = "start"
  /\ last' = Head(ahead)

\* Nothing has stopped the train.
Overrun ==
  /\ moving /\ ahead = <<>> /\ last # None
  /\ Over[last] # None
  /\ Reports(Over[last])
  /\ UNCHANGED trainVars

\* Wheels that come later, or a train that moves a little; once.
ReportAgain ==
  /\ "again" \in Disturbances
  /\ last # None /\ spot = "start"
  /\ Reports(Stop[last])
  /\ spot' = "again"
  /\ UNCHANGED <<ahead, last>>

Train ==
  /\ PassReduced \/ PassStop \/ Overrun \/ ReportAgain
  /\ UNCHANGED <<autoVars, request, routeVars, follow, plan, reached, client,
                 moving>>

(***************************************************************************)
(* The operator                                                              *)
(***************************************************************************)

\* LocoBaseIntoTrack.  A report takes less time than a person who lifts a train
\* from one track to another.
PlaceLoco(t) ==
  /\ client = "idle" /\ Unlocked /\ report = NoReport
  /\ state = "Manual" /\ from = None
  /\ from' = t
  /\ UNCHANGED <<state, request, first, second, ids, delayed, wait, plan,
                 follow, client, moving, trainVars>>

GoToAutoMode ==
  /\ client = "idle" /\ Unlocked
  /\ ~ThreadRuns /\ from # None
  /\ state' = "GetFirst"
  /\ follow' = RouteAuto
  /\ UNCHANGED <<request, routeVars, plan, client, moving, trainVars>>

\* LocoBaseStop asks once, RequestManualMode without the stateMutex ...
StopPressed ==
  /\ client = "idle" /\ state # "Manual"
  /\ client' = IF ThreadRuns THEN "asks" ELSE "polls"
  /\ UNCHANGED <<state, request, routeVars, plan, follow, moving, trainVars>>

RequestManualMode ==
  /\ client = "asks"
  /\ request' = TRUE
  /\ client' = "polls"
  /\ UNCHANGED <<state, routeVars, plan, follow, moving, trainVars>>

\* ... and polls until the thread has ended.
GoToManualMode ==
  /\ client = "polls" /\ ~ThreadRuns
  /\ state' = "Manual"
  /\ client' = "idle"
  /\ UNCHANGED <<request, routeVars, plan, follow, moving, trainVars>>

AddTimeTable(r, after) ==
  /\ "timetable" \in Disturbances
  /\ Len(plan) < MaxPlan
  /\ Timetabled(r, after)
  /\ UNCHANGED <<state, routeVars, follow, client, moving, trainVars>>

\* Release: the locomotive is stopped, ...
HaltLoco ==
  /\ "removal" \in Disturbances
  /\ client = "idle" /\ from # None
  /\ moving' = FALSE
  /\ client' = "halts"
  /\ UNCHANGED <<state, request, routeVars, plan, follow, trainVars>>

\* ... its thread told to end, ...
ForceManualMode ==
  /\ client = "halts" /\ Unlocked
  /\ state' = IF ThreadRuns THEN "Off" ELSE state
  /\ client' = "waits"
  /\ UNCHANGED <<request, routeVars, plan, follow, moving, trainVars>>

\* A fault: only the first route is given back.
ReleaseLocoFirst ==
  /\ client = "waits" /\ ~ThreadRuns /\ MayChangeIds
  /\ state' = "Manual"
  /\ from' = None /\ first' = None /\ second' = second
  /\ ids' = [NoIds EXCEPT !.firstReduced = ids.firstReduced]
  /\ client' = "idle"
  /\ ahead' = <<>> /\ spot' = "start" /\ last' = None
  /\ UNCHANGED <<request, delayed, wait, plan, follow, moving>>

\* ... and everything it has given back.
ReleaseLoco ==
  /\ client = "waits" /\ ~ThreadRuns /\ MayChangeIds
  /\ state' = "Manual"
  /\ from' = None /\ first' = None /\ second' = None
  /\ ids' = [NoIds EXCEPT !.firstReduced = ids.firstReduced]
  /\ client' = "idle"
  /\ ahead' = <<>> /\ spot' = "start" /\ last' = None
  /\ UNCHANGED <<request, delayed, wait, plan, follow, moving>>

OperatorStep ==
  /\ \/ \E t \in Tracks : PlaceLoco(t)
     \/ GoToAutoMode \/ StopPressed \/ RequestManualMode \/ GoToManualMode
     \/ \E r \in Routes, after \in {RouteAuto, RouteStop} :
          AddTimeTable(r, after)
     \/ HaltLoco \/ ForceManualMode \/ ReleaseLoco
  /\ UNCHANGED <<tick, reached, report>>

Next == Tick \/ LocationReached \/ Train \/ OperatorStep

Spec == Init /\ [][Next]_vars

\* The operating system schedules the threads, the browser's one as well while
\* it serves a command, and a train that moves gets on.
Fairness ==
  /\ WF_vars(TakeFeedback \/ ActOnState)
  /\ WF_vars(PlanDestination)
  /\ WF_vars(NoDestination \/ ServeTimetable)
  /\ WF_vars(LocationReached)
  /\ WF_vars((PassReduced \/ PassStop) /\ Train)
  /\ WF_vars((RequestManualMode \/ GoToManualMode) /\ OperatorStep)
  /\ WF_vars((ForceManualMode \/ ReleaseLoco) /\ OperatorStep)

FairSpec == Spec /\ Fairness

(***************************************************************************)
(* Properties                                                                *)
(***************************************************************************)

\* Every route the train still has before it is a route it has: none is
\* given back before the train has passed its stop feedback
\* (FeedbackIdFirstReached, FeedbackIdStopReached, ShiftRoute).
RouteAheadHeld == IsSuffix(ahead, Active)

\* As long as the locomotive is on a track, whoever looks up the speed of the
\* second route finds one: LocationReached with the ids of a first route,
\* FeedbackIdFirstReached in a tick.
SecondPresent == from # None =>
  /\ report.at = "first" /\ report.id \in {ids.first, ids.firstReduced}
       => second # None
  /\ ThreadRuns /\ tick = "look" /\ reached # <<>> /\ Head(reached) = ids.first
       => second # None

\* The state machine never gets where its code sets the error state, except
\* for a locomotive that is being removed: its state Off is unknown to
\* FeedbackIdFirstReached and FeedbackIdStopReached.
ErrorByRemoval == state = "Error" => client = "waits"

\* Once the thread has answered a request to stop, the train goes to its
\* destination and the thread ends, unless the request is cancelled by a
\* timetable entry (AutoMode, state LocoStateStopping).
StopServed ==
  (state = "Stopping" /\ request) ~> (state = "Terminated" \/ ~request)
=============================================================================
