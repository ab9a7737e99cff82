----------------------------- MODULE StartStop -----------------------------
(***************************************************************************)
(* Starting, stopping, placing and removing locomotives from several         *)
(* browsers at once: LocoBase::GoToAutoMode, RequestManualMode,              *)
(* GoToManualMode and ForceManualMode, and the commands of Manager that call *)
(* them for one locomotive or for all.                                       *)
(*                                                                           *)
(* A locomotive in automode has a thread.  It ends in state Terminated;      *)
(* whoever notices joins it and then stores state Manual.  Only some of them *)
(* look at the state under the stateMutex.  Of what the thread does          *)
(* meanwhile this module has what a client sees; routes and feedbacks are    *)
(* modules Interlocking's and AutoMode's.                                    *)
(***************************************************************************)
EXTENDS Naturals

CONSTANTS
  Locos,     \* locomotives
  Clients,   \* threads that serve a browser
  Commands,  \* what the browsers may ask for
  None

OneLoco == {"start", "stop", "timetable", "place", "remove"}
AllLocos == {"startAll", "stopAll"}

ASSUME CommandTypes == Commands \subseteq OneLoco \cup AllLocos
ASSUME NoneIsNoClient == None \notin Clients \cup Locos

VARIABLES
  state, request,  \* state, requestManualMode
  onTrack,         \* trackFrom is set
  routes,          \* how many of routeFirst and routeSecond are set
  tick,            \* "search": a tick that searches holds the stateMutex
  thread,          \* of locoThread
  lost,            \* a search has cancelled a request since the last one
  locoMutex,       \* its owner
  at,              \* where a client is
  failed           \* the program has ended, and why

locoVars == <<state, request, onTrack, routes, tick, thread, lost>>
vars == <<locoVars, locoMutex, at, failed>>

(***************************************************************************)
(* Type definitions                                                          *)
(***************************************************************************)
Driving == {"Off", "GetFirst", "GetSecond", "Running", "Stopping", "Error"}

\* stopAll goes on as awaitAll, which polls, and as releaseAll.
Rounds == AllLocos \cup {"awaitAll", "releaseAll"}
Steps == {"begin", "next", "test", "ask", "poll", "force", "join",
          "joining", "manual", "clear"}

\* What is left to do in a round, and whether there has to be another.
Places == [cmd : OneLoco \cup Rounds \cup {"none"}, step : Steps,
           loco : Locos \cup {None}, rest : SUBSET Locos, again : BOOLEAN]
Idle == [cmd |-> "none", step |-> "begin", loco |-> None, rest |-> {},
         again |-> FALSE]

TypeOK ==
  /\ state \in [Locos -> Driving \cup {"Manual", "Terminated"}]
  /\ request \in [Locos -> BOOLEAN]
  /\ onTrack \in [Locos -> BOOLEAN]
  /\ routes \in [Locos -> 0..2]
  /\ tick \in [Locos -> {"look", "search"}]
  /\ thread \in [Locos -> {"none", "running", "ended"}]
  /\ lost \in [Locos -> BOOLEAN]
  /\ locoMutex \in Clients \cup {None}
  /\ at \in [Clients -> Places]
  /\ failed \in {"no", "join", "null"}

Init ==
  /\ state = [l \in Locos |-> "Manual"] /\ request = [l \in Locos |-> FALSE]
  /\ onTrack = [l \in Locos |-> TRUE] /\ routes = [l \in Locos |-> 0]
  /\ tick = [l \in Locos |-> "look"] /\ thread = [l \in Locos |-> "none"]
  /\ lost = [l \in Locos |-> FALSE]
  /\ locoMutex = None /\ at = [c \in Clients |-> Idle] /\ failed = "no"

Becomes(l, s) == state' = [state EXCEPT ![l] = s]

(***************************************************************************)
(* The automode thread.                                                      *)
(***************************************************************************)
Ticks(l) == thread[l] = "running" /\ tick[l] = "look"

\* Who stops all trains polls once a second.  A tick that looks at the state
\* comes no more often and a journey takes longer: when a search has cancelled
\* a request, the next poll comes before the next search and the next report.
Polled(l) == lost[l] => \A c \in Clients : at[c].cmd # "awaitAll"

TurnOff(l) ==
  /\ Ticks(l) /\ state[l] = "Off"
  /\ Becomes(l, "Terminated")
  /\ request' = [request EXCEPT ![l] = FALSE]
  /\ thread' = [thread EXCEPT ![l] = "ended"]
  /\ UNCHANGED <<onTrack, routes, tick, lost, failed>>

\* Asked to, or because the last route said so.
LeaveFirst(l) ==
  /\ Ticks(l) /\ state[l] = "GetFirst"
  /\ Becomes(l, "Off")
  /\ UNCHANGED <<request, onTrack, routes, tick, thread, lost, failed>>

ObeyRequest(l) ==
  /\ Ticks(l) /\ request[l]
  /\ \/ state[l] \in {"GetSecond", "Running"} /\ Becomes(l, "Stopping")
     \/ state[l] = "Error" /\ Becomes(l, "Off")
  /\ UNCHANGED <<request, onTrack, routes, tick, thread, lost, failed>>

ForgetRequest(l) ==
  /\ Ticks(l) /\ state[l] = "Stopping" /\ ~request[l]
  /\ Becomes(l, CASE routes[l] = 2 -> "Running" [] routes[l] = 1 -> "GetSecond"
                  [] OTHER -> "GetFirst")
  /\ UNCHANGED <<request, onTrack, routes, tick, thread, lost, failed>>

\* GetTimetableDestinationFirst does not expect a route.
AlreadyReserved(l) ==
  /\ Ticks(l) /\ state[l] = "GetFirst" /\ ~request[l] /\ routes[l] > 0
  /\ Becomes(l, "Error")
  /\ UNCHANGED <<request, onTrack, routes, tick, thread, lost, failed>>

\* The track a search begins at is trackFrom, or trackFirst for the second.
HasTrack(l) == IF state[l] = "GetFirst" THEN onTrack[l] ELSE routes[l] > 0

\* A fault: the route already there is not looked for.
SearchesAgain(l) ==
  /\ Ticks(l) /\ ~request[l] /\ Polled(l)
  /\ state[l] \in {"GetFirst", "GetSecond"}

Searches(l) ==
  /\ Ticks(l) /\ ~request[l] /\ Polled(l)
  /\ \/ state[l] = "GetFirst" /\ routes[l] = 0
     \/ state[l] = "GetSecond"

BeginSearch(l) ==
  /\ Searches(l) /\ HasTrack(l)
  /\ tick' = [tick EXCEPT ![l] = "search"]
  /\ UNCHANGED <<state, request, onTrack, routes, thread, lost, failed>>

\* SearchDestination asks the track for its name and then whether it is there.
SearchOffTrack(l) ==
  /\ Searches(l) /\ ~HasTrack(l)
  /\ failed' = "null"
  /\ UNCHANGED locoVars

\* A route found goes into the timetable, and that cancels a request to stop.
CancelRequest(l) ==
  /\ request' = [request EXCEPT ![l] = FALSE]
  /\ lost' = [lost EXCEPT ![l] = @ \/ request[l]]

KeepRequest == UNCHANGED <<request, lost>>

\* A route is executed, one just found or one of the timetable.
FindRoute(l) ==
  /\ tick[l] = "search"
  /\ tick' = [tick EXCEPT ![l] = "look"]
  /\ routes' = [routes EXCEPT ![l] = @ + 1]
  /\ Becomes(l, IF state[l] = "GetFirst" THEN "GetSecond" ELSE "Running")
  /\ CancelRequest(l) \/ KeepRequest
  /\ UNCHANGED <<onTrack, thread, failed>>

\* There is none, or it is refused, or the route before says to stop there.
FindNone(l) ==
  /\ tick[l] = "search"
  /\ tick' = [tick EXCEPT ![l] = "look"]
  /\ \/ CancelRequest(l)
     \/ KeepRequest
     \/ /\ state[l] = "GetSecond"
        /\ request' = [request EXCEPT ![l] = TRUE]
        /\ lost' = lost
  /\ UNCHANGED <<state, onTrack, routes, thread, failed>>

\* FeedbackIdFirstReached, when left is 1, or FeedbackIdStopReached.
Arrive(l) ==
  /\ Ticks(l) /\ Polled(l)
  /\ \E left \in 0..1 :
       /\ left < routes[l]
       /\ routes' = [routes EXCEPT ![l] = left]
       /\ Becomes(l,
            CASE state[l] = "Stopping" -> IF left = 0 THEN "Off" ELSE "Stopping"
              [] state[l] = "Running" -> IF left = 0 THEN "GetFirst" ELSE "GetSecond"
              [] state[l] = "GetSecond" /\ left = 0 -> "GetFirst"
              [] OTHER -> "Error")
  /\ UNCHANGED <<request, onTrack, tick, thread, lost, failed>>

LocoStep(l) ==
  /\ failed = "no" /\ UNCHANGED <<locoMutex, at>>
  /\ \/ TurnOff(l) \/ LeaveFirst(l) \/ ObeyRequest(l) \/ ForgetRequest(l)
     \/ AlreadyReserved(l) \/ BeginSearch(l) \/ SearchOffTrack(l)
     \/ FindRoute(l) \/ FindNone(l) \/ Arrive(l)

(***************************************************************************)
(* Commands and rounds.                                                      *)
(***************************************************************************)
Does(c, k, step) == at' = [at EXCEPT ![c].cmd = k, ![c].step = step]
StepTo(c, step) == Does(c, at[c].cmd, step)

At(c, l, step) == at[c].step = step /\ at[c].loco = l

\* The locomotive is done with.
Done(c, again) ==
  at' = [at EXCEPT ![c].step = "next", ![c].loco = None, ![c].again = @ \/ again]

Command(c) ==
  /\ at[c].cmd = "none"
  /\ \E k \in Commands :
       \/ k \in AllLocos /\ at' = [at EXCEPT ![c] = [Idle EXCEPT !.cmd = k, !.rest = Locos]]
       \/ k \in OneLoco /\ \E l \in Locos :
            at' = [at EXCEPT ![c] = [Idle EXCEPT !.cmd = k, !.rest = {l}]]
  /\ UNCHANGED <<locoVars, locoMutex>>

\* A round keeps locoMutex, a look-up gives it back.  The last part of stopAll
\* goes through the locomotives without it.
Enter(c) ==
  /\ at[c].cmd # "none" /\ at[c].step = "begin"
  /\ \/ at[c].cmd = "releaseAll" /\ UNCHANGED locoMutex
     \/ at[c].cmd \in OneLoco /\ locoMutex = None /\ UNCHANGED locoMutex
     \/ /\ at[c].cmd \in Rounds \ {"releaseAll"}
        /\ locoMutex = None /\ locoMutex' = c
  /\ StepTo(c, "next")
  /\ UNCHANGED locoVars

Pick(c) ==
  /\ at[c].step = "next" /\ at[c].loco = None
  /\ \E l \in at[c].rest :
       at' = [at EXCEPT ![c].loco = l, ![c].rest = @ \ {l}]
  /\ UNCHANGED <<locoVars, locoMutex>>

FollowingRound(c) ==
  CASE at[c].cmd = "stopAll" -> "awaitAll"
    [] at[c].cmd = "awaitAll" -> IF at[c].again THEN "awaitAll" ELSE "releaseAll"
    [] OTHER -> "none"

EndRound(c) ==
  /\ at[c].step = "next" /\ at[c].loco = None /\ at[c].rest = {}
  /\ at' = [at EXCEPT ![c] =
       IF FollowingRound(c) = "none" THEN Idle
       ELSE [Idle EXCEPT !.cmd = FollowingRound(c), !.rest = Locos]]
  /\ locoMutex' = IF locoMutex = c THEN None ELSE locoMutex
  /\ UNCHANGED locoVars

(***************************************************************************)
(* What is done to a locomotive.                                             *)
(***************************************************************************)
\* stopAll asks those it finds in manual mode: the test is the wrong way round.
Consider(c, l) ==
  /\ At(c, l, "next")
  /\ \/ /\ at[c].cmd = "stop"
        /\ IF state[l] = "Manual" THEN Done(c, FALSE) ELSE StepTo(c, "test")
     \/ /\ at[c].cmd = "stopAll"
        /\ IF state[l] = "Manual" THEN StepTo(c, "test") ELSE Done(c, FALSE)
     \/ at[c].cmd = "awaitAll" /\ StepTo(c, "poll")
     \/ at[c].cmd = "remove" /\ StepTo(c, "force")
     \/ /\ at[c].cmd = "releaseAll"
        /\ IF state[l] = "Manual" THEN Done(c, FALSE) ELSE StepTo(c, "force")
  /\ UNCHANGED locoVars

\* RequestManualMode tests the state and then sets the flag.
Asked(c) == IF at[c].cmd = "stop" THEN StepTo(c, "poll") ELSE Done(c, FALSE)

TestState(c, l) ==
  /\ At(c, l, "test")
  /\ IF state[l] \in {"Manual", "Terminated"} THEN Asked(c) ELSE StepTo(c, "ask")
  /\ UNCHANGED locoVars

RequestManualMode(c, l) ==
  /\ At(c, l, "ask")
  /\ request' = [request EXCEPT ![l] = TRUE]
  /\ lost' = [lost EXCEPT ![l] = FALSE]
  /\ Asked(c)
  /\ UNCHANGED <<state, onTrack, routes, tick, thread>>
\* Another thread joins, or has joined: std::thread throws an exception.
MayJoin(c, l) ==
  thread[l] # "none" /\ \A d \in Clients \ {c} : ~At(d, l, "joining")

Cannot(l) == ~onTrack[l] \/ state[l] \notin {"Manual", "Terminated"}

GoToAutoMode(c, l) ==
  /\ At(c, l, "next") /\ at[c].cmd \in {"start", "startAll"}
  /\ tick[l] = "look" /\ ~Cannot(l)
  /\ state[l] = "Terminated" => MayJoin(c, l)
  /\ Becomes(l, "GetFirst")
  /\ thread' = [thread EXCEPT ![l] = "running"]
  /\ Done(c, FALSE)
  /\ UNCHANGED <<request, onTrack, routes, tick, lost>>

DoNotStart(c, l) ==
  /\ At(c, l, "next") /\ at[c].cmd \in {"start", "startAll"}
  /\ tick[l] = "look" /\ Cannot(l)
  /\ Done(c, FALSE)
  /\ UNCHANGED locoVars

\* The page of a timetable adds a route and starts the locomotive.
AddTimeTable(c, l) ==
  /\ At(c, l, "next") /\ at[c].cmd = "timetable"
  /\ CancelRequest(l)
  /\ at' = [at EXCEPT ![c] = [Idle EXCEPT !.cmd = "start", !.rest = {l}]]
  /\ UNCHANGED <<state, onTrack, routes, tick, thread>>

SetTrack(c, l) ==
  /\ At(c, l, "next") /\ at[c].cmd = "place" /\ tick[l] = "look"
  /\ onTrack' = [onTrack EXCEPT ![l] = TRUE]
  /\ Done(c, FALSE)
  /\ UNCHANGED <<state, request, routes, tick, thread, lost>>

\* A fault: who stops all trains does not ask again.
GoToManualModeAskedOnce(c, l) ==
  /\ At(c, l, "poll")
  /\ \/ state[l] = "Manual" /\ Done(c, FALSE)
     \/ state[l] = "Terminated" /\ StepTo(c, "join")
     \/ state[l] \in Driving /\ at[c].cmd = "awaitAll" /\ Done(c, TRUE)
  /\ UNCHANGED locoVars

GoToManualMode(c, l) ==
  /\ At(c, l, "poll")
  /\ \/ state[l] = "Manual" /\ Done(c, FALSE)
     \/ state[l] = "Terminated" /\ StepTo(c, "join")
     \/ /\ state[l] \in Driving /\ at[c].cmd = "awaitAll"
        /\ at' = [at EXCEPT ![c].step = "test", ![c].again = TRUE]
  /\ UNCHANGED locoVars

ForceManualMode(c, l) ==
  /\ At(c, l, "force") /\ tick[l] = "look"
  /\ IF state[l] = "Manual" THEN StepTo(c, "clear") ELSE StepTo(c, "join")
  /\ IF state[l] \in Driving THEN Becomes(l, "Off") ELSE UNCHANGED state
  /\ UNCHANGED <<request, onTrack, routes, tick, thread, lost>>

\* A fault: the state is stored before the thread is joined.
EnterJoinStored(c, l) ==
  /\ At(c, l, "join") /\ MayJoin(c, l)
  /\ StepTo(c, "joining") /\ Becomes(l, "Manual")
  /\ UNCHANGED <<request, onTrack, routes, tick, thread, lost>>

EnterJoin(c, l) ==
  /\ At(c, l, "join") /\ MayJoin(c, l)
  /\ StepTo(c, "joining")
  /\ UNCHANGED locoVars

LeaveJoin(c, l) ==
  /\ At(c, l, "joining") /\ thread[l] = "ended"
  /\ thread' = [thread EXCEPT ![l] = "none"]
  /\ StepTo(c, "manual")
  /\ UNCHANGED <<state, request, onTrack, routes, tick, lost>>

BecomeManual(c, l) ==
  /\ At(c, l, "manual")
  /\ Becomes(l, "Manual")
  /\ IF at[c].cmd \in {"remove", "releaseAll"} THEN StepTo(c, "clear") ELSE Done(c, FALSE)
  /\ UNCHANGED <<request, onTrack, routes, tick, thread, lost>>

Release(c, l) ==
  /\ At(c, l, "clear") /\ tick[l] = "look"
  /\ onTrack' = [onTrack EXCEPT ![l] = FALSE]
  /\ routes' = [routes EXCEPT ![l] = 0]
  /\ Done(c, FALSE)
  /\ UNCHANGED <<state, request, tick, thread, lost>>

\* The exception ends the program.
FailToJoin(c, l) ==
  /\ \/ At(c, l, "join")
     \/ /\ At(c, l, "next") /\ at[c].cmd \in {"start", "startAll"}
        /\ tick[l] = "look" /\ onTrack[l] /\ state[l] = "Terminated"
  /\ ~MayJoin(c, l)
  /\ failed' = "join"
  /\ UNCHANGED <<locoVars, at>>

Handle(c, l) ==
  \/ Consider(c, l) \/ TestState(c, l) \/ RequestManualMode(c, l)
  \/ GoToAutoMode(c, l) \/ DoNotStart(c, l) \/ AddTimeTable(c, l) \/ SetTrack(c, l)
  \/ GoToManualMode(c, l) \/ ForceManualMode(c, l) \/ EnterJoin(c, l)
  \/ LeaveJoin(c, l) \/ BecomeManual(c, l) \/ Release(c, l)

Work(c) ==
  /\ failed = "no"
  /\ \/ (Enter(c) \/ Pick(c) \/ EndRound(c)) /\ UNCHANGED failed
     \/ \E l \in Locos :
          /\ UNCHANGED locoMutex
          /\ (Handle(c, l) /\ UNCHANGED failed) \/ FailToJoin(c, l)

Next ==
  \/ \E l \in Locos : LocoStep(l)
  \/ \E c \in Clients : Work(c) \/ (failed = "no" /\ Command(c) /\ UNCHANGED failed)

Spec == Init /\ [][Next]_vars

\* Threads run, and trains get where they are going.
FairSpec ==
  /\ Spec
  /\ \A l \in Locos : WF_vars(LocoStep(l)) /\ WF_vars(Arrive(l) /\ LocoStep(l))
  /\ \A c \in Clients : WF_vars(Work(c))

(***************************************************************************)
(* Properties                                                                *)
(***************************************************************************)

\* A thread finds its locomotive neither in manual mode nor terminated, and a
\* locomotive in manual mode has no thread left (AutoMode, which calls both
\* an error).
ThreadOwned ==
  failed = "no" => \A l \in Locos :
    /\ thread[l] = "running" <=> state[l] \in Driving
    /\ state[l] = "Manual" => thread[l] = "none"

\* Release has cleared the routes of a locomotive that runs (LocoBase.cpp:118).
Stranded(l) == state[l] \in {"GetSecond", "Running", "Stopping"} /\ routes[l] = 0

\* Who stops all trains gets an answer when nobody else gives commands any more
\* and no train has lost its routes: each round asks again, and so outlasts the
\* searches that cancel requests (LocoBaseStopAll, AddTimeTable).
StopAllReturns ==
  \A c \in Clients :
    []( /\ at[c].cmd = "stopAll"
        /\ []((\A d \in Clients \ {c} : at[d] = Idle) /\ (\A l \in Locos : ~Stranded(l)))
        => <>(at[c].cmd = "none" \/ failed # "no"))
=============================================================================
