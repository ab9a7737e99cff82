-------------------------- MODULE StartStopProofs --------------------------
(***************************************************************************)
(* Theorems about module StartStop, for any number of locomotives and of     *)
(* browsers.                                                                 *)
(*                                                                           *)
(* ThreadOwned is not inductive: who stores state Manual must know that the  *)
(* thread is joined, and that nobody has started another one since.  It is,  *)
(* because a thread that has been joined cannot be joined, and a locomotive  *)
(* whose state is Terminated is started only by joining its thread.          *)
(***************************************************************************)
EXTENDS StartStop, TLAPS

(***************************************************************************)
(* The inductive invariant.                                                  *)
(***************************************************************************)
ThreadStates(l) ==
  /\ thread[l] = "running" <=> state[l] \in Driving
  /\ thread[l] = "ended" => state[l] = "Terminated"

\* A tick that searches is one of a running thread, and has found room for a
\* route.
Room(l) ==
  /\ state[l] = "GetSecond" => routes[l] \in 0..1
  /\ tick[l] = "search" =>
       /\ thread[l] = "running"
       /\ state[l] \in {"GetFirst", "GetSecond"}
       /\ state[l] = "GetFirst" => routes[l] = 0

Joins(c, l) ==
  /\ At(c, l, "joining") => thread[l] # "none"
  /\ At(c, l, "manual") => thread[l] = "none" /\ state[l] = "Terminated"

Alone(c, d, l) ==
  /\ At(c, l, "joining") => ~At(d, l, "joining")
  /\ At(c, l, "manual") => ~At(d, l, "manual")

Owned ==
  /\ \A l \in Locos : ThreadStates(l) /\ Room(l)
  /\ \A c \in Clients, l \in Locos : Joins(c, l)
  /\ \A c, d \in Clients, l \in Locos : c # d => Alone(c, d, l)

IInv == TypeOK /\ (failed = "no" => Owned)

LEMMA IdlePlace == Idle \in Places /\ Idle.step = "begin"
  BY DEF Idle, Places, Steps

LEMMA InitTyped == Init => IInv
<1>1. Init => TypeOK
  BY IdlePlace DEF Init, TypeOK
<1>2. Init => Owned
  BY IdlePlace DEF Init, Owned, ThreadStates, Room, Joins, Alone, At, Driving
<1> QED
  BY <1>1, <1>2 DEF IInv

(***************************************************************************)
(* A step of a locomotive's thread.                                          *)
(***************************************************************************)
LEMMA LocoKeeps ==
  ASSUME IInv, NEW l \in Locos, LocoStep(l)
  PROVE  IInv'
<1>1. failed = "no" /\ at' = at /\ locoMutex' = locoMutex
  BY DEF LocoStep
<1>2. TypeOK /\ Owned
  BY <1>1 DEF IInv
<1>3. ASSUME failed' = "no", UNCHANGED <<onTrack>>,
             state' \in [Locos -> Driving \cup {"Manual", "Terminated"}],
             request' \in [Locos -> BOOLEAN], lost' \in [Locos -> BOOLEAN],
             routes' \in [Locos -> 0..2], tick' \in [Locos -> {"look", "search"}],
             thread' \in [Locos -> {"none", "running", "ended"}],
             \A m \in Locos \ {l} : /\ state'[m] = state[m] /\ thread'[m] = thread[m]
                                    /\ routes'[m] = routes[m] /\ tick'[m] = tick[m],
             thread[l] = "running", thread'[l] # "none",
             ThreadStates(l)', Room(l)'
      PROVE  IInv'
  <2>1. TypeOK'
    BY <1>1, <1>2, <1>3 DEF TypeOK
  <2>2. ASSUME NEW m \in Locos PROVE ThreadStates(m)' /\ Room(m)'
    BY <1>2, <1>3, <2>2 DEF Owned, ThreadStates, Room
  <2>3. ASSUME NEW c \in Clients, NEW m \in Locos PROVE Joins(c, m)'
    BY <1>1, <1>2, <1>3, <2>3 DEF Owned, Joins, At
  <2>4. ASSUME NEW c \in Clients, NEW d \in Clients, NEW m \in Locos, c # d
        PROVE  Alone(c, d, m)'
    BY <1>1, <1>2, <2>4 DEF Owned, Alone, At
  <2> QED
    BY <2>1, <2>2, <2>3, <2>4 DEF IInv, Owned
<1>4. ThreadStates(l) /\ Room(l)
  BY <1>2 DEF Owned
<1>5. CASE TurnOff(l)
  BY <1>1, <1>2, <1>3, <1>4, <1>5
  DEF TurnOff, Becomes, Ticks, TypeOK, ThreadStates, Room, Driving
<1>6. CASE LeaveFirst(l)
  BY <1>1, <1>2, <1>3, <1>4, <1>6
  DEF LeaveFirst, Becomes, Ticks, TypeOK, ThreadStates, Room, Driving
<1>7. CASE ObeyRequest(l)
  BY <1>1, <1>2, <1>3, <1>4, <1>7
  DEF ObeyRequest, Becomes, Ticks, TypeOK, ThreadStates, Room, Driving
<1>8. CASE ForgetRequest(l)
  BY <1>1, <1>2, <1>3, <1>4, <1>8
  DEF ForgetRequest, Becomes, Ticks, TypeOK, ThreadStates, Room, Driving
<1>9. CASE AlreadyReserved(l)
  BY <1>1, <1>2, <1>3, <1>4, <1>9
  DEF AlreadyReserved, Becomes, Ticks, TypeOK, ThreadStates, Room, Driving
<1>10. CASE BeginSearch(l)
  BY <1>1, <1>2, <1>3, <1>4, <1>10
  DEF BeginSearch, Searches, Ticks, TypeOK, ThreadStates, Room, Driving
<1>11. CASE SearchOffTrack(l)
  BY <1>1, <1>2, <1>11 DEF SearchOffTrack, locoVars, IInv, TypeOK
<1>12. CASE FindRoute(l)
  <2>1. routes[l] + 1 \in 1..2 /\ (state[l] = "GetFirst" => routes[l] + 1 = 1)
    BY <1>2, <1>4, <1>12 DEF FindRoute, Room, TypeOK
  <2>2. request' \in [Locos -> BOOLEAN] /\ lost' \in [Locos -> BOOLEAN]
    BY <1>2, <1>12 DEF FindRoute, CancelRequest, KeepRequest, TypeOK
  <2>3. PICK s \in {"GetSecond", "Running"} :
          /\ state' = [state EXCEPT ![l] = s]
          /\ s = "GetSecond" => state[l] = "GetFirst"
    BY <1>12 DEF FindRoute, Becomes
  <2>4. routes' = [routes EXCEPT ![l] = @ + 1] /\ tick' = [tick EXCEPT ![l] = "look"]
        /\ UNCHANGED <<onTrack, thread, failed>>
    BY <1>12 DEF FindRoute
  <2>5. thread[l] = "running"
    BY <1>4, <1>12 DEF FindRoute, Room
  <2>6. ThreadStates(l)' /\ Room(l)'
    BY <1>2, <2>1, <2>3, <2>4, <2>5 DEF TypeOK, ThreadStates, Room, Driving
  <2>7. /\ state' \in [Locos -> Driving \cup {"Manual", "Terminated"}]
        /\ routes' \in [Locos -> 0..2] /\ tick' \in [Locos -> {"look", "search"}]
        /\ thread' \in [Locos -> {"none", "running", "ended"}]
    BY <1>2, <2>1, <2>3, <2>4 DEF TypeOK, Driving
  <2> QED
    BY <1>1, <1>2, <1>3, <2>2, <2>3, <2>4, <2>5, <2>6, <2>7 DEF TypeOK
<1>13. CASE FindNone(l)
  <2>1. request' \in [Locos -> BOOLEAN] /\ lost' \in [Locos -> BOOLEAN]
    BY <1>2, <1>13 DEF FindNone, CancelRequest, KeepRequest, TypeOK
  <2> QED
    BY <1>1, <1>2, <1>3, <1>4, <1>13, <2>1
    DEF FindNone, TypeOK, ThreadStates, Room, Driving
<1>14. CASE Arrive(l)
  <2>1. PICK left \in 0..1, s \in Driving :
          /\ left < routes[l] /\ routes' = [routes EXCEPT ![l] = left]
          /\ state' = [state EXCEPT ![l] = s]
    BY <1>14 DEF Arrive, Becomes, Driving
  <2> QED
    BY <1>1, <1>2, <1>3, <1>4, <1>14, <2>1
    DEF Arrive, Ticks, TypeOK, ThreadStates, Room, Driving
<1> QED
  BY <1>5, <1>6, <1>7, <1>8, <1>9, <1>10, <1>11, <1>12, <1>13, <1>14 DEF LocoStep

(***************************************************************************)
(* Where a client gets.                                                      *)
(***************************************************************************)
CommandsOrNone == OneLoco \cup Rounds \cup {"none"}

\* Client c alone moves, to a step.
Moves(c, step) ==
  /\ at' \in [Clients -> Places]
  /\ at'[c].step = step
  /\ \A d \in Clients \ {c} : at'[d] = at[d]

LEMMA PlaceFields ==
  ASSUME TypeOK, NEW c \in Clients
  PROVE  /\ at[c] \in Places /\ at[c].cmd \in CommandsOrNone /\ at[c].step \in Steps
         /\ at[c].rest \subseteq Locos /\ at[c].again \in BOOLEAN
  BY DEF TypeOK, Places, CommandsOrNone

LEMMA Step ==
  ASSUME TypeOK, NEW c \in Clients, NEW step \in Steps, StepTo(c, step)
  PROVE  Moves(c, step) /\ at'[c].loco = at[c].loco
  BY PlaceFields DEF StepTo, Does, Moves, TypeOK, Places

LEMMA Replaced ==
  ASSUME TypeOK, NEW c \in Clients, NEW p \in Places, at' = [at EXCEPT ![c] = p]
  PROVE  Moves(c, p.step)
  BY DEF Moves, TypeOK

LEMMA DoneWith ==
  ASSUME TypeOK, NEW c \in Clients, NEW again \in BOOLEAN, Done(c, again)
  PROVE  Moves(c, "next")
<1>1. ASSUME NEW b \in BOOLEAN,
             at' = [at EXCEPT ![c].step = "next", ![c].loco = None, ![c].again = b]
      PROVE  Moves(c, "next")
  <2> DEFINE p == [at[c] EXCEPT !.step = "next", !.loco = None, !.again = b]
  <2>1. at' = [at EXCEPT ![c] = p]
    BY <1>1 DEF TypeOK
  <2>2. p \in Places /\ p.step = "next"
    BY PlaceFields DEF Steps, Places
  <2> QED
    BY <2>1, <2>2, Replaced
<1>2. (at[c].again \/ again) \in BOOLEAN
  OBVIOUS
<1> QED
  BY <1>1, <1>2 DEF Done

LEMMA Anew ==
  ASSUME TypeOK, NEW c \in Clients, NEW k \in CommandsOrNone, NEW r \in SUBSET Locos,
         at' = [at EXCEPT ![c] = [Idle EXCEPT !.cmd = k, !.rest = r]]
  PROVE  Moves(c, "begin")
<1>1. [Idle EXCEPT !.cmd = k, !.rest = r] \in Places
  BY DEF Idle, Places, Steps, CommandsOrNone
<1>2. [Idle EXCEPT !.cmd = k, !.rest = r].step = "begin"
  BY DEF Idle
<1> QED
  BY <1>1, <1>2 DEF Moves, TypeOK

(***************************************************************************)
(* What a client does.                                                       *)
(***************************************************************************)
Joined == {"joining", "manual"}

\* A client that moves to a step outside of a join.
LEMMA Outside ==
  ASSUME TypeOK, Owned, NEW c \in Clients, NEW step, step \notin Joined, Moves(c, step),
         \A l \in Locos : ThreadStates(l)' /\ Room(l)',
         \A d \in Clients \ {c}, l \in Locos : Joins(d, l)'
  PROVE  Owned'
<1>1. ASSUME NEW d \in Clients, NEW l \in Locos PROVE Joins(d, l)'
  BY <1>1 DEF Moves, Joins, At, Joined
<1>2. ASSUME NEW d \in Clients, NEW e \in Clients, NEW l \in Locos, d # e
      PROVE  Alone(d, e, l)'
  BY <1>2 DEF Owned, Alone, Moves, At, Joined
<1> QED
  BY <1>1, <1>2 DEF Owned

\* One that changes neither states nor threads.
LEMMA Quiet ==
  ASSUME TypeOK, Owned, NEW c \in Clients, NEW step, step \notin Joined, Moves(c, step),
         UNCHANGED <<state, tick, thread>>,
         \A l \in Locos : routes'[l] = routes[l] \/ (routes'[l] = 0)
  PROVE  Owned'
<1>1. ASSUME NEW l \in Locos PROVE ThreadStates(l)' /\ Room(l)'
  BY <1>1 DEF Owned, ThreadStates, Room
<1>2. ASSUME NEW d \in Clients \ {c}, NEW l \in Locos PROVE Joins(d, l)'
  BY <1>2 DEF Owned, Joins, Moves, At
<1> QED
  BY <1>1, <1>2, Outside

\* One that changes nothing of the locomotives.
LEMMA Stays ==
  ASSUME TypeOK, Owned, NEW c \in Clients, NEW step, step \notin Joined, Moves(c, step),
         UNCHANGED <<locoVars, failed>>, locoMutex' \in Clients \cup {None}
  PROVE  TypeOK' /\ Owned'
<1>1. TypeOK'
  BY DEF TypeOK, locoVars, Moves
<1>2. Owned'
  BY Quiet DEF locoVars
<1> QED
  BY <1>1, <1>2

LEMMA RoundsKeep ==
  ASSUME TypeOK, Owned, NEW c \in Clients, Enter(c) \/ Pick(c) \/ EndRound(c) \/ Command(c),
         UNCHANGED failed
  PROVE  TypeOK' /\ Owned'
<1>1. CASE Enter(c)
  <2>1. Moves(c, "next")
    BY <1>1, Step DEF Enter, Steps
  <2>2. locoMutex' \in Clients \cup {None}
    BY <1>1 DEF Enter, TypeOK
  <2> QED
    BY <1>1, <2>1, <2>2, Stays DEF Enter, Joined
<1>2. CASE Pick(c)
  <2>1. PICK l \in at[c].rest : at' = [at EXCEPT ![c].loco = l, ![c].rest = @ \ {l}]
    BY <1>2 DEF Pick
  <2>2. l \in Locos
    BY <2>1, PlaceFields
  <2>3. Moves(c, "next")
    <3> DEFINE p == [at[c] EXCEPT !.loco = l, !.rest = @ \ {l}]
    <3>1. at' = [at EXCEPT ![c] = p]
      BY <2>1 DEF TypeOK
    <3>2. p \in Places /\ p.step = "next"
      BY <1>2, <2>2, PlaceFields DEF Pick, Places
    <3> QED
      BY <3>1, <3>2, Replaced
  <2> QED
    BY <1>2, <2>3, Stays DEF Pick, Joined, TypeOK
<1>3. CASE EndRound(c)
  <2>1. FollowingRound(c) \in CommandsOrNone
    BY DEF FollowingRound, CommandsOrNone, Rounds
  <2>2. Moves(c, "begin")
    <3>1. CASE FollowingRound(c) = "none"
      BY <1>3, <3>1, IdlePlace DEF EndRound, Moves, TypeOK
    <3>2. CASE FollowingRound(c) # "none"
      BY <1>3, <2>1, <3>2, Anew DEF EndRound
    <3> QED
      BY <3>1, <3>2
  <2> QED
    BY <1>3, <2>2, Stays DEF EndRound, Joined, TypeOK
<1>4. CASE Command(c)
  <2>1. PICK k \in CommandsOrNone, r \in SUBSET Locos :
          at' = [at EXCEPT ![c] = [Idle EXCEPT !.cmd = k, !.rest = r]]
    BY <1>4 DEF Command, CommandsOrNone, Rounds
  <2>2. Moves(c, "begin")
    BY <2>1, Anew
  <2> QED
    BY <1>4, <2>2, Stays DEF Command, Joined, TypeOK
<1> QED
  BY <1>1, <1>2, <1>3, <1>4

LEMMA AskedMoves ==
  ASSUME TypeOK, NEW c \in Clients, Asked(c)
  PROVE  \E step \in Steps \ Joined : Moves(c, step)
<1>1. CASE at[c].cmd = "stop"
  <2>1. Moves(c, "poll")
    BY <1>1, Step DEF Asked, Steps
  <2> QED
    BY <2>1 DEF Steps, Joined
<1>2. CASE at[c].cmd # "stop"
  <2>1. Moves(c, "next")
    BY <1>2, DoneWith DEF Asked
  <2> QED
    BY <2>1 DEF Steps, Joined
<1> QED
  BY <1>1, <1>2

\* What only reads the state of a locomotive.
LEMMA LooksKeep ==
  ASSUME TypeOK, Owned, NEW c \in Clients, NEW l \in Locos,
         \/ Consider(c, l) \/ TestState(c, l) \/ DoNotStart(c, l) \/ GoToManualMode(c, l),
         UNCHANGED <<failed, locoMutex>>
  PROVE  TypeOK' /\ Owned'
<1>1. UNCHANGED locoVars /\ locoMutex' \in Clients \cup {None}
  BY DEF Consider, TestState, DoNotStart, GoToManualMode, TypeOK
<1>2. PICK step \in Steps \ Joined : Moves(c, step)
  <2>1. ASSUME StepTo(c, "test") \/ StepTo(c, "poll") \/ StepTo(c, "force")
                 \/ StepTo(c, "ask") \/ StepTo(c, "join")
        PROVE  \E step \in Steps \ Joined : Moves(c, step)
    <3>1. PICK s \in Steps \ Joined : StepTo(c, s)
      BY <2>1 DEF Steps, Joined
    <3> QED
      BY <3>1, Step
  <2>2. ASSUME Done(c, FALSE)
        PROVE  \E step \in Steps \ Joined : Moves(c, step)
    BY <2>2, DoneWith DEF Steps, Joined
  <2>3. CASE Consider(c, l)
    BY <2>1, <2>2, <2>3 DEF Consider
  <2>4. CASE TestState(c, l)
    BY <2>1, <2>4, AskedMoves DEF TestState
  <2>5. CASE DoNotStart(c, l)
    BY <2>2, <2>5 DEF DoNotStart
  <2>6. CASE GoToManualMode(c, l)
    <3>1. CASE at' = [at EXCEPT ![c].step = "test", ![c].again = TRUE]
      <4> DEFINE p == [at[c] EXCEPT !.step = "test", !.again = TRUE]
      <4>1. at' = [at EXCEPT ![c] = p]
        BY <3>1 DEF TypeOK
      <4>2. p \in Places /\ p.step = "test"
        BY PlaceFields DEF Steps, Places
      <4>3. Moves(c, "test")
        BY <4>1, <4>2, Replaced
      <4> QED
        BY <4>3 DEF Steps, Joined
    <3> QED
      BY <2>1, <2>2, <2>6, <3>1 DEF GoToManualMode
  <2> QED
    BY <2>3, <2>4, <2>5, <2>6
<1> QED
  BY <1>1, <1>2, Stays

\* What changes neither a state nor a thread.
LEMMA WritesKeep ==
  ASSUME TypeOK, Owned, NEW c \in Clients, NEW l \in Locos,
         \/ RequestManualMode(c, l) \/ AddTimeTable(c, l) \/ SetTrack(c, l) \/ Release(c, l),
         UNCHANGED <<failed, locoMutex>>
  PROVE  TypeOK' /\ Owned'
<1>1. PICK step \in Steps \ Joined : Moves(c, step)
  <2>1. ASSUME Done(c, FALSE)
        PROVE  \E step \in Steps \ Joined : Moves(c, step)
    BY <2>1, DoneWith DEF Steps, Joined
  <2>2. CASE RequestManualMode(c, l)
    BY <2>2, AskedMoves DEF RequestManualMode
  <2>3. CASE AddTimeTable(c, l)
    <3>1. Moves(c, "begin")
      <4>1. at' = [at EXCEPT ![c] = [Idle EXCEPT !.cmd = "start", !.rest = {l}]]
        BY <2>3 DEF AddTimeTable
      <4>2. "start" \in CommandsOrNone /\ {l} \in SUBSET Locos
        BY DEF CommandsOrNone, OneLoco
      <4> QED
        BY <4>1, <4>2, Anew
    <3> QED
      BY <3>1 DEF Steps, Joined
  <2>4. CASE SetTrack(c, l)
    BY <2>1, <2>4 DEF SetTrack
  <2>5. CASE Release(c, l)
    BY <2>1, <2>5 DEF Release
  <2> QED
    BY <2>2, <2>3, <2>4, <2>5
<1>2. /\ UNCHANGED <<state, tick, thread>>
      /\ request' \in [Locos -> BOOLEAN] /\ lost' \in [Locos -> BOOLEAN]
      /\ onTrack' \in [Locos -> BOOLEAN] /\ routes' \in [Locos -> 0..2]
      /\ \A m \in Locos : routes'[m] = routes[m] \/ (routes'[m] = 0)
  <2>1. CASE RequestManualMode(c, l)
    BY <2>1 DEF RequestManualMode, TypeOK
  <2>2. CASE AddTimeTable(c, l)
    BY <2>2 DEF AddTimeTable, CancelRequest, TypeOK
  <2>3. CASE SetTrack(c, l)
    BY <2>3 DEF SetTrack, TypeOK
  <2>4. CASE Release(c, l)
    BY <2>4 DEF Release, TypeOK
  <2> QED
    BY <2>1, <2>2, <2>3, <2>4
<1>3. TypeOK'
  BY <1>1, <1>2 DEF TypeOK, Moves
<1> QED
  BY <1>1, <1>2, <1>3, Quiet

(***************************************************************************)
(* Starting and joining threads.                                             *)
(***************************************************************************)
\* A thread is started where there is none that another client knows of.
LEMMA StartKeeps ==
  ASSUME TypeOK, Owned, NEW c \in Clients, NEW l \in Locos, GoToAutoMode(c, l),
         UNCHANGED <<failed, locoMutex>>
  PROVE  TypeOK' /\ Owned'
<1>1. Moves(c, "next")
  BY DoneWith DEF GoToAutoMode
<1>2. /\ state' = [state EXCEPT ![l] = "GetFirst"]
      /\ thread' = [thread EXCEPT ![l] = "running"]
      /\ UNCHANGED <<request, onTrack, routes, tick, lost>> /\ tick[l] = "look"
  BY DEF GoToAutoMode, Becomes
<1>3. TypeOK'
  BY <1>1, <1>2 DEF TypeOK, Moves, Driving
<1>4. ASSUME NEW m \in Locos PROVE ThreadStates(m)' /\ Room(m)'
  BY <1>2, <1>4 DEF Owned, TypeOK, ThreadStates, Room, Driving
<1>5. ASSUME NEW d \in Clients \ {c} PROVE ~At(d, l, "manual")
  <2>1. CASE state[l] = "Terminated"
    BY <1>5, <2>1 DEF GoToAutoMode, MayJoin, Owned, Joins
  <2>2. CASE state[l] # "Terminated"
    BY <1>5, <2>2 DEF Owned, Joins
  <2> QED
    BY <2>1, <2>2
<1>6. ASSUME NEW d \in Clients \ {c}, NEW m \in Locos PROVE Joins(d, m)'
  BY <1>1, <1>2, <1>5, <1>6 DEF Owned, Joins, Moves, At, TypeOK
<1> QED
  BY <1>1, <1>3, <1>4, <1>6, Outside DEF Joined

LEMMA ForceKeeps ==
  ASSUME TypeOK, Owned, NEW c \in Clients, NEW l \in Locos, ForceManualMode(c, l),
         UNCHANGED <<failed, locoMutex>>
  PROVE  TypeOK' /\ Owned'
<1>1. PICK step \in Steps \ Joined : Moves(c, step)
  <2>1. PICK s \in Steps \ Joined : StepTo(c, s)
    BY DEF ForceManualMode, Steps, Joined
  <2> QED
    BY <2>1, Step
<1>2. /\ UNCHANGED <<request, onTrack, routes, tick, thread, lost>> /\ tick[l] = "look"
      /\ IF state[l] \in Driving THEN state' = [state EXCEPT ![l] = "Off"]
         ELSE UNCHANGED state
  BY DEF ForceManualMode, Becomes
<1>3. TypeOK'
  BY <1>1, <1>2 DEF TypeOK, Moves, Driving
<1>4. ASSUME NEW m \in Locos PROVE ThreadStates(m)' /\ Room(m)'
  BY <1>2, <1>4 DEF Owned, TypeOK, ThreadStates, Room, Driving
<1>5. ASSUME NEW d \in Clients \ {c}, NEW m \in Locos PROVE Joins(d, m)'
  BY <1>1, <1>2, <1>5 DEF Owned, Joins, Moves, At, TypeOK, Driving
<1> QED
  BY <1>1, <1>3, <1>4, <1>5, Outside

LEMMA EnterKeeps ==
  ASSUME TypeOK, Owned, NEW c \in Clients, NEW l \in Locos, EnterJoin(c, l),
         UNCHANGED <<failed, locoMutex>>
  PROVE  TypeOK' /\ Owned'
<1>1. Moves(c, "joining") /\ at'[c].loco = l /\ UNCHANGED locoVars /\ MayJoin(c, l)
  BY Step DEF EnterJoin, Steps, At
<1>2. TypeOK'
  BY <1>1 DEF TypeOK, Moves, locoVars
<1>3. ASSUME NEW m \in Locos PROVE ThreadStates(m)' /\ Room(m)'
  BY <1>1, <1>3 DEF Owned, ThreadStates, Room, locoVars
<1>4. ASSUME NEW d \in Clients, NEW m \in Locos PROVE Joins(d, m)'
  BY <1>1, <1>4 DEF Owned, Joins, At, Moves, MayJoin, locoVars
<1>5. ASSUME NEW d \in Clients, NEW e \in Clients, NEW m \in Locos, d # e
      PROVE  Alone(d, e, m)'
  BY <1>1, <1>5 DEF Owned, Alone, At, Moves, MayJoin
<1> QED
  BY <1>2, <1>3, <1>4, <1>5 DEF Owned

LEMMA LeaveKeeps ==
  ASSUME TypeOK, Owned, NEW c \in Clients, NEW l \in Locos, LeaveJoin(c, l),
         UNCHANGED <<failed, locoMutex>>
  PROVE  TypeOK' /\ Owned'
<1>1. Moves(c, "manual") /\ at'[c].loco = l
  BY Step DEF LeaveJoin, Steps, At
<1>2. /\ thread' = [thread EXCEPT ![l] = "none"] /\ thread[l] = "ended"
      /\ UNCHANGED <<state, request, onTrack, routes, tick, lost>>
  BY DEF LeaveJoin
<1>3. TypeOK'
  BY <1>1, <1>2 DEF TypeOK, Moves
<1>4. ASSUME NEW m \in Locos PROVE ThreadStates(m)' /\ Room(m)'
  BY <1>2, <1>4 DEF Owned, TypeOK, ThreadStates, Room
<1>5. ASSUME NEW d \in Clients \ {c} PROVE ~At(d, l, "joining") /\ ~At(d, l, "manual")
  BY <1>2, <1>5 DEF Owned, Alone, Joins, LeaveJoin
<1>6. ASSUME NEW d \in Clients, NEW m \in Locos PROVE Joins(d, m)'
  <2>1. CASE d = c
    <3>1. state[l] = "Terminated"
      BY <1>2 DEF Owned, ThreadStates
    <3> QED
      BY <1>1, <1>2, <1>6, <2>1, <3>1 DEF Joins, At, Moves, TypeOK
  <2>2. CASE d # c
    BY <1>1, <1>2, <1>5, <1>6, <2>2 DEF Owned, Joins, At, Moves, TypeOK
  <2> QED
    BY <2>1, <2>2
<1>7. ASSUME NEW d \in Clients, NEW e \in Clients, NEW m \in Locos, d # e
      PROVE  Alone(d, e, m)'
  BY <1>1, <1>5, <1>7 DEF Owned, Alone, At, Moves
<1> QED
  BY <1>3, <1>4, <1>6, <1>7 DEF Owned

LEMMA StoreKeeps ==
  ASSUME TypeOK, Owned, NEW c \in Clients, NEW l \in Locos, BecomeManual(c, l),
         UNCHANGED <<failed, locoMutex>>
  PROVE  TypeOK' /\ Owned'
<1>1. PICK step \in Steps \ Joined : Moves(c, step)
  <2>1. CASE StepTo(c, "clear")
    BY <2>1, Step DEF Steps, Joined
  <2>2. CASE Done(c, FALSE)
    BY <2>2, DoneWith DEF Steps, Joined
  <2> QED
    BY <2>1, <2>2 DEF BecomeManual
<1>2. /\ state' = [state EXCEPT ![l] = "Manual"] /\ At(c, l, "manual")
      /\ UNCHANGED <<request, onTrack, routes, tick, thread, lost>>
  BY DEF BecomeManual, Becomes
<1>3. thread[l] = "none"
  BY <1>2 DEF Owned, Joins
<1>4. TypeOK'
  BY <1>1, <1>2 DEF TypeOK, Moves
<1>5. ASSUME NEW m \in Locos PROVE ThreadStates(m)' /\ Room(m)'
  BY <1>2, <1>3, <1>5 DEF Owned, TypeOK, ThreadStates, Room, Driving
<1>6. ASSUME NEW d \in Clients \ {c}, NEW m \in Locos PROVE Joins(d, m)'
  <2>1. ~At(d, l, "manual")
    BY <1>2, <1>6 DEF Owned, Alone
  <2> QED
    BY <1>1, <1>2, <1>6, <2>1 DEF Owned, Joins, At, Moves, TypeOK
<1> QED
  BY <1>1, <1>4, <1>5, <1>6, Outside

(***************************************************************************)
(* The theorems.                                                             *)
(***************************************************************************)
LEMMA WorkKeeps ==
  ASSUME IInv, NEW c \in Clients, Work(c) \/ (failed = "no" /\ Command(c) /\ UNCHANGED failed)
  PROVE  IInv'
<1>1. TypeOK /\ Owned
  BY DEF IInv, Work
<1>2. CASE UNCHANGED failed /\ (Enter(c) \/ Pick(c) \/ EndRound(c) \/ Command(c))
  BY <1>1, <1>2, RoundsKeep DEF IInv
<1>3. ASSUME NEW l \in Locos, UNCHANGED <<failed, locoMutex>>, Handle(c, l)
      PROVE  IInv'
  BY <1>1, <1>3, LooksKeep, WritesKeep, StartKeeps, ForceKeeps, EnterKeeps, LeaveKeeps,
    StoreKeeps DEF Handle, IInv
<1>4. ASSUME NEW l \in Locos, UNCHANGED locoMutex, FailToJoin(c, l)
      PROVE  IInv'
  BY <1>1, <1>4 DEF FailToJoin, IInv, TypeOK, locoVars
<1> QED
  BY <1>2, <1>3, <1>4 DEF Work

LEMMA Inductive == IInv /\ [Next]_vars => IInv'
<1>1. CASE UNCHANGED vars
  BY <1>1 DEF vars, locoVars, IInv, TypeOK, Owned, ThreadStates, Room, Joins, Alone, At
<1> QED
  BY <1>1, LocoKeeps, WorkKeeps DEF Next

THEOREM Invariant == Spec => []IInv
<1> QED
  BY InitTyped, Inductive, PTL DEF Spec

\* Type correctness, and with it that a locomotive never holds more than two
\* routes (StartStop).
THEOREM StartStopTyped == Spec => []TypeOK
<1>1. IInv => TypeOK
  BY DEF IInv
<1> QED
  BY <1>1, Invariant, PTL

\* Threads and states belong together, however many browsers start, stop and
\* remove however many locomotives (LocoBase::GoToAutoMode, GoToManualMode,
\* ForceManualMode).
THEOREM ThreadsOwned == Spec => []ThreadOwned
<1>1. IInv => ThreadOwned
  BY DEF IInv, Owned, ThreadStates, ThreadOwned, Driving, TypeOK
<1> QED
  BY <1>1, Invariant, PTL
=============================================================================
