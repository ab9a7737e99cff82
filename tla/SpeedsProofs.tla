---------------------------- MODULE SpeedsProofs ----------------------------
(***************************************************************************)
(* Theorems about module Speeds, for any vehicles, callers and browsers and  *)
(* a ring of any length.                                                     *)
(***************************************************************************)
EXTENDS Speeds, SequenceTheorems, TLAPS

(***************************************************************************)
(* What a thread has to do.                                                  *)
(***************************************************************************)
LEMMA JobTypes ==
  ASSUME NEW v \in Vehicles, NEW s \in Speed, NEW o \in Origins,
         NEW do \in {"compare", "store", "tell"}
  PROVE  /\ ToDo(do, v, s, o) \in Jobs
         /\ Compare(v, s, o) \in Jobs
         /\ [do |-> "announce", vehicle |-> v] \in Jobs
  BY DEF ToDo, Compare, Jobs

LEMMA JobFields ==
  ASSUME NEW j \in Jobs
  PROVE  /\ j.vehicle \in Vehicles
         /\ j.do \in {"compare", "store", "tell", "announce"}
         /\ j.do # "announce" => j.speed \in Speed /\ j.origin \in Origins
  BY DEF Jobs

\* The vehicles are those of the layout.
LEMMA Lists ==
  /\ Locomotives \o Units \in Seq(Vehicles)
  /\ \A i \in DOMAIN Locomotives : Locomotives[i] \in Vehicles
  /\ \A i \in DOMAIN (Locomotives \o Units) : (Locomotives \o Units)[i] \in Vehicles
<1>1. Locomotives \in Seq(Vehicles) /\ Units \in Seq(Vehicles)
  BY SpeedTypes
<1>2. Locomotives \o Units \in Seq(Vehicles)
  BY <1>1, ConcatProperties
<1> QED
  BY <1>1, <1>2, LenProperties, ElementOfSeq

\* Lists put together; a list made from a function.
LEMMA Around ==
  ASSUME NEW S, NEW x \in S, NEW b \in Seq(S), NEW y \in S, NEW d \in Seq(S)
  PROVE  /\ <<x>> \o b \o <<y>> \o d \in Seq(S)
         /\ Len(<<x>> \o b \o <<y>> \o d) = Len(b) + Len(d) + 2
         /\ (<<x>> \o b \o <<y>> \o d)[1] = x
         /\ (<<x>> \o b \o <<y>> \o d)[Len(b) + 2] = y
         /\ \A i \in 1..Len(b) : (<<x>> \o b \o <<y>> \o d)[i + 1] = b[i]
         /\ \A i \in 1..Len(d) : (<<x>> \o b \o <<y>> \o d)[i + Len(b) + 2] = d[i]
  OBVIOUS

LEMMA FunctionIsList ==
  ASSUME NEW S, NEW n \in Nat, NEW f \in [1..n -> S]
  PROVE  f \in Seq(S) /\ Len(f) = n
  BY SeqDef

\* A list of jobs, one for each element of another list.
LEMMA ForEach ==
  ASSUME NEW q \in Seq(Vehicles), NEW s \in Speed
  PROVE  /\ [i \in DOMAIN q |-> Compare(q[i], s, "internal")] \in Seq(Jobs)
         /\ [i \in DOMAIN q |-> [do |-> "announce", vehicle |-> q[i]]] \in Seq(Jobs)
         /\ Len([i \in DOMAIN q |-> Compare(q[i], s, "internal")]) = Len(q)
<1> DEFINE f == [i \in DOMAIN q |-> Compare(q[i], s, "internal")]
           g == [i \in DOMAIN q |-> [do |-> "announce", vehicle |-> q[i]]]
<1>1. DOMAIN q = 1..Len(q) /\ Len(q) \in Nat /\ \A i \in 1..Len(q) : q[i] \in Vehicles
  BY LenProperties, ElementOfSeq
<1>2. \A i \in 1..Len(q) : /\ Compare(q[i], s, "internal") \in Jobs
                            /\ [do |-> "announce", vehicle |-> q[i]] \in Jobs
  BY <1>1, JobTypes DEF Origins
<1>3. f \in [1..Len(q) -> Jobs] /\ g \in [1..Len(q) -> Jobs]
  BY <1>1, <1>2
<1> HIDE DEF f, g
<1>4. f \in Seq(Jobs) /\ g \in Seq(Jobs) /\ Len(f) = Len(q)
  BY <1>1, <1>3, FunctionIsList
<1> QED
  BY <1>4 DEF f, g

(***************************************************************************)
(* What a call becomes when its speed is new: the store, a call for each     *)
(* slave, the tell, and what was behind it.                                  *)
(***************************************************************************)
Expanded(q) ==
  LET j == Head(q) IN
  <<ToDo("store", j.vehicle, j.speed, j.origin)>>
  \o [i \in DOMAIN Slaves[j.vehicle] |->
        Compare(Slaves[j.vehicle][i], j.speed, "internal")]
  \o <<ToDo("tell", j.vehicle, j.speed, j.origin)>> \o Tail(q)

LEMMA Expansion ==
  ASSUME NEW q \in Seq(Jobs), q # <<>>, Head(q).do = "compare",
         NEW n, n = Len(Slaves[Head(q).vehicle])
  PROVE  /\ n \in Nat /\ Expanded(q) \in Seq(Jobs) /\ Len(Expanded(q)) = Len(q) + n + 1
         /\ Expanded(q)[1] = ToDo("store", Head(q).vehicle, Head(q).speed, Head(q).origin)
         /\ \A i \in 1..n : Expanded(q)[i + 1] =
              Compare(Slaves[Head(q).vehicle][i], Head(q).speed, "internal")
         /\ Expanded(q)[n + 2] = ToDo("tell", Head(q).vehicle, Head(q).speed, Head(q).origin)
         /\ \A i \in 2..Len(q) : Expanded(q)[i + n + 1] = q[i]
<1> DEFINE j == Head(q)
           slaves == Slaves[j.vehicle]
           a == ToDo("store", j.vehicle, j.speed, j.origin)
           b == [i \in DOMAIN slaves |-> Compare(slaves[i], j.speed, "internal")]
           c == ToDo("tell", j.vehicle, j.speed, j.origin)
           d == Tail(q)
<1>1. /\ j \in Jobs /\ d \in Seq(Jobs) /\ Len(d) = Len(q) - 1
      /\ \A i \in 1..Len(d) : d[i] = q[i + 1]
      /\ Len(q) \in Nat \ {0}
  BY HeadTailProperties, EmptySeq
<1>2. j.vehicle \in Vehicles /\ j.speed \in Speed /\ j.origin \in Origins
  BY <1>1, JobFields
<1>3. slaves \in Seq(Vehicles) /\ n \in Nat
  BY <1>2, SpeedTypes, LenProperties
<1>4. a \in Jobs /\ c \in Jobs
  BY <1>2, JobTypes
<1>5. /\ b \in Seq(Jobs) /\ Len(b) = n /\ DOMAIN slaves = 1..n
      /\ \A i \in 1..n : b[i] = Compare(slaves[i], j.speed, "internal")
  BY <1>2, <1>3, ForEach, LenProperties
<1>6. Expanded(q) = <<a>> \o b \o <<c>> \o d
  BY DEF Expanded
<1> HIDE DEF a, b, c, d
<1>7. /\ Expanded(q) \in Seq(Jobs) /\ Len(Expanded(q)) = Len(b) + Len(d) + 2
      /\ Expanded(q)[1] = a /\ Expanded(q)[Len(b) + 2] = c
      /\ \A i \in 1..Len(b) : Expanded(q)[i + 1] = b[i]
      /\ \A i \in 1..Len(d) : Expanded(q)[i + Len(b) + 2] = d[i]
  <2>1. b \in Seq(Jobs) /\ d \in Seq(Jobs)
    BY <1>1, <1>5
  <2> QED
    BY <2>1, <1>4, <1>6, Around
<1>8. \A i \in 2..Len(q) : Expanded(q)[i + n + 1] = q[i]
  <2> TAKE i \in 2..Len(q)
  <2>1. /\ i - 1 \in 1..Len(d) /\ (i - 1) + n + 2 = i + n + 1 /\ (i - 1) + 1 = i
    BY <1>1, <1>3
  <2>2. Expanded(q)[(i - 1) + n + 2] = d[i - 1] /\ d[i - 1] = q[(i - 1) + 1]
    BY <2>1, <1>1, <1>5, <1>7
  <2> QED
    BY <2>1, <2>2
<1>9. Len(Expanded(q)) = Len(q) + n + 1
  BY <1>1, <1>3, <1>5, <1>7
<1>10. /\ \A i \in 1..n : Expanded(q)[i + 1] = Compare(slaves[i], j.speed, "internal")
       /\ Expanded(q)[n + 2] = c
  BY <1>5, <1>7
<1> QED
  BY <1>3, <1>7, <1>8, <1>9, <1>10 DEF a, c

(***************************************************************************)
(* Typing: the calls, the log of the web server, the pages.                  *)
(***************************************************************************)
CallTypes ==
  /\ speed \in [Vehicles -> Speed] /\ station \in [Vehicles -> Speed]
  /\ todo \in [Threads -> Seq(Jobs)]
  /\ crossed \in [Vehicles -> BOOLEAN] /\ initLocosDone \in BOOLEAN

LogTypes ==
  /\ updateID \in Nat \ {0} /\ DOMAIN updates \subseteq 1..updateID - 1
  /\ \A i \in DOMAIN updates : updates[i] \in Entries

PageTypes == next \in [Browsers -> Nat \ {0}] /\ control \in [Browsers -> Controls]

LEMMA TypeParts == TypeOK <=> CallTypes /\ LogTypes /\ PageTypes
  BY DEF TypeOK, CallTypes, LogTypes, PageTypes

\* What a thread does next.
LEMMA JobTyped ==
  ASSUME CallTypes, NEW t \in Threads, todo[t] # <<>>
  PROVE  /\ Job(t) \in Jobs /\ Job(t) = todo[t][1] /\ todo[t] \in Seq(Jobs)
         /\ Len(todo[t]) \in Nat \ {0} /\ DOMAIN todo[t] = 1..Len(todo[t])
         /\ Tail(todo[t]) \in Seq(Jobs) /\ Len(Tail(todo[t])) = Len(todo[t]) - 1
         /\ \A i \in 1..(Len(todo[t]) - 1) : Tail(todo[t])[i] = todo[t][i + 1]
<1>1. todo[t] \in Seq(Jobs)
  BY DEF CallTypes
<1>2. /\ Head(todo[t]) \in Jobs /\ Tail(todo[t]) \in Seq(Jobs)
      /\ Len(Tail(todo[t])) = Len(todo[t]) - 1
      /\ \A i \in 1..Len(Tail(todo[t])) : Tail(todo[t])[i] = todo[t][i + 1]
  BY <1>1, HeadTailProperties
<1>3. Len(todo[t]) \in Nat \ {0} /\ DOMAIN todo[t] = 1..Len(todo[t])
  BY <1>1, EmptySeq, LenProperties
<1>4. Head(todo[t]) = todo[t][1]
  BY <1>1
<1> QED
  BY <1>1, <1>2, <1>3, <1>4 DEF Job

LEMMA LogTyped ==
  ASSUME LogTypes, NEW v \in Vehicles, NEW s \in Speed, AddUpdate(v, s)
  PROVE  LogTypes'
<1> DEFINE D == (DOMAIN updates \cup {updateID}) \ {updateID + 1 - MaxUpdates}
<1>1. updateID \in Nat \ {0} /\ updateID' = updateID + 1
  BY DEF LogTypes, AddUpdate
<1>2. updates' = [i \in D |-> IF i = updateID THEN [vehicle |-> v, speed |-> s] ELSE updates[i]]
  BY DEF AddUpdate
<1>3. DOMAIN updates' = D
  BY <1>2
<1>4. D \subseteq 1..updateID
  BY <1>1 DEF LogTypes
<1>5. [vehicle |-> v, speed |-> s] \in Entries
  BY DEF Entries
<1>6. \A i \in D : updates'[i] \in Entries
  BY <1>2, <1>5 DEF LogTypes
<1> QED
  BY <1>1, <1>3, <1>4, <1>6 DEF LogTypes

LEMMA TellTyped ==
  ASSUME CallTypes, LogTypes, NEW v \in Vehicles, NEW s \in Speed, NEW o,
         TellControls(v, s, o)
  PROVE  LogTypes' /\ station' \in [Vehicles -> Speed]
<1>1. AddUpdate(v, s)
  BY DEF TellControls
<1> QED
  BY <1>1, LogTyped DEF TellControls, CallTypes

(***************************************************************************)
(* How calls begin: only with comparisons and announcements.                 *)
(***************************************************************************)
Fresh(q) ==
  \A i \in DOMAIN q :
    \/ q[i].do = "announce"
    \/ q[i].do = "compare" /\ q[i].origin = "internal"

LEMMA BeginTyped ==
  ASSUME CallTypes, NEW t \in Threads,
         \/ \E v \in Driven, s \in Speed : Call(t, v, s)
         \/ StopAll(t) \/ BoosterGo(t)
  PROVE  \E q \in Seq(Jobs) :
           /\ todo[t] = <<>> /\ todo' = [todo EXCEPT ![t] = q] /\ Fresh(q)
           /\ UNCHANGED <<speed, station, crossed, initLocosDone, updates, updateID, pageVars>>
<1>1. CASE \E v \in Driven, s \in Speed : Call(t, v, s)
  <2>1. PICK v \in Driven, s \in Speed : Call(t, v, s)
    BY <1>1
  <2> DEFINE c == Compare(v, s, "internal")
  <2>2. c \in Jobs /\ c.do = "compare" /\ c.origin = "internal"
    <3>1. v \in Vehicles /\ "internal" \in Origins
      BY SpeedTypes DEF Origins
    <3>2. c \in Jobs
      BY <3>1, JobTypes
    <3>3. c.do = "compare" /\ c.origin = "internal"
      BY DEF Compare, ToDo
    <3> QED
      BY <3>2, <3>3
  <2> HIDE DEF c
  <2>3. <<c>> \in Seq(Jobs) /\ Fresh(<<c>>)
    BY <2>2 DEF Fresh
  <2>4. /\ todo[t] = <<>> /\ todo' = [todo EXCEPT ![t] = <<c>>]
        /\ UNCHANGED <<speed, station, crossed, initLocosDone, updates, updateID, pageVars>>
    BY <2>1 DEF Call, Begin, c
  <2> QED
    BY <2>3, <2>4
<1>2. CASE StopAll(t)
  <2> DEFINE q == Locomotives \o Units
             f == [i \in DOMAIN q |-> Compare(q[i], Stopped, "internal")]
  <2>1. q \in Seq(Vehicles)
    BY Lists
  <2>2. f \in Seq(Jobs)
    BY <2>1, SpeedTypes, ForEach
  <2>3. Fresh(f)
    BY DEF Fresh, Compare, ToDo
  <2>4. /\ todo[t] = <<>> /\ todo' = [todo EXCEPT ![t] = f]
        /\ UNCHANGED <<speed, station, crossed, initLocosDone, updates, updateID, pageVars>>
    BY <1>2 DEF StopAll, Begin
  <2> QED
    BY <2>2, <2>3, <2>4
<1>3. CASE BoosterGo(t)
  <2> DEFINE f == [i \in DOMAIN Locomotives |->
                     [do |-> "announce", vehicle |-> Locomotives[i]]]
  <2>1. f \in Seq(Jobs)
    BY SpeedTypes, ForEach
  <2>2. Fresh(f)
    BY DEF Fresh
  <2>3. /\ todo[t] = <<>> /\ todo' = [todo EXCEPT ![t] = f]
        /\ UNCHANGED <<speed, station, crossed, initLocosDone, updates, updateID, pageVars>>
    BY <1>3 DEF BoosterGo, Begin
  <2> QED
    BY <2>1, <2>2, <2>3
<1> QED
  BY <1>1, <1>2, <1>3

LEMMA CompareStep ==
  ASSUME CallTypes, NEW t \in Threads, CompareSpeed(t)
  PROVE  /\ todo[t] # <<>> /\ Job(t).do = "compare"
         /\ \/ /\ speed[Job(t).vehicle] = Job(t).speed
               /\ todo' = [todo EXCEPT ![t] = Tail(todo[t])]
            \/ todo' = [todo EXCEPT ![t] = Expanded(todo[t])]
         /\ UNCHANGED <<speed, station, crossed, initLocosDone, updates, updateID, pageVars>>
<1>1. CASE speed[Job(t).vehicle] = Job(t).speed
  BY <1>1 DEF CompareSpeed, CallTypes
<1>2. CASE speed[Job(t).vehicle] # Job(t).speed
  <2>1. todo' = [todo EXCEPT ![t] = Expanded(todo[t])]
    BY <1>2 DEF CompareSpeed, CallTypes, Job, Expanded
  <2> QED
    BY <2>1 DEF CompareSpeed
<1> QED
  BY <1>1, <1>2

LEMMA CallStepTyped ==
  ASSUME CallTypes, LogTypes, NEW t \in Threads, CallStep(t)
  PROVE  CallTypes' /\ LogTypes' /\ UNCHANGED pageVars
<1>1. CASE CompareSpeed(t)
  <2>1. Expanded(todo[t]) \in Seq(Jobs) /\ Tail(todo[t]) \in Seq(Jobs)
    BY <1>1, CompareStep, JobTyped, Expansion DEF Job
  <2> QED
    BY <1>1, <2>1, CompareStep DEF CallTypes, LogTypes
<1>2. CASE StoreSpeed(t)
  <2>1. /\ todo[t] # <<>> /\ Job(t) \in Jobs /\ Job(t).do = "store"
        /\ Tail(todo[t]) \in Seq(Jobs)
    BY <1>2, JobTyped DEF StoreSpeed
  <2>2. Job(t).vehicle \in Vehicles /\ Job(t).speed \in Speed
    BY <2>1, JobFields
  <2>3. speed' \in [Vehicles -> Speed] /\ todo' \in [Threads -> Seq(Jobs)]
    BY <1>2, <2>1, <2>2 DEF StoreSpeed, Done, CallTypes
  <2>4. crossed' \in [Vehicles -> BOOLEAN]
    <3> DEFINE c == \/ \E u \in Threads \ {t} : Underway(u, Job(t).vehicle)
                    \/ Job(t).origin = "hardware" /\ station[Job(t).vehicle] # Job(t).speed
    <3>1. c \in BOOLEAN
      OBVIOUS
    <3>2. crossed' = [crossed EXCEPT ![Job(t).vehicle] = c]
      BY <1>2 DEF StoreSpeed
    <3> HIDE DEF c
    <3> QED
      BY <3>1, <3>2 DEF CallTypes
  <2> QED
    BY <1>2, <2>3, <2>4 DEF StoreSpeed, CallTypes, LogTypes
<1>3. CASE TellSpeed(t)
  <2>1. /\ Job(t) \in Jobs /\ Job(t).do = "tell" /\ Tail(todo[t]) \in Seq(Jobs)
    BY <1>3, JobTyped DEF TellSpeed
  <2>2. Job(t).vehicle \in Vehicles /\ Job(t).speed \in Speed
    BY <2>1, JobFields
  <2>3. TellControls(Job(t).vehicle, Job(t).speed, Job(t).origin)
    BY <1>3 DEF TellSpeed
  <2>4. LogTypes' /\ station' \in [Vehicles -> Speed]
    BY <2>2, <2>3, TellTyped
  <2> QED
    BY <1>3, <2>1, <2>4 DEF TellSpeed, Done, CallTypes
<1>4. CASE Announce(t)
  <2>1. /\ Job(t) \in Jobs /\ Tail(todo[t]) \in Seq(Jobs)
    BY <1>4, JobTyped DEF Announce
  <2>2. Job(t).vehicle \in Vehicles /\ speed[Job(t).vehicle] \in Speed
    BY <2>1, JobFields DEF CallTypes
  <2>3. TellControls(Job(t).vehicle, speed[Job(t).vehicle], "internal")
    BY <1>4 DEF Announce
  <2>4. LogTypes' /\ station' \in [Vehicles -> Speed]
    BY <2>2, <2>3, TellTyped
  <2> QED
    BY <1>4, <2>1, <2>4 DEF Announce, Done, CallTypes
<1>5. UNCHANGED pageVars
  BY DEF CallStep, CompareSpeed, StoreSpeed, TellSpeed, Announce, pageVars
<1> QED
  BY <1>1, <1>2, <1>3, <1>4, <1>5 DEF CallStep

\* The pages.
LEMMA PageTyped ==
  ASSUME LogTypes, PageTypes, CallTypes, NEW b \in Browsers, PageStep(b)
  PROVE  PageTypes' /\ UNCHANGED <<speedVars, updates, updateID>>
<1>1. CASE Deliver(b)
  <2>1. next[b] \in Nat \ {0} /\ updateID \in Nat \ {0} /\ control[b] \in Controls
    BY DEF PageTypes, LogTypes
  <2>2. From(b) \in Nat \ {0}
    BY <2>1, SpeedTypes DEF From
  <2>3. updates[From(b)] \in Entries
    BY <1>1 DEF Deliver, LogTypes
  <2>4. \A e \in Entries, x \in BOOLEAN : Applied(control[b], e, x) \in Controls
    <3> TAKE e \in Entries, x \in BOOLEAN
    <3>1. CASE control[b] \in [at : {"asked"}, vehicle : Vehicles]
      BY <3>1 DEF Applied, Controls
    <3>2. CASE control[b] \in
                 [at : {"answered", "shown"}, vehicle : Vehicles, speed : Speed, sound : BOOLEAN]
      <4>1. e.speed \in Speed
        BY DEF Entries
      <4> QED
        BY <3>2, <4>1 DEF Applied, Controls
    <3> QED
      BY <2>1, <3>1, <3>2 DEF Controls
  <2>5. control' \in [Browsers -> Controls] /\ next' \in [Browsers -> Nat \ {0}]
    <3> DEFINE c == Applied(control[b], updates[From(b)], From(b) # next[b])
    <3>1. control' = [control EXCEPT ![b] = c] /\ next' = [next EXCEPT ![b] = From(b) + 1]
      BY <1>1 DEF Deliver
    <3>2. c \in Controls
      BY <2>3, <2>4
    <3> HIDE DEF c
    <3> QED
      BY <2>2, <3>1, <3>2 DEF PageTypes
  <2> QED
    BY <1>1, <2>5 DEF Deliver, PageTypes
<1>2. CASE \E v \in Selectable : LoadLoco(b, v)
  <2>1. \A v \in Selectable : Asked(v) \in Controls
    BY SpeedTypes DEF Asked, Controls
  <2>2. PICK v \in Selectable : LoadLoco(b, v)
    BY <1>2
  <2>3. control' = [control EXCEPT ![b] = Asked(v)] /\ next' = next
    BY <2>2 DEF LoadLoco
  <2>4. control' \in [Browsers -> Controls]
    BY <2>1, <2>3 DEF PageTypes
  <2> QED
    BY <2>2, <2>3, <2>4 DEF LoadLoco, PageTypes
<1>3. CASE HandleLoco(b)
  <2> DEFINE v == control[b].vehicle
             c == [at |-> "answered", vehicle |-> v, speed |-> speed[v], sound |-> TRUE]
  <2>1. v \in Vehicles
    BY DEF PageTypes, Controls
  <2>2. c \in Controls
    BY <2>1 DEF CallTypes, Controls
  <2> QED
    BY <1>3, <2>2 DEF HandleLoco, PageTypes
<1>4. CASE ShowLoco(b)
  <2>1. [control[b] EXCEPT !.at = "shown"] \in Controls
    <3>1. control[b] \in Controls /\ control[b].at = "answered"
      BY <1>4 DEF ShowLoco, PageTypes
    <3> QED
      BY <3>1 DEF Controls
  <2>2. control' = [control EXCEPT ![b] = [control[b] EXCEPT !.at = "shown"]]
    BY <1>4 DEF ShowLoco, PageTypes
  <2> QED
    BY <1>4, <2>1, <2>2 DEF ShowLoco, PageTypes
<1>5. CASE Reload(b)
  <2>1. Asked(control[b].vehicle) \in Controls
    BY DEF PageTypes, Controls, Asked
  <2>2. next' \in [Browsers -> Nat \ {0}] /\ control' \in [Browsers -> Controls]
    BY <1>5, <2>1 DEF Reload, PageTypes
  <2> QED
    BY <1>5, <2>2 DEF Reload, PageTypes
<1> QED
  BY <1>1, <1>2, <1>3, <1>4, <1>5
  DEF PageStep, Deliver, LoadLoco, HandleLoco, ShowLoco, Reload

LEMMA TurnKnobTyped ==
  ASSUME CallTypes, NEW v \in Driven, NEW s \in Speed, TurnKnob(v, s)
  PROVE  /\ todo[Station] = <<>> /\ v \in Vehicles
         /\ Compare(v, s, "hardware") \in Jobs
         /\ todo' = [todo EXCEPT ![Station] = <<Compare(v, s, "hardware")>>]
         /\ CallTypes'
<1>1. v \in Vehicles /\ Station \in Threads /\ "hardware" \in Origins
  BY SpeedTypes DEF Threads, Origins
<1>2. Compare(v, s, "hardware") \in Jobs
  BY <1>1, JobTypes
<1> DEFINE c == Compare(v, s, "hardware")
<1>3. todo[Station] = <<>> /\ todo' = [todo EXCEPT ![Station] = <<c>>]
  BY DEF TurnKnob, Begin
<1> HIDE DEF c
<1>4. <<c>> \in Seq(Jobs)
  BY <1>2 DEF c
<1>5. todo' \in [Threads -> Seq(Jobs)] /\ station' \in [Vehicles -> Speed]
  BY <1>1, <1>3, <1>4 DEF TurnKnob, CallTypes
<1>6. CallTypes'
  BY <1>5 DEF TurnKnob, CallTypes
<1> QED
  BY <1>1, <1>2, <1>3, <1>6 DEF c

LEMMA TypedInit == Init => TypeOK
<1> SUFFICES ASSUME Init PROVE TypeOK
  OBVIOUS
<1>1. CallTypes
  <2>1. speed \in [Vehicles -> Speed] /\ station = speed
    BY SpeedTypes DEF Init
  <2>2. todo \in [Threads -> Seq(Jobs)]
    <3>1. <<>> \in Seq(Jobs)
      BY EmptySeq
    <3> QED
      BY <3>1 DEF Init
  <2> QED
    BY <2>1, <2>2 DEF Init, CallTypes
<1>2. LogTypes
  <2>1. [vehicle |-> None, speed |-> Stopped] \in Entries
    BY SpeedTypes DEF Entries
  <2> QED
    BY <2>1 DEF Init, LogTypes
<1>3. PageTypes
  <2>1. \A v \in Selectable : Asked(v) \in Controls
    BY SpeedTypes DEF Asked, Controls
  <2> QED
    BY <2>1 DEF Init, PageTypes
<1> QED
  BY <1>1, <1>2, <1>3, TypeParts

LEMMA TypedStep == TypeOK /\ [Next]_vars => TypeOK'
<1> SUFFICES ASSUME TypeOK, [Next]_vars PROVE CallTypes' /\ LogTypes' /\ PageTypes'
  BY TypeParts DEF TypeOK, CallTypes, LogTypes, PageTypes
<1>0. CallTypes /\ LogTypes /\ PageTypes
  BY TypeParts
<1>1. ASSUME NEW t \in Threads,
             \/ \E v \in Driven, s \in Speed : Call(t, v, s)
             \/ StopAll(t) \/ BoosterGo(t)
      PROVE  CallTypes' /\ LogTypes' /\ PageTypes'
  <2>1. PICK q \in Seq(Jobs) :
           /\ todo[t] = <<>> /\ todo' = [todo EXCEPT ![t] = q] /\ Fresh(q)
           /\ UNCHANGED <<speed, station, crossed, initLocosDone, updates, updateID, pageVars>>
    BY <1>0, <1>1, BeginTyped
  <2> QED
    BY <1>0, <2>1 DEF CallTypes, LogTypes, PageTypes, pageVars
<1>2. ASSUME NEW v \in Driven, NEW s \in Speed, TurnKnob(v, s)
      PROVE  CallTypes' /\ LogTypes' /\ PageTypes'
  BY <1>0, <1>2, TurnKnobTyped DEF TurnKnob, LogTypes, PageTypes, pageVars
<1>3. ASSUME NEW t \in Threads, CallStep(t) PROVE CallTypes' /\ LogTypes' /\ PageTypes'
  BY <1>0, <1>3, CallStepTyped DEF PageTypes, pageVars
<1>4. ASSUME NEW b \in Browsers, PageStep(b) PROVE CallTypes' /\ LogTypes' /\ PageTypes'
  BY <1>0, <1>4, PageTyped DEF CallTypes, LogTypes, speedVars
<1>5. CASE UNCHANGED vars
  BY <1>0, <1>5 DEF vars, speedVars, pageVars, CallTypes, LogTypes, PageTypes
<1> QED
  BY <1>1, <1>2, <1>3, <1>4, <1>5 DEF Next, Threads

(***************************************************************************)
(* Speeds, jobs, the log and the pages have their types, for every set of    *)
(* vehicles and units (Manager::LocoBaseSpeed, class WebServer).             *)
(***************************************************************************)
THEOREM SpeedsTyped == Spec => []TypeOK
<1>1. Init => TypeOK
  BY TypedInit
<1>2. TypeOK /\ [Next]_vars => TypeOK'
  BY TypedStep
<1> QED
  BY <1>1, <1>2, PTL DEF Spec


(***************************************************************************)
(* The log keeps the last updates only, and no page is promised one that is  *)
(* not yet there.                                                            *)
(***************************************************************************)
Window == \A i \in DOMAIN updates : i > updateID - MaxUpdates

LEMMA WindowMoves ==
  ASSUME LogTypes, Window, NEW v \in Vehicles, NEW s \in Speed, AddUpdate(v, s)
  PROVE  Window'
<1>1. updateID \in Nat /\ MaxUpdates \in Nat /\ MaxUpdates > 1 /\ updateID' = updateID + 1
  BY SpeedTypes DEF LogTypes, AddUpdate
<1>2. DOMAIN updates' = (DOMAIN updates \cup {updateID}) \ {updateID + 1 - MaxUpdates}
  BY DEF AddUpdate
<1>3. \A i \in DOMAIN updates : i \in Nat
  BY DEF LogTypes
<1>4. ASSUME NEW i \in DOMAIN updates' PROVE i > updateID' - MaxUpdates
  <2>1. i \in Nat /\ i # updateID + 1 - MaxUpdates /\ (i > updateID - MaxUpdates \/ i = updateID)
    BY <1>1, <1>2, <1>3 DEF Window
  <2> QED
    BY <2>1, <1>1
<1> QED
  BY <1>4 DEF Window

LEMMA WindowInit == Init => Window
<1> SUFFICES ASSUME Init PROVE Window
  OBVIOUS
<1>1. DOMAIN updates = {1} /\ updateID = 2
  BY DEF Init
<1>2. MaxUpdates \in Nat /\ MaxUpdates > 1
  BY SpeedTypes
<1> QED
  BY <1>1, <1>2 DEF Window

LEMMA WindowKept == TypeOK /\ Window /\ [Next]_vars => Window'
<1> SUFFICES ASSUME TypeOK, Window, [Next]_vars PROVE Window'
  OBVIOUS
<1>0. CallTypes /\ LogTypes /\ PageTypes
  BY TypeParts
<1>1. CASE UNCHANGED <<updates, updateID>>
  BY <1>1 DEF Window
<1>2. ASSUME NEW t \in Threads, CallStep(t) PROVE Window'
  <2>1. CASE CompareSpeed(t) \/ StoreSpeed(t)
    BY <1>1, <2>1 DEF CompareSpeed, StoreSpeed
  <2>2. CASE TellSpeed(t)
    <3>1. /\ Job(t).vehicle \in Vehicles /\ Job(t).speed \in Speed
          /\ AddUpdate(Job(t).vehicle, Job(t).speed)
      BY <1>0, <2>2, JobTyped, JobFields DEF TellSpeed, TellControls
    <3> QED
      BY <1>0, <3>1, WindowMoves
  <2>3. CASE Announce(t)
    <3>1. Job(t).vehicle \in Vehicles
      BY <1>0, <2>3, JobTyped, JobFields DEF Announce
    <3>2. speed[Job(t).vehicle] \in Speed
      BY <1>0, <3>1 DEF CallTypes
    <3>3. AddUpdate(Job(t).vehicle, speed[Job(t).vehicle])
      BY <2>3 DEF Announce, TellControls
    <3> QED
      BY <1>0, <3>1, <3>2, <3>3, WindowMoves
  <2> QED
    BY <1>2, <2>1, <2>2, <2>3 DEF CallStep
<1>3. ASSUME NEW b \in Browsers, PageStep(b) PROVE Window'
  BY <1>0, <1>1, <1>3, PageTyped
<1>4. ASSUME NEW t \in Threads,
             \/ \E v \in Driven, s \in Speed : Call(t, v, s)
             \/ StopAll(t) \/ BoosterGo(t)
      PROVE  Window'
  BY <1>1, <1>4 DEF Call, StopAll, BoosterGo
<1>5. ASSUME NEW v \in Driven, NEW s \in Speed, TurnKnob(v, s) PROVE Window'
  BY <1>1, <1>5 DEF TurnKnob
<1> QED
  BY <1>1, <1>2, <1>3, <1>4, <1>5 DEF Next, Threads, vars

LEMMA DeliveredInOrder ==
  ASSUME TypeOK, Window, NEW b \in Browsers, Deliver(b)
  PROVE  \/ next'[b] = next[b] + 1
         \/ /\ next'[b] > next[b] /\ next'[b] <= updateID
            /\ \A i \in next[b]..next'[b] - 2 : i \notin DOMAIN updates
<1>1. next[b] \in Nat /\ updateID \in Nat /\ MaxUpdates \in Nat /\ MaxUpdates > 1
  BY SpeedTypes, TypeParts DEF PageTypes, LogTypes
<1>2. next'[b] = From(b) + 1
  BY TypeParts DEF Deliver, PageTypes
<1>3. CASE next[b] + MaxUpdates <= updateID
  <2>1. next'[b] = updateID - MaxUpdates + 2
    BY <1>1, <1>2, <1>3 DEF From
  <2>2. next'[b] > next[b] /\ next'[b] <= updateID
    BY <1>1, <1>3, <2>1
  <2>3. ASSUME NEW i \in next[b]..next'[b] - 2 PROVE i \notin DOMAIN updates
    <3>1. ~(i > updateID - MaxUpdates)
      BY <1>1, <2>1
    <3> QED
      BY <3>1 DEF Window
  <2> QED
    BY <2>2, <2>3
<1>4. CASE ~(next[b] + MaxUpdates <= updateID)
  BY <1>2, <1>4 DEF From
<1> QED
  BY <1>3, <1>4

LEMMA OthersStay ==
  ASSUME TypeOK, NEW b \in Browsers, NEW c \in Browsers, PageStep(b),
         next'[c] # next[c]
  PROVE  next'[c] = 1 \/ (c = b /\ Deliver(b))
<1>0. next \in [Browsers -> Nat \ {0}]
  BY TypeParts DEF PageTypes
<1>1. CASE Deliver(b)
  BY <1>0, <1>1 DEF Deliver
<1>2. CASE Reload(b)
  BY <1>0, <1>2 DEF Reload
<1>3. CASE HandleLoco(b) \/ ShowLoco(b) \/ \E v \in Selectable : LoadLoco(b, v)
  BY <1>3 DEF HandleLoco, ShowLoco, LoadLoco
<1> QED
  BY <1>1, <1>2, <1>3 DEF PageStep

\* InOrder, of one step.
LEMMA InOrderStep ==
  ASSUME TypeOK, Window, [Next]_vars, NEW b \in Browsers, next'[b] # next[b]
  PROVE  \/ next'[b] = 1
         \/ next'[b] = next[b] + 1
         \/ /\ next'[b] > next[b] /\ next'[b] <= updateID
            /\ \A i \in next[b]..next'[b] - 2 : i \notin DOMAIN updates
<1>0. CallTypes /\ LogTypes /\ PageTypes
  BY TypeParts
<1>1. \E c \in Browsers : PageStep(c)
  <2>1. ~UNCHANGED next
    OBVIOUS
  <2>2. ASSUME NEW t \in Threads, CallStep(t) PROVE UNCHANGED next
    BY <1>0, <2>2, CallStepTyped DEF pageVars
  <2>3. ASSUME NEW t \in Threads,
               \/ \E v \in Driven, s \in Speed : Call(t, v, s)
               \/ StopAll(t) \/ BoosterGo(t)
        PROVE  UNCHANGED next
    BY <2>3 DEF Call, StopAll, BoosterGo, pageVars
  <2>4. ASSUME NEW v \in Driven, NEW s \in Speed, TurnKnob(v, s) PROVE UNCHANGED next
    BY <2>4 DEF TurnKnob, pageVars
  <2> QED
    BY <2>1, <2>2, <2>3, <2>4 DEF Next, Threads, vars, pageVars
<1>2. PICK c \in Browsers : PageStep(c)
  BY <1>1
<1> QED
  BY <1>2, OthersStay, DeliveredInOrder

(***************************************************************************)
(* Pages apply the updates in order, and miss only what the server has       *)
(* dropped (WebServer::NextUpdate), for a ring of any length.                *)
(***************************************************************************)
THEOREM UpdatesInOrder == Spec => InOrder
<1>1. Init => TypeOK /\ Window
  BY TypedInit, WindowInit
<1>2. TypeOK /\ Window /\ [Next]_vars => (TypeOK /\ Window)'
  BY TypedStep, WindowKept
<1>3. TypeOK /\ Window /\ [Next]_vars =>
        [\A b \in Browsers :
           next'[b] # next[b] =>
             \/ next'[b] = 1
             \/ next'[b] = next[b] + 1
             \/ /\ next'[b] > next[b] /\ next'[b] <= updateID
                /\ \A i \in next[b]..next'[b] - 2 : i \notin DOMAIN updates]_vars
  BY InOrderStep
<1> QED
  BY <1>1, <1>2, <1>3, PTL DEF Spec, InOrder


(***************************************************************************)
(* The list of what a thread has to do is nested: the tell of a vehicle      *)
(* comes after its own store and the calls for its slaves, which have none.  *)
(***************************************************************************)
Opens(a, b) == a.do = "store" /\ a.speed = b.speed /\ a.origin = b.origin

Nested(q) ==
  \A i, j \in 1..Len(q) : j < i /\ q[i].do = "tell" =>
    /\ q[j].vehicle = q[i].vehicle => Opens(q[j], q[i])
    /\ q[j].do = "compare" => Slaves[q[j].vehicle] = <<>>

StoresFirst(q) ==
  \A j \in 1..Len(q) : q[j].do = "store" =>
    /\ j = 1
    /\ \E i \in 2..Len(q) : q[i].do = "tell" /\ q[i].vehicle = q[j].vehicle

\* Only the receiver works on what the command station reports, on one at a time.
FromStation(t, q) ==
  \A j \in 1..Len(q) : q[j].do # "announce" /\ q[j].origin = "hardware" =>
    t = Station /\ (q[j].do = "compare" => Len(q) = 1)

Shape(t, q) == Nested(q) /\ StoresFirst(q) /\ FromStation(t, q)

\* A slave has no slaves, so no unit is its own.
LEMMA SlavesOfSlaves ==
  ASSUME NEW v \in Vehicles, NEW i \in 1..Len(Slaves[v])
  PROVE  /\ Slaves[v][i] \in Vehicles /\ Slaves[v][i] # v
         /\ Slaves[Slaves[v][i]] = <<>>
<1> DEFINE w == Slaves[v][i]
<1>1. Slaves[v] \in Seq(Vehicles) /\ DOMAIN Slaves[v] = 1..Len(Slaves[v]) /\ w \in Vehicles
  BY SpeedTypes, LenProperties, ElementOfSeq
<1>2. Slaves[v] # <<>>
  BY <1>1
<1>3. v \in Range(Units)
  BY <1>2, UnitsOfLocos DEF Vehicles
<1>4. w \in Range(Slaves[v])
  BY <1>1 DEF Range
<1>5. w \in Range(Locomotives)
  BY <1>3, <1>4, UnitsOfLocos
<1>6. Slaves[w] = <<>>
  BY <1>5, UnitsOfLocos
<1> QED
  BY <1>1, <1>2, <1>6

LEMMA TailShape ==
  ASSUME NEW t, NEW q \in Seq(Jobs), q # <<>>, Shape(t, q)
  PROVE  Shape(t, Tail(q)) /\ \A i \in 1..Len(Tail(q)) : Tail(q)[i].do # "store"
<1> DEFINE r == Tail(q)
<1>1. /\ Len(q) \in Nat \ {0} /\ Len(r) = Len(q) - 1
      /\ \A i \in 1..Len(r) : i + 1 \in 2..Len(q) /\ r[i] = q[i + 1]
  BY HeadTailProperties, EmptySeq
<1> HIDE DEF r
<1>2. \A i \in 1..Len(r) : r[i].do # "store"
  BY <1>1 DEF Shape, StoresFirst
<1>3. Nested(r)
  <2> SUFFICES ASSUME NEW i \in 1..Len(r), NEW j \in 1..Len(r), j < i, r[i].do = "tell"
               PROVE  /\ r[j].vehicle = r[i].vehicle => Opens(r[j], r[i])
                      /\ r[j].do = "compare" => Slaves[r[j].vehicle] = <<>>
    BY DEF Nested
  <2>1. /\ i + 1 \in 1..Len(q) /\ j + 1 \in 1..Len(q) /\ j + 1 < i + 1
        /\ r[i] = q[i + 1] /\ r[j] = q[j + 1]
    BY <1>1
  <2> QED
    BY <2>1 DEF Shape, Nested
<1>4. FromStation(t, r)
  <2> SUFFICES ASSUME NEW j \in 1..Len(r), r[j].do # "announce", r[j].origin = "hardware"
               PROVE  t = Station /\ (r[j].do = "compare" => Len(r) = 1)
    BY DEF FromStation
  <2>1. j + 1 \in 2..Len(q) /\ r[j] = q[j + 1]
    BY <1>1
  <2>2. t = Station /\ (r[j].do = "compare" => Len(q) = 1)
    BY <1>1, <2>1 DEF Shape, FromStation
  <2> QED
    BY <1>1, <2>1, <2>2
<1> QED
  BY <1>2, <1>3, <1>4 DEF r, Shape, StoresFirst

\* The four parts of an expanded list, and the tells among what was behind.
LEMMA ExpandedShape ==
  ASSUME NEW t, NEW q \in Seq(Jobs), q # <<>>, Head(q).do = "compare", Shape(t, q)
  PROVE  Shape(t, Expanded(q))
<1> DEFINE n == Len(Slaves[Head(q).vehicle])
           E == Expanded(q)
           v == Head(q).vehicle
<1>1. /\ n \in Nat /\ Len(E) = Len(q) + n + 1
      /\ E[1] = ToDo("store", v, Head(q).speed, Head(q).origin)
      /\ \A i \in 1..n : E[i + 1] = Compare(Slaves[v][i], Head(q).speed, "internal")
      /\ E[n + 2] = ToDo("tell", v, Head(q).speed, Head(q).origin)
      /\ \A i \in 2..Len(q) : E[i + n + 1] = q[i]
  BY Expansion
<1>2. Head(q) = q[1] /\ Len(q) \in Nat \ {0} /\ v \in Vehicles
  BY HeadTailProperties, EmptySeq, JobFields
<1> HIDE DEF n, E
<1>3. /\ E[1].do = "store" /\ E[1].vehicle = v /\ E[1].speed = Head(q).speed
      /\ E[1].origin = Head(q).origin
  BY <1>1 DEF ToDo
<1>4. /\ E[n + 2].do = "tell" /\ E[n + 2].vehicle = v
      /\ E[n + 2].speed = Head(q).speed /\ E[n + 2].origin = Head(q).origin
  BY <1>1 DEF ToDo
<1>5. \A i \in 2..(n + 1) :
        /\ E[i].do = "compare" /\ E[i].origin = "internal"
        /\ E[i].vehicle # v /\ Slaves[E[i].vehicle] = <<>>
  <2> TAKE i \in 2..(n + 1)
  <2>1. i - 1 \in 1..n /\ (i - 1) + 1 = i
    BY <1>1
  <2>2. E[i] = Compare(Slaves[v][i - 1], Head(q).speed, "internal")
    BY <1>1, <2>1
  <2>3. Slaves[v][i - 1] # v /\ Slaves[Slaves[v][i - 1]] = <<>>
    BY <1>2, <2>1, SlavesOfSlaves DEF n
  <2> QED
    BY <2>2, <2>3 DEF Compare, ToDo
<1>6. \A i \in (n + 3)..Len(E) : i - n - 1 \in 2..Len(q) /\ E[i] = q[i - n - 1]
  <2> TAKE i \in (n + 3)..Len(E)
  <2>0. n \in Nat /\ Len(q) \in Nat /\ Len(E) = Len(q) + n + 1
    BY <1>1, <1>2
  <2>1. i - n - 1 \in 2..Len(q) /\ (i - n - 1) + n + 1 = i
    BY <2>0
  <2> QED
    BY <1>1, <2>1
<1>7. \A i \in 1..Len(E) : i = 1 \/ i \in 2..(n + 1) \/ i = n + 2 \/ i \in (n + 3)..Len(E)
  BY <1>1, <1>2
\* Behind a comparison there are tells of other vehicles only, and none behind that of a unit.
<1>8. \A i \in 2..Len(q) : q[i].do = "tell" => q[i].vehicle # v /\ n = 0
  <2> TAKE i \in 2..Len(q)
  <2> HAVE q[i].do = "tell"
  <2>1. 1 \in 1..Len(q) /\ i \in 1..Len(q) /\ 1 < i /\ q[1].do = "compare" /\ q[1].vehicle = v
    BY <1>2
  <2>2. /\ v = q[i].vehicle => Opens(q[1], q[i])
        /\ Slaves[v] = <<>>
    BY <2>1 DEF Shape, Nested
  <2> QED
    BY <2>1, <2>2 DEF Opens, n
<1>9. Nested(E)
  <2> SUFFICES ASSUME NEW i \in 1..Len(E), NEW j \in 1..Len(E), j < i, E[i].do = "tell"
               PROVE  /\ E[j].vehicle = E[i].vehicle => Opens(E[j], E[i])
                      /\ E[j].do = "compare" => Slaves[E[j].vehicle] = <<>>
    BY DEF Nested
  <2>1. i = n + 2 \/ i \in (n + 3)..Len(E)
    BY <1>3, <1>5, <1>7
  <2>2. CASE i = n + 2
    <3>1. j = 1 \/ j \in 2..(n + 1)
      BY <1>1, <2>2
    <3>2. CASE j = 1
      BY <1>3, <1>4, <2>2, <3>2 DEF Opens
    <3>3. CASE j \in 2..(n + 1)
      BY <1>4, <1>5, <2>2, <3>3
    <3> QED
      BY <3>1, <3>2, <3>3
  <2>3. CASE i \in (n + 3)..Len(E)
    <3>1. i - n - 1 \in 2..Len(q) /\ E[i] = q[i - n - 1]
      BY <1>6, <2>3
    <3>2. E[i].vehicle # v /\ n = 0
      BY <1>8, <3>1
    <3>3. j = 1 \/ j = n + 2 \/ j \in (n + 3)..Len(E)
      BY <1>7, <3>2
    <3>4. CASE j = 1
      BY <1>3, <3>2, <3>4
    <3>5. CASE j = n + 2
      BY <1>4, <3>2, <3>5
    <3>6. CASE j \in (n + 3)..Len(E)
      <4>1. /\ j - n - 1 \in 1..Len(q) /\ i - n - 1 \in 1..Len(q)
            /\ j - n - 1 < i - n - 1 /\ E[j] = q[j - n - 1]
        BY <1>1, <1>6, <3>1, <3>6
      <4> QED
        BY <3>1, <4>1 DEF Shape, Nested
    <3> QED
      BY <3>3, <3>4, <3>5, <3>6
  <2> QED
    BY <2>1, <2>2, <2>3
<1>10. StoresFirst(E)
  <2> SUFFICES ASSUME NEW j \in 1..Len(E), E[j].do = "store"
               PROVE  /\ j = 1
                      /\ \E i \in 2..Len(E) : E[i].do = "tell" /\ E[i].vehicle = E[j].vehicle
    BY DEF StoresFirst
  <2>1. j \notin (n + 3)..Len(E)
    BY <1>2, <1>6 DEF Shape, StoresFirst
  <2>2. j = 1
    BY <1>4, <1>5, <1>7, <2>1
  <2>3. n + 2 \in 2..Len(E)
    BY <1>1, <1>2
  <2> QED
    BY <1>3, <1>4, <2>2, <2>3
<1>11. FromStation(t, E)
  <2> SUFFICES ASSUME NEW j \in 1..Len(E), E[j].do # "announce", E[j].origin = "hardware"
               PROVE  t = Station /\ (E[j].do = "compare" => Len(E) = 1)
    BY DEF FromStation
  <2>1. j \notin 2..(n + 1)
    BY <1>5
  <2>2. CASE j = 1 \/ j = n + 2
    <3>1. q[1].do # "announce" /\ q[1].origin = "hardware" /\ 1 \in 1..Len(q)
      BY <1>2, <1>3, <1>4, <2>2
    <3>2. t = Station
      BY <3>1 DEF Shape, FromStation
    <3> QED
      BY <1>3, <1>4, <2>2, <3>2
  <2>3. CASE j \in (n + 3)..Len(E)
    <3>1. j - n - 1 \in 2..Len(q) /\ E[j] = q[j - n - 1]
      BY <1>6, <2>3
    <3>2. t = Station /\ (E[j].do = "compare" => Len(q) = 1)
      BY <3>1 DEF Shape, FromStation
    <3>3. Len(q) # 1
      BY <3>1
    <3> QED
      BY <3>2, <3>3
  <2> QED
    BY <1>7, <2>1, <2>2, <2>3
<1> QED
  BY <1>9, <1>10, <1>11 DEF Shape, E


\* The lists with which calls begin.
LEMMA FreshShape ==
  ASSUME NEW t, NEW q \in Seq(Jobs), Fresh(q)
  PROVE  Shape(t, q)
<1>1. \A i \in 1..Len(q) :
        /\ q[i].do \notin {"store", "tell"}
        /\ q[i].do # "announce" => q[i].origin = "internal"
  BY LenProperties DEF Fresh
<1> QED
  BY <1>1 DEF Shape, Nested, StoresFirst, FromStation

Shapes == \A t \in Threads : Shape(t, todo[t])

LEMMA ShapesInit == Init => Shapes
<1> SUFFICES ASSUME Init, NEW t \in Threads PROVE Shape(t, todo[t])
  BY DEF Shapes
<1>1. todo[t] = <<>> /\ Len(todo[t]) = 0
  BY DEF Init
<1> QED
  BY <1>1 DEF Shape, Nested, StoresFirst, FromStation

\* What a step does to the lists: at most one is changed, begun or worked off.
LEMMA ListMoves ==
  ASSUME CallTypes, NEW t \in Threads, CallStep(t)
  PROVE  /\ todo[t] # <<>>
         /\ \/ todo' = [todo EXCEPT ![t] = Tail(todo[t])]
            \/ Job(t).do = "compare" /\ todo' = [todo EXCEPT ![t] = Expanded(todo[t])]
<1>1. CASE CompareSpeed(t)
  BY <1>1, CompareStep
<1>2. CASE StoreSpeed(t) \/ TellSpeed(t) \/ Announce(t)
  BY <1>2 DEF StoreSpeed, TellSpeed, Announce, Done, CallTypes
<1> QED
  BY <1>1, <1>2 DEF CallStep

LEMMA ShapesKept == TypeOK /\ Shapes /\ [Next]_vars => Shapes'
<1> SUFFICES ASSUME TypeOK, Shapes, [Next]_vars PROVE Shapes'
  OBVIOUS
<1>0. CallTypes /\ LogTypes /\ PageTypes
  BY TypeParts
<1>1. ASSUME NEW t \in Threads, NEW q, todo' = [todo EXCEPT ![t] = q], Shape(t, q)
      PROVE  Shapes'
  <2> SUFFICES ASSUME NEW u \in Threads PROVE Shape(u, todo'[u])
    BY DEF Shapes
  <2>1. todo'[u] = IF u = t THEN q ELSE todo[u]
    BY <1>0, <1>1 DEF CallTypes
  <2> QED
    BY <1>1, <2>1 DEF Shapes
<1>2. ASSUME NEW t \in Threads, CallStep(t) PROVE Shapes'
  <2>1. todo[t] # <<>> /\ todo[t] \in Seq(Jobs) /\ Shape(t, todo[t])
    BY <1>0, <1>2, ListMoves DEF CallTypes, Shapes
  <2>2. CASE todo' = [todo EXCEPT ![t] = Tail(todo[t])]
    BY <1>1, <2>1, <2>2, TailShape
  <2>3. CASE Job(t).do = "compare" /\ todo' = [todo EXCEPT ![t] = Expanded(todo[t])]
    BY <1>1, <2>1, <2>3, ExpandedShape DEF Job
  <2> QED
    BY <1>0, <1>2, <2>2, <2>3, ListMoves
<1>3. ASSUME NEW t \in Threads,
             \/ \E v \in Driven, s \in Speed : Call(t, v, s)
             \/ StopAll(t) \/ BoosterGo(t)
      PROVE  Shapes'
  <2>1. PICK q \in Seq(Jobs) : todo' = [todo EXCEPT ![t] = q] /\ Fresh(q)
    BY <1>0, <1>3, BeginTyped
  <2> QED
    BY <1>1, <2>1, FreshShape
<1>4. ASSUME NEW v \in Driven, NEW s \in Speed, TurnKnob(v, s) PROVE Shapes'
  <2> DEFINE c == Compare(v, s, "hardware")
  <2>1. todo' = [todo EXCEPT ![Station] = <<c>>] /\ Station \in Threads /\ c.do = "compare"
    BY <1>0, <1>4, TurnKnobTyped DEF Threads, Compare, ToDo
  <2> HIDE DEF c
  <2>2. Len(<<c>>) = 1 /\ <<c>>[1] = c
    OBVIOUS
  <2>3. Shape(Station, <<c>>)
    BY <2>1, <2>2 DEF Shape, Nested, StoresFirst, FromStation
  <2> QED
    BY <1>1, <2>1, <2>3
<1>5. ASSUME NEW b \in Browsers, PageStep(b) PROVE Shapes'
  <2>1. UNCHANGED todo
    BY <1>0, <1>5, PageTyped DEF speedVars
  <2> QED
    BY <2>1 DEF Shapes
<1>6. CASE UNCHANGED vars
  BY <1>6 DEF vars, speedVars, Shapes
<1> QED
  BY <1>2, <1>3, <1>4, <1>5, <1>6 DEF Next, Threads

(***************************************************************************)
(* What is still to be told of a vehicle, or has been reported of it, is     *)
(* right: a tell repeats the speed that its own call has stored.             *)
(***************************************************************************)
Told(j) ==
  \/ crossed[j.vehicle]
  \/ /\ speed[j.vehicle] = j.speed
     /\ j.origin = "hardware" => station[j.vehicle] = j.speed

Reported(j) ==
  crossed[j.vehicle] \/ station[j.vehicle] = j.speed \/ station[j.vehicle] = speed[j.vehicle]

ToStore(q, v) == q[1].do = "store" /\ q[1].vehicle = v

Right(q) ==
  \A i \in 1..Len(q) :
    /\ q[i].do = "tell" /\ ~ToStore(q, q[i].vehicle) => Told(q[i])
    /\ q[i].do = "compare" /\ q[i].origin = "hardware" => Reported(q[i])

Rights == \A t \in Threads : Right(todo[t])

LEMMA RightTail ==
  ASSUME NEW q \in Seq(Jobs), q # <<>>, q[1].do # "store", Right(q)
  PROVE  Right(Tail(q))
<1> DEFINE r == Tail(q)
<1>1. \A i \in 1..Len(r) : i + 1 \in 1..Len(q) /\ r[i] = q[i + 1]
  BY HeadTailProperties, EmptySeq
<1> HIDE DEF r
<1>2. \A i \in 1..Len(r) : /\ r[i].do = "tell" => Told(r[i])
                           /\ r[i].do = "compare" /\ r[i].origin = "hardware" => Reported(r[i])
  BY <1>1 DEF Right, ToStore
<1> QED
  BY <1>2 DEF Right, r

LEMMA RightExpanded ==
  ASSUME NEW t, NEW q \in Seq(Jobs), q # <<>>, Head(q).do = "compare", Right(q)
  PROVE  Right(Expanded(q))
<1> DEFINE n == Len(Slaves[Head(q).vehicle])
           E == Expanded(q)
           v == Head(q).vehicle
<1>1. /\ n \in Nat /\ Len(E) = Len(q) + n + 1
      /\ E[1] = ToDo("store", v, Head(q).speed, Head(q).origin)
      /\ \A i \in 1..n : E[i + 1] = Compare(Slaves[v][i], Head(q).speed, "internal")
      /\ E[n + 2] = ToDo("tell", v, Head(q).speed, Head(q).origin)
      /\ \A i \in 2..Len(q) : E[i + n + 1] = q[i]
  BY Expansion
<1>2. Head(q) = q[1] /\ Len(q) \in Nat \ {0}
  BY HeadTailProperties, EmptySeq
<1> HIDE DEF n, E
<1> SUFFICES ASSUME NEW i \in 1..Len(E)
             PROVE  /\ E[i].do = "tell" /\ ~ToStore(E, E[i].vehicle) => Told(E[i])
                    /\ E[i].do = "compare" /\ E[i].origin = "hardware" => Reported(E[i])
  BY DEF Right, E
<1>3. CASE i = 1
  BY <1>1, <1>3 DEF ToDo
<1>4. CASE i \in 2..(n + 1)
  <2>1. i - 1 \in 1..n /\ (i - 1) + 1 = i
    BY <1>1, <1>4
  <2>2. E[i] = Compare(Slaves[v][i - 1], Head(q).speed, "internal")
    BY <1>1, <2>1
  <2> QED
    BY <2>2 DEF Compare, ToDo
<1>5. CASE i = n + 2
  BY <1>1, <1>5 DEF ToDo, ToStore
<1>6. CASE i \in (n + 3)..Len(E)
  <2>1. i - n - 1 \in 2..Len(q) /\ (i - n - 1) + n + 1 = i
    BY <1>1, <1>2, <1>6
  <2>2. E[i] = q[i - n - 1] /\ i - n - 1 \in 1..Len(q)
    BY <1>1, <1>2, <2>1
  <2>3. \A w : ~ToStore(q, w)
    BY <1>2 DEF ToStore
  <2> QED
    BY <2>2, <2>3 DEF Right
<1> QED
  BY <1>1, <1>2, <1>3, <1>4, <1>5, <1>6

\* Underway, of a list.
Works(q, v) ==
  \E i \in 1..Len(q) :
    /\ q[i].vehicle = v
    /\ q[i].do \in {"store", "tell"} \/ (q[i].do = "compare" /\ q[i].origin = "hardware")

LEMMA WorksUnderway ==
  ASSUME CallTypes, NEW t \in Threads, NEW v
  PROVE  Underway(t, v) <=> Works(todo[t], v)
<1>1. DOMAIN todo[t] = 1..Len(todo[t])
  BY LenProperties DEF CallTypes
<1> QED
  BY <1>1 DEF Underway, Works

\* The steps that change nothing of a vehicle but what is to be done for it.
LEMMA OneList ==
  ASSUME CallTypes, Rights, NEW t \in Threads, NEW q \in Seq(Jobs), Right(q),
         todo' = [todo EXCEPT ![t] = q], UNCHANGED <<speed, station, crossed>>
  PROVE  Rights'
<1> SUFFICES ASSUME NEW u \in Threads PROVE Right(todo[u])'
  BY DEF Rights
<1>1. todo'[u] = IF u = t THEN q ELSE todo[u]
  BY DEF CallTypes
<1>2. Right(todo'[u])
  BY <1>1 DEF Rights
<1> QED
  BY <1>2 DEF Right, Told, Reported

\* Each job of the lists after a step that worked one off was there before.
LEMMA WorkedOff ==
  ASSUME CallTypes, Shapes, NEW t \in Threads, todo[t] # <<>>, Done(t)
  PROVE  /\ \A u \in Threads \ {t} : todo'[u] = todo[u]
         /\ \A i \in 1..Len(todo'[t]) :
              /\ i + 1 \in 2..Len(todo[t]) /\ todo'[t][i] = todo[t][i + 1]
              /\ todo'[t][1].do # "store"
<1>1. todo[t] \in Seq(Jobs) /\ Shape(t, todo[t])
  BY DEF CallTypes, Shapes
<1>2. /\ todo'[t] = Tail(todo[t])
      /\ \A u \in Threads \ {t} : todo'[u] = todo[u]
  BY DEF Done, CallTypes
<1>3. /\ Len(todo'[t]) = Len(todo[t]) - 1 /\ Len(todo[t]) \in Nat \ {0}
      /\ \A i \in 1..Len(todo'[t]) : todo'[t][i] = todo[t][i + 1]
  BY <1>1, <1>2, HeadTailProperties, EmptySeq
<1>4. ASSUME NEW i \in 1..Len(todo'[t]) PROVE todo'[t][1].do # "store"
  <2>1. 1 \in 1..Len(todo'[t])
    BY <1>3
  <2>2. 1 \in 1..Len(Tail(todo[t]))
    BY <1>2, <2>1
  <2> QED
    BY <1>1, <1>2, <2>2, TailShape
<1>5. \A i \in 1..Len(todo'[t]) : i + 1 \in 2..Len(todo[t])
  BY <1>3
<1> QED
  BY <1>2, <1>3, <1>4, <1>5

\* A store makes its tell right; what others are about to tell has crossed it.
LEMMA RightStored ==
  ASSUME CallTypes, Shapes, Rights, NEW t \in Threads, StoreSpeed(t)
  PROVE  Rights'
<1> DEFINE v == Job(t).vehicle
<1>1. /\ todo[t] # <<>> /\ Job(t) = todo[t][1] /\ Job(t).do = "store"
      /\ Job(t) \in Jobs /\ Len(todo[t]) \in Nat \ {0}
  BY JobTyped DEF StoreSpeed
<1>2. v \in Vehicles
  BY <1>1, JobFields
<1>3. /\ station' = station /\ Done(t)
      /\ speed'[v] = Job(t).speed
      /\ \A w \in Vehicles \ {v} : speed'[w] = speed[w] /\ crossed'[w] = crossed[w]
      /\ crossed'[v] <=> \/ \E u \in Threads \ {t} : Underway(u, v)
                         \/ Job(t).origin = "hardware" /\ station[v] # Job(t).speed
  BY <1>2 DEF StoreSpeed, CallTypes
<1>4. /\ \A u \in Threads \ {t} : todo'[u] = todo[u]
      /\ \A i \in 1..Len(todo'[t]) :
           i + 1 \in 2..Len(todo[t]) /\ todo'[t][i] = todo[t][i + 1]
  BY <1>1, <1>3, WorkedOff
<1> HIDE DEF v
<1>5. ASSUME NEW u \in Threads \ {t} PROVE Right(todo[u])'
  <2> SUFFICES ASSUME NEW i \in 1..Len(todo'[u]), NEW j, j = todo'[u][i]
               PROVE  /\ j.do = "tell" /\ ~ToStore(todo'[u], j.vehicle) => Told(j)'
                      /\ j.do = "compare" /\ j.origin = "hardware" => Reported(j)'
    BY DEF Right, ToStore
  <2>1. i \in 1..Len(todo[u]) /\ j = todo[u][i] /\ todo'[u] = todo[u]
    BY <1>4
  <2>v. j.vehicle \in Vehicles
    BY <2>1, ElementOfSeq, JobFields DEF CallTypes
  <2>2. /\ j.do = "tell" /\ ~ToStore(todo[u], j.vehicle) => Told(j)
        /\ j.do = "compare" /\ j.origin = "hardware" => Reported(j)
    BY <2>1 DEF Rights, Right
  <2>3. CASE j.vehicle # v
    BY <1>3, <2>1, <2>v, <2>2, <2>3 DEF Told, Reported
  <2>4. CASE j.vehicle = v
    <3>1. j.do = "tell" \/ (j.do = "compare" /\ j.origin = "hardware") => Works(todo[u], v)
      BY <2>1, <2>4 DEF Works
    <3>2. j.do = "tell" \/ (j.do = "compare" /\ j.origin = "hardware") => crossed'[v]
      BY <1>3, <3>1, WorksUnderway
    <3> QED
      BY <2>4, <3>2 DEF Told, Reported
  <2> QED
    BY <2>3, <2>4
<1>6. Right(todo[t])'
  <2> SUFFICES ASSUME NEW i \in 1..Len(todo'[t]), NEW j, j = todo'[t][i]
               PROVE  /\ j.do = "tell" => Told(j)'
                      /\ ~(j.do = "compare" /\ j.origin = "hardware")
    BY DEF Right
  <2>1. i + 1 \in 2..Len(todo[t]) /\ j = todo[t][i + 1] /\ Shape(t, todo[t])
    BY <1>4 DEF Shapes
  <2>v. j.vehicle \in Vehicles
    <3>1. i + 1 \in 1..Len(todo[t])
      BY <2>1
    <3> QED
      BY <2>1, <3>1, ElementOfSeq, JobFields DEF CallTypes
  <2>2. ~(j.do = "compare" /\ j.origin = "hardware")
    BY <2>1 DEF Shape, FromStation
  <2>3. CASE j.vehicle # v
    <3>1. j.do = "tell" => Told(j)
      BY <1>1, <2>1, <2>3 DEF Rights, Right, ToStore, v
    <3> QED
      BY <1>3, <2>v, <2>2, <2>3, <3>1 DEF Told
  <2>4. CASE j.vehicle = v
    <3>1. j.do = "tell" => Opens(todo[t][1], j)
      BY <1>1, <2>1, <2>4 DEF Shape, Nested, v
    <3> QED
      BY <1>1, <1>3, <2>2, <2>4, <3>1 DEF Opens, Told
  <2> QED
    BY <2>3, <2>4
<1> QED
  BY <1>5, <1>6 DEF Rights

\* A tell, or an announcement, brings the station to the speed stored.
LEMMA RightTold ==
  ASSUME CallTypes, Shapes, Rights, NEW t \in Threads, TellSpeed(t) \/ Announce(t)
  PROVE  /\ Rights'
         /\ \A w \in Vehicles : station'[w] = station[w] \/ w = Job(t).vehicle
         /\ crossed[Job(t).vehicle] \/ station'[Job(t).vehicle] = speed[Job(t).vehicle]
         /\ UNCHANGED <<speed, crossed>> /\ Done(t)
<1> DEFINE v == Job(t).vehicle
<1>1. /\ todo[t] # <<>> /\ Job(t) = todo[t][1] /\ Job(t).do \in {"tell", "announce"}
      /\ Job(t) \in Jobs /\ Len(todo[t]) \in Nat \ {0}
  BY JobTyped DEF TellSpeed, Announce
<1>2. v \in Vehicles
  BY <1>1, JobFields
<1>3. UNCHANGED <<speed, crossed>> /\ Done(t)
  BY DEF TellSpeed, Announce
<1>4. \A w \in Vehicles \ {v} : station'[w] = station[w]
  BY <1>2 DEF TellSpeed, Announce, TellControls, CallTypes
<1>5. crossed[v] \/ station'[v] = speed[v]
  <2>1. CASE Announce(t)
    BY <1>2, <2>1 DEF Announce, TellControls, CallTypes
  <2>2. CASE TellSpeed(t)
    <3>1. Told(Job(t))
      BY <1>1, <2>2 DEF TellSpeed, Rights, Right, ToStore
    <3> QED
      BY <1>2, <2>2, <3>1 DEF Told, TellSpeed, TellControls, CallTypes
  <2> QED
    BY <2>1, <2>2
<1>6. /\ \A u \in Threads \ {t} : todo'[u] = todo[u]
      /\ \A i \in 1..Len(todo'[t]) :
           i + 1 \in 2..Len(todo[t]) /\ todo'[t][i] = todo[t][i + 1]
  BY <1>1, <1>3, WorkedOff
<1> HIDE DEF v
<1>7. ASSUME NEW j \in Jobs PROVE (Told(j) => Told(j)') /\ (Reported(j) => Reported(j)')
  BY <1>3, <1>4, <1>5, JobFields DEF Told, Reported
<1>8. ASSUME NEW u \in Threads PROVE Right(todo[u])'
  <2> SUFFICES ASSUME NEW i \in 1..Len(todo'[u]), NEW j, j = todo'[u][i]
               PROVE  /\ j \in Jobs
                      /\ j.do = "tell" /\ ~ToStore(todo'[u], j.vehicle) => Told(j)
                      /\ j.do = "compare" /\ j.origin = "hardware" => Reported(j)
    BY <1>7 DEF Right, ToStore
  <2>1. CASE u # t
    <3>1. todo'[u] = todo[u] /\ i \in 1..Len(todo[u]) /\ todo[u] \in Seq(Jobs)
      BY <1>6, <2>1 DEF CallTypes
    <3>2. j \in Jobs
      BY <3>1, ElementOfSeq
    <3> QED
      BY <3>1, <3>2 DEF Rights, Right
  <2>2. CASE u = t
    <3>1. i + 1 \in 1..Len(todo[t]) /\ j = todo[t][i + 1] /\ todo[t] \in Seq(Jobs)
      BY <1>6, <2>2 DEF CallTypes
    <3>2. j \in Jobs
      BY <3>1, ElementOfSeq
    <3>3. ~ToStore(todo[t], j.vehicle)
      BY <1>1 DEF ToStore
    <3> QED
      BY <3>1, <3>2, <3>3 DEF Rights, Right
  <2> QED
    BY <2>1, <2>2
<1> QED
  BY <1>3, <1>4, <1>5, <1>8 DEF Rights, v

LEMMA RightsInit == Init => Rights
<1> SUFFICES ASSUME Init, NEW t \in Threads PROVE Right(todo[t])
  BY DEF Rights
<1>1. todo[t] = <<>> /\ Len(todo[t]) = 0
  BY DEF Init
<1> QED
  BY <1>1 DEF Right

LEMMA RightsKept == TypeOK /\ Shapes /\ Rights /\ [Next]_vars => Rights'
<1> SUFFICES ASSUME TypeOK, Shapes, Rights, [Next]_vars PROVE Rights'
  OBVIOUS
<1>0. CallTypes /\ LogTypes /\ PageTypes
  BY TypeParts
<1>1. ASSUME NEW t \in Threads, CompareSpeed(t) PROVE Rights'
  <2>1. /\ todo[t] # <<>> /\ todo[t] \in Seq(Jobs) /\ Head(todo[t]).do = "compare"
        /\ todo[t][1].do = "compare" /\ Right(todo[t])
        /\ UNCHANGED <<speed, station, crossed>>
    BY <1>0, <1>1, CompareStep, JobTyped DEF Job, Rights
  <2>2. CASE todo' = [todo EXCEPT ![t] = Tail(todo[t])]
    <3>1. Right(Tail(todo[t])) /\ Tail(todo[t]) \in Seq(Jobs)
      BY <2>1, RightTail, HeadTailProperties
    <3> QED
      BY <1>0, <2>1, <2>2, <3>1, OneList
  <2>3. CASE todo' = [todo EXCEPT ![t] = Expanded(todo[t])]
    <3>1. Right(Expanded(todo[t])) /\ Expanded(todo[t]) \in Seq(Jobs)
      BY <2>1, RightExpanded, Expansion
    <3> QED
      BY <1>0, <2>1, <2>3, <3>1, OneList
  <2> QED
    BY <1>0, <1>1, <2>2, <2>3, CompareStep
<1>2. ASSUME NEW t \in Threads, CallStep(t) PROVE Rights'
  BY <1>0, <1>1, <1>2, RightStored, RightTold DEF CallStep
<1>3. ASSUME NEW t \in Threads,
             \/ \E v \in Driven, s \in Speed : Call(t, v, s)
             \/ StopAll(t) \/ BoosterGo(t)
      PROVE  Rights'
  <2>1. PICK q \in Seq(Jobs) :
          /\ todo' = [todo EXCEPT ![t] = q] /\ Fresh(q)
          /\ UNCHANGED <<speed, station, crossed>>
    BY <1>0, <1>3, BeginTyped
  <2>2. Right(q)
    BY <2>1, LenProperties DEF Right, Fresh
  <2> QED
    BY <1>0, <2>1, <2>2, OneList
<1>4. ASSUME NEW v \in Driven, NEW s \in Speed, TurnKnob(v, s) PROVE Rights'
  <2> DEFINE c == Compare(v, s, "hardware")
  <2>1. /\ todo' = [todo EXCEPT ![Station] = <<c>>] /\ Station \in Threads
        /\ c.do = "compare" /\ c.speed = s /\ c.vehicle = v /\ v \in Vehicles
    BY <1>0, <1>4, TurnKnobTyped DEF Threads, Compare, ToDo
  <2>2. station' = [station EXCEPT ![v] = s] /\ UNCHANGED <<speed, crossed>>
    BY <1>4 DEF TurnKnob
  <2> HIDE DEF c
  <2>3. Len(<<c>>) = 1 /\ <<c>>[1] = c
    OBVIOUS
  <2>4. Right(todo[Station])'
    <3>1. todo'[Station] = <<c>>
      BY <1>0, <2>1 DEF CallTypes
    <3>2. Reported(c)'
      BY <1>0, <2>1, <2>2 DEF Reported, CallTypes
    <3> QED
      BY <2>1, <2>3, <3>1, <3>2 DEF Right
  \* Nobody else tells or compares what was reported.
  <2>5. ASSUME NEW t \in Threads \ {Station} PROVE Right(todo[t])'
    <3>1. todo'[t] = todo[t] /\ Shape(t, todo[t]) /\ Right(todo[t])
      BY <1>0, <2>1 DEF CallTypes, Shapes, Rights
    <3>2. \A i \in 1..Len(todo[t]) : todo[t][i].do # "announce" => todo[t][i].origin # "hardware"
      BY <3>1 DEF Shape, FromStation
    <3> QED
      BY <2>2, <3>1, <3>2 DEF Right, ToStore, Told
  <2> QED
    BY <2>4, <2>5 DEF Rights
<1>5. ASSUME NEW b \in Browsers, PageStep(b) PROVE Rights'
  <2>1. UNCHANGED <<speed, station, todo, crossed>>
    BY <1>0, <1>5, PageTyped DEF speedVars
  <2> QED
    BY <2>1 DEF Rights, Right, Told, Reported, ToStore
<1>6. CASE UNCHANGED vars
  BY <1>6 DEF vars, speedVars, Rights, Right, Told, Reported, ToStore
<1> QED
  BY <1>2, <1>3, <1>4, <1>5, <1>6 DEF Next, Threads

(***************************************************************************)
(* A call that is underway stays so, or leaves speed and station alike.      *)
(***************************************************************************)
LEMMA PendingMoves ==
  ASSUME CallTypes, CallTypes', NEW t \in Threads, NEW q,
         todo' = [todo EXCEPT ![t] = q], NEW v
  PROVE  /\ Works(q, v) => Pending(v)'
         /\ Pending(v) /\ (Works(todo[t], v) => Works(q, v)) => Pending(v)'
<1>1. \A u \in Threads : todo'[u] = IF u = t THEN q ELSE todo[u]
  BY DEF CallTypes
<1>2. \A u \in Threads : Underway(u, v) <=> Works(todo[u], v)
  BY WorksUnderway
<1>3. \A u \in Threads : DOMAIN todo'[u] = 1..Len(todo'[u])
  BY LenProperties DEF CallTypes
<1>4. \A u \in Threads : Underway(u, v)' <=> Works(todo'[u], v)
  BY <1>3 DEF Underway, Works
<1> QED
  BY <1>1, <1>2, <1>4 DEF Pending

LEMMA WorksTail ==
  ASSUME NEW q \in Seq(Jobs), q # <<>>, NEW v, Works(q, v),
         \/ q[1].vehicle # v \/ q[1].do = "announce"
         \/ q[1].do = "compare" /\ q[1].origin = "internal"
  PROVE  Works(Tail(q), v)
<1>1. PICK i \in 1..Len(q) :
        /\ q[i].vehicle = v
        /\ q[i].do \in {"store", "tell"} \/ (q[i].do = "compare" /\ q[i].origin = "hardware")
  BY DEF Works
<1>2. i # 1
  BY <1>1
<1>3. i - 1 \in 1..Len(Tail(q)) /\ Tail(q)[i - 1] = q[i]
  BY <1>2, HeadTailProperties, EmptySeq
<1> QED
  BY <1>1, <1>3 DEF Works

LEMMA WorksExpanded ==
  ASSUME NEW q \in Seq(Jobs), q # <<>>, Head(q).do = "compare", NEW v, Works(q, v)
  PROVE  Works(Expanded(q), v)
<1> DEFINE n == Len(Slaves[Head(q).vehicle])
           E == Expanded(q)
<1>1. /\ n \in Nat /\ Len(E) = Len(q) + n + 1
      /\ E[1] = ToDo("store", Head(q).vehicle, Head(q).speed, Head(q).origin)
      /\ \A i \in 2..Len(q) : E[i + n + 1] = q[i]
  BY Expansion
<1>2. Head(q) = q[1] /\ Len(q) \in Nat \ {0}
  BY HeadTailProperties, EmptySeq
<1> HIDE DEF n, E
<1>3. PICK i \in 1..Len(q) :
        /\ q[i].vehicle = v
        /\ q[i].do \in {"store", "tell"} \/ (q[i].do = "compare" /\ q[i].origin = "hardware")
  BY DEF Works
<1>4. CASE i = 1
  <2>1. E[1].do = "store" /\ E[1].vehicle = v /\ 1 \in 1..Len(E)
    BY <1>1, <1>2, <1>3, <1>4 DEF ToDo
  <2> QED
    BY <2>1 DEF Works, E
<1>5. CASE i # 1
  <2>1. i + n + 1 \in 1..Len(E) /\ E[i + n + 1] = q[i]
    BY <1>1, <1>2, <1>3, <1>5
  <2> QED
    BY <1>3, <2>1 DEF Works, E
<1> QED
  BY <1>4, <1>5

LEMMA InStepInit == Init => InStep
  BY DEF Init, InStep

LEMMA InStepKept ==
  TypeOK /\ Shapes /\ Rights /\ InStep /\ [Next]_vars => InStep'
<1> SUFFICES ASSUME TypeOK, Shapes, Rights, InStep, [Next]_vars, NEW w \in Vehicles
             PROVE  Pending(w)' \/ crossed'[w] \/ station'[w] = speed'[w]
  BY DEF InStep
<1>0. CallTypes /\ LogTypes /\ PageTypes /\ CallTypes'
  <2>1. TypeOK'
    BY TypedStep
  <2> QED
    BY <2>1, TypeParts DEF TypeOK, CallTypes
<1>w. Pending(w) \/ crossed[w] \/ station[w] = speed[w]
  BY DEF InStep
<1>1. ASSUME NEW t \in Threads, CompareSpeed(t)
      PROVE  Pending(w)' \/ crossed'[w] \/ station'[w] = speed'[w]
  <2>1. /\ todo[t] # <<>> /\ todo[t] \in Seq(Jobs) /\ Head(todo[t]) = todo[t][1]
        /\ todo[t][1].do = "compare" /\ 1 \in 1..Len(todo[t]) /\ todo[t][1] \in Jobs
        /\ UNCHANGED <<speed, station, crossed>>
    BY <1>0, <1>1, CompareStep, JobTyped DEF Job
  <2>2. CASE todo' = [todo EXCEPT ![t] = Expanded(todo[t])]
    BY <1>0, <1>w, <2>1, <2>2, PendingMoves, WorksExpanded
  <2>3. CASE /\ todo' = [todo EXCEPT ![t] = Tail(todo[t])]
             /\ speed[todo[t][1].vehicle] = todo[t][1].speed
    <3>1. CASE todo[t][1].vehicle = w /\ todo[t][1].origin = "hardware"
      <4>1. Reported(todo[t][1])
        BY <2>1, <3>1 DEF Rights, Right
      <4> QED
        BY <2>1, <2>3, <3>1, <4>1 DEF Reported
    <3>2. CASE ~(todo[t][1].vehicle = w /\ todo[t][1].origin = "hardware")
      <4>1. todo[t][1].origin \in {"internal", "hardware"}
        BY <2>1, JobFields DEF Origins
      <4>2. Works(todo[t], w) => Works(Tail(todo[t]), w)
        BY <2>1, <3>2, <4>1, WorksTail
      <4> QED
        BY <1>0, <1>w, <2>1, <2>3, <4>2, PendingMoves
    <3> QED
      BY <3>1, <3>2
  <2> QED
    BY <1>0, <1>1, <2>2, <2>3, CompareStep, JobTyped
\* What a thread has done with, for another vehicle, does not matter.
<1>2. ASSUME NEW t \in Threads, Done(t), todo[t] # <<>>,
             todo[t][1].vehicle # w \/ todo[t][1].do = "announce", Pending(w)
      PROVE  Pending(w)'
  <2>1. todo' = [todo EXCEPT ![t] = Tail(todo[t])] /\ todo[t] \in Seq(Jobs)
    BY <1>0, <1>2 DEF Done, CallTypes
  <2>2. Works(todo[t], w) => Works(Tail(todo[t]), w)
    BY <1>2, <2>1, WorksTail
  <2> QED
    BY <1>0, <1>2, <2>1, <2>2, PendingMoves
<1>3. ASSUME NEW t \in Threads, StoreSpeed(t)
      PROVE  Pending(w)' \/ crossed'[w] \/ station'[w] = speed'[w]
  <2>1. /\ todo[t] # <<>> /\ todo[t] \in Seq(Jobs) /\ Job(t) = todo[t][1] /\ Done(t)
        /\ todo[t][1].do = "store" /\ station' = station /\ Len(todo[t]) \in Nat \ {0}
    BY <1>0, <1>3, JobTyped DEF StoreSpeed
  <2>2. CASE todo[t][1].vehicle # w
    <3>1. speed'[w] = speed[w] /\ crossed'[w] = crossed[w]
      BY <1>0, <1>3, <2>1, <2>2 DEF StoreSpeed, CallTypes
    <3> QED
      BY <1>w, <1>2, <2>1, <2>2, <3>1
  <2>3. CASE todo[t][1].vehicle = w
    <3>1. PICK i \in 2..Len(todo[t]) : todo[t][i].do = "tell" /\ todo[t][i].vehicle = w
      BY <2>1, <2>3 DEF Shapes, Shape, StoresFirst
    <3>2. i - 1 \in 1..Len(Tail(todo[t])) /\ Tail(todo[t])[i - 1] = todo[t][i]
      BY <2>1, HeadTailProperties
    <3>3. Works(Tail(todo[t]), w)
      BY <3>1, <3>2 DEF Works
    <3>4. todo' = [todo EXCEPT ![t] = Tail(todo[t])]
      BY <1>0, <2>1 DEF Done, CallTypes
    <3> QED
      BY <1>0, <3>3, <3>4, PendingMoves
  <2> QED
    BY <2>2, <2>3
<1>4. ASSUME NEW t \in Threads, TellSpeed(t) \/ Announce(t)
      PROVE  Pending(w)' \/ crossed'[w] \/ station'[w] = speed'[w]
  <2>1. todo[t] # <<>> /\ Job(t) = todo[t][1]
    BY <1>0, <1>4, JobTyped DEF TellSpeed, Announce
  <2>2. /\ \A x \in Vehicles : station'[x] = station[x] \/ x = Job(t).vehicle
        /\ crossed[Job(t).vehicle] \/ station'[Job(t).vehicle] = speed[Job(t).vehicle]
        /\ UNCHANGED <<speed, crossed>> /\ Done(t)
    BY <1>0, <1>4, RightTold
  <2>3. CASE Job(t).vehicle = w
    BY <2>2, <2>3
  <2>4. CASE Job(t).vehicle # w
    BY <1>w, <1>2, <2>1, <2>2, <2>4
  <2> QED
    BY <2>3, <2>4
<1>5. ASSUME NEW t \in Threads,
             \/ \E v \in Driven, s \in Speed : Call(t, v, s)
             \/ StopAll(t) \/ BoosterGo(t)
      PROVE  Pending(w)' \/ crossed'[w] \/ station'[w] = speed'[w]
  <2>1. PICK q \in Seq(Jobs) :
          /\ todo[t] = <<>> /\ todo' = [todo EXCEPT ![t] = q]
          /\ UNCHANGED <<speed, station, crossed>>
    BY <1>0, <1>5, BeginTyped
  <2>2. ~Works(todo[t], w)
    BY <2>1 DEF Works
  <2> QED
    BY <1>0, <1>w, <2>1, <2>2, PendingMoves
<1>6. ASSUME NEW v \in Driven, NEW s \in Speed, TurnKnob(v, s)
      PROVE  Pending(w)' \/ crossed'[w] \/ station'[w] = speed'[w]
  <2> DEFINE c == Compare(v, s, "hardware")
  <2>1. /\ todo[Station] = <<>> /\ todo' = [todo EXCEPT ![Station] = <<c>>]
        /\ Station \in Threads
        /\ c.do = "compare" /\ c.origin = "hardware" /\ c.vehicle = v /\ v \in Vehicles
    BY <1>0, <1>6, TurnKnobTyped DEF Threads, Compare, ToDo
  <2>2. station' = [station EXCEPT ![v] = s] /\ UNCHANGED <<speed, crossed>>
    BY <1>6 DEF TurnKnob
  <2> HIDE DEF c
  <2>3. CASE w = v
    <3>1. Len(<<c>>) = 1 /\ <<c>>[1] = c
      OBVIOUS
    <3>2. Works(<<c>>, w)
      BY <2>1, <2>3, <3>1 DEF Works
    <3> QED
      BY <1>0, <2>1, <3>2, PendingMoves
  <2>4. CASE w # v
    <3>1. ~Works(todo[Station], w)
      BY <2>1 DEF Works
    <3>2. station'[w] = station[w]
      BY <1>0, <2>1, <2>2, <2>4 DEF CallTypes
    <3>3. Pending(w) => Pending(w)'
      BY <1>0, <2>1, <3>1, PendingMoves
    <3> QED
      BY <1>w, <2>2, <3>2, <3>3
  <2> QED
    BY <2>3, <2>4
<1>7. ASSUME UNCHANGED <<speed, station, todo, crossed>>
      PROVE  Pending(w)' \/ crossed'[w] \/ station'[w] = speed'[w]
  BY <1>w, <1>7 DEF Pending, Underway
<1>8. ASSUME NEW b \in Browsers, PageStep(b)
      PROVE  UNCHANGED <<speed, station, todo, crossed>>
  BY <1>0, <1>8, PageTyped DEF speedVars
<1>9. UNCHANGED vars => UNCHANGED <<speed, station, todo, crossed>>
  BY DEF vars, speedVars
<1> QED
  BY <1>1, <1>3, <1>4, <1>5, <1>6, <1>7, <1>8, <1>9 DEF Next, CallStep, Threads

(***************************************************************************)
(* The command station drives every vehicle at the speed the program         *)
(* believes in, unless calls for it crossed (Manager::LocoBaseSpeed,         *)
(* MultipleUnit::SetSpeed), for any number of threads and any units.         *)
(***************************************************************************)
THEOREM SpeedsInStep == Spec => []InStep
<1>1. Init => TypeOK /\ Shapes /\ Rights /\ InStep
  BY TypedInit, ShapesInit, RightsInit, InStepInit
<1>2. TypeOK /\ Shapes /\ Rights /\ InStep /\ [Next]_vars =>
        (TypeOK /\ Shapes /\ Rights /\ InStep)'
  BY TypedStep, ShapesKept, RightsKept, InStepKept
<1> QED
  BY <1>1, <1>2, PTL DEF Spec

(***************************************************************************)
(* What the pages are told.  A speed counts as right when it is the stored   *)
(* one, or the last change crossed another call, or the tell of a change is  *)
(* still to come.                                                            *)
(***************************************************************************)
Tells(q, v) == \E i \in 1..Len(q) : q[i].vehicle = v /\ q[i].do \in {"store", "tell"}

Telling(v) == \E t \in Threads : Tells(todo[t], v)

Settled(v, s) == Telling(v) \/ crossed[v] \/ s = speed[v]

\* The last update of a vehicle in the log is right.
LastRight ==
  \A i \in DOMAIN updates :
    LET e == updates[i] IN
    e.vehicle # None /\ (\A k \in DOMAIN updates : k > i => updates[k].vehicle # e.vehicle)
      => Settled(e.vehicle, e.speed)

\* So is what a page shows, or will show, unless an update is on its way.
PageRight(b) ==
  LET c == control[b] IN
  /\ next[b] <= updateID
  /\ /\ c.at # "asked" /\ c.sound /\ next[b] + MaxUpdates > updateID
     /\ \A i \in DOMAIN updates : i >= next[b] => updates[i].vehicle # c.vehicle
     => Settled(c.vehicle, c.speed)

PagesRight == \A b \in Browsers : PageRight(b)

LEMMA TellsTail ==
  ASSUME NEW q \in Seq(Jobs), q # <<>>, NEW v, Tells(q, v),
         q[1].vehicle # v \/ q[1].do \in {"announce", "compare"}
  PROVE  Tells(Tail(q), v)
<1>1. PICK i \in 1..Len(q) : q[i].vehicle = v /\ q[i].do \in {"store", "tell"}
  BY DEF Tells
<1>2. i # 1
  BY <1>1
<1>3. i - 1 \in 1..Len(Tail(q)) /\ Tail(q)[i - 1] = q[i]
  BY <1>2, HeadTailProperties, EmptySeq
<1> QED
  BY <1>1, <1>3 DEF Tells

LEMMA TellsExpanded ==
  ASSUME NEW q \in Seq(Jobs), q # <<>>, Head(q).do = "compare", NEW v, Tells(q, v)
  PROVE  Tells(Expanded(q), v)
<1> DEFINE n == Len(Slaves[Head(q).vehicle])
           E == Expanded(q)
<1>1. /\ n \in Nat /\ Len(E) = Len(q) + n + 1
      /\ \A i \in 2..Len(q) : E[i + n + 1] = q[i]
  BY Expansion
<1>2. Head(q) = q[1] /\ Len(q) \in Nat \ {0}
  BY HeadTailProperties, EmptySeq
<1> HIDE DEF n, E
<1>3. PICK i \in 1..Len(q) : q[i].vehicle = v /\ q[i].do \in {"store", "tell"}
  BY DEF Tells
<1>4. i # 1
  BY <1>2, <1>3
<1>5. i + n + 1 \in 1..Len(E) /\ E[i + n + 1] = q[i]
  BY <1>1, <1>2, <1>3, <1>4
<1> QED
  BY <1>3, <1>5 DEF Tells, E

LEMMA TellingMoves ==
  ASSUME CallTypes, NEW t \in Threads, NEW q, todo' = [todo EXCEPT ![t] = q], NEW v
  PROVE  /\ Tells(q, v) => Telling(v)'
         /\ Telling(v) /\ (Tells(todo[t], v) => Tells(q, v)) => Telling(v)'
<1>1. \A u \in Threads : todo'[u] = IF u = t THEN q ELSE todo[u]
  BY DEF CallTypes
<1>2. \A u \in Threads : Tells(todo[u], v)' <=> Tells(todo'[u], v)
  BY DEF Tells
<1>3. Telling(v)' <=> \E u \in Threads : Tells(todo'[u], v)
  BY <1>2 DEF Telling
<1> QED
  BY <1>1, <1>3 DEF Telling

\* The steps that begin something or change nothing.
LEMMA SettledStays ==
  ASSUME CallTypes, NEW t \in Threads, NEW q, todo[t] = <<>>,
         todo' = [todo EXCEPT ![t] = q], UNCHANGED <<speed, crossed>>,
         NEW v, NEW s, Settled(v, s)
  PROVE  Settled(v, s)'
<1>1. ~Tells(todo[t], v)
  BY DEF Tells
<1>2. Telling(v) => Telling(v)'
  BY <1>1, TellingMoves
<1> QED
  BY <1>2 DEF Settled

\* What is right stays so until the tell, which repeats the stored speed.
LEMMA SettledMoves ==
  ASSUME CallTypes, Shapes, NEW t \in Threads, CallStep(t),
         NEW v \in Vehicles, NEW s, Settled(v, s), ~(TellSpeed(t) /\ Job(t).vehicle = v)
  PROVE  Settled(v, s)'
<1>1. /\ todo[t] # <<>> /\ todo[t] \in Seq(Jobs) /\ Job(t) = todo[t][1]
      /\ Job(t) = Head(todo[t]) /\ Len(todo[t]) \in Nat \ {0}
  BY ListMoves, JobTyped DEF Job
<1>2. CASE CompareSpeed(t)
  <2>1. todo[t][1].do = "compare" /\ UNCHANGED <<speed, crossed>>
    BY <1>1, <1>2, CompareStep
  <2>2. Tells(todo[t], v) => Tells(Tail(todo[t]), v) /\ Tells(Expanded(todo[t]), v)
    BY <1>1, <2>1, TellsTail, TellsExpanded
  <2>3. Telling(v) => Telling(v)'
    BY <1>2, <2>2, CompareStep, TellingMoves
  <2> QED
    BY <2>1, <2>3 DEF Settled
<1>3. CASE StoreSpeed(t)
  <2>1. /\ todo[t][1].do = "store" /\ todo' = [todo EXCEPT ![t] = Tail(todo[t])]
    BY <1>1, <1>3 DEF StoreSpeed, Done, CallTypes
  <2>2. CASE Job(t).vehicle # v
    <3>1. speed'[v] = speed[v] /\ crossed'[v] = crossed[v]
      BY <1>3, <2>2 DEF StoreSpeed, CallTypes
    <3>2. Telling(v) => Telling(v)'
      BY <1>1, <2>1, <2>2, TellsTail, TellingMoves
    <3> QED
      BY <3>1, <3>2 DEF Settled
  <2>3. CASE Job(t).vehicle = v
    <3>1. PICK i \in 2..Len(todo[t]) : todo[t][i].do = "tell" /\ todo[t][i].vehicle = v
      BY <1>1, <2>1, <2>3 DEF Shapes, Shape, StoresFirst
    <3>2. i - 1 \in 1..Len(Tail(todo[t])) /\ Tail(todo[t])[i - 1] = todo[t][i]
      BY <1>1, HeadTailProperties
    <3>3. Tells(Tail(todo[t]), v)
      BY <3>1, <3>2 DEF Tells
    <3> QED
      BY <2>1, <3>3, TellingMoves DEF Settled
  <2> QED
    BY <2>2, <2>3
<1>4. CASE TellSpeed(t) \/ Announce(t)
  <2>1. UNCHANGED <<speed, crossed>> /\ todo' = [todo EXCEPT ![t] = Tail(todo[t])]
    BY <1>4 DEF TellSpeed, Announce, Done, CallTypes
  <2>2. todo[t][1].vehicle # v \/ todo[t][1].do = "announce"
    BY <1>1, <1>4 DEF Announce
  <2>3. Telling(v) => Telling(v)'
    BY <1>1, <2>1, <2>2, TellsTail, TellingMoves
  <2> QED
    BY <2>1, <2>3 DEF Settled
<1> QED
  BY <1>2, <1>3, <1>4 DEF CallStep

\* An update that is right takes the place of the last one.
LEMMA AddedRight ==
  ASSUME LogTypes, PageTypes, Window, LastRight, PagesRight,
         NEW v \in Vehicles, NEW s \in Speed, AddUpdate(v, s), UNCHANGED pageVars,
         Settled(v, s)',
         \A w \in Vehicles \ {v}, x \in Speed : Settled(w, x) => Settled(w, x)'
  PROVE  LastRight' /\ PagesRight'
<1> DEFINE D == (DOMAIN updates \cup {updateID}) \ {updateID + 1 - MaxUpdates}
<1>1. /\ updateID \in Nat /\ MaxUpdates \in Nat /\ MaxUpdates > 1
      /\ updateID' = updateID + 1
  BY SpeedTypes DEF LogTypes, AddUpdate
<1>2. /\ DOMAIN updates' = D
      /\ \A i \in D : updates'[i] = IF i = updateID THEN [vehicle |-> v, speed |-> s]
                                                    ELSE updates[i]
  BY DEF AddUpdate
<1>3. /\ \A i \in DOMAIN updates :
           /\ i \in Nat /\ i < updateID /\ i > updateID - MaxUpdates
           /\ updates[i].vehicle \in Vehicles \cup {None} /\ updates[i].speed \in Speed
  BY <1>1 DEF LogTypes, Window, Entries
<1>4. /\ updateID \in D /\ updates'[updateID].vehicle = v /\ updates'[updateID].speed = s
      /\ \A i \in DOMAIN updates : i > updateID + 1 - MaxUpdates => i \in D
      /\ \A i \in D : i = updateID \/ (i \in DOMAIN updates /\ i > updateID + 1 - MaxUpdates)
  <2>1. updateID # updateID + 1 - MaxUpdates
    BY <1>1
  <2>2. \A i \in DOMAIN updates : i # updateID + 1 - MaxUpdates => i > updateID + 1 - MaxUpdates
    BY <1>1, <1>3
  <2> QED
    BY <1>1, <1>2, <1>3, <2>1, <2>2
<1> HIDE DEF D
<1>5. ASSUME NEW i \in D, NEW w \in Vehicles, w = updates'[i].vehicle,
             NEW x \in Speed, x = updates'[i].speed,
             \A k \in D : k > i => updates'[k].vehicle # w
      PROVE  Settled(w, x)'
  <2>1. CASE i = updateID
    BY <1>2, <1>4, <1>5, <2>1
  <2>2. CASE i # updateID
    <3>1. /\ i \in DOMAIN updates /\ i > updateID + 1 - MaxUpdates /\ i \in Nat
          /\ updates'[i] = updates[i] /\ updateID > i
      BY <1>2, <1>3, <1>4, <2>2
    <3>2. w # v
      BY <1>4, <1>5, <3>1
    <3>3. ASSUME NEW k \in DOMAIN updates, k > i PROVE updates[k].vehicle # w
      <4>1. k > updateID + 1 - MaxUpdates /\ k # updateID
        BY <1>1, <1>3, <3>1, <3>3
      <4> QED
        BY <1>2, <1>4, <1>5, <3>3, <4>1
    <3>4. w # None /\ w = updates[i].vehicle /\ x = updates[i].speed
      BY <1>3, <1>5, <3>1, SpeedTypes
    <3>5. Settled(w, x)
      BY <3>1, <3>3, <3>4 DEF LastRight
    <3> QED
      BY <3>1, <3>2, <3>4, <3>5
  <2> QED
    BY <2>1, <2>2
<1>6. LastRight'
  <2> SUFFICES ASSUME NEW i \in D, NEW w, w = updates'[i].vehicle, w # None,
                      NEW x, x = updates'[i].speed,
                      \A k \in D : k > i => updates'[k].vehicle # w
               PROVE  Settled(w, x)'
    BY <1>2 DEF LastRight, Settled
  <2>1. w \in Vehicles /\ x \in Speed
    BY <1>2, <1>3, <1>4
  <2> QED
    BY <1>5, <2>1
<1>7. ASSUME NEW b \in Browsers PROVE PageRight(b)'
  <2>c. PICK c \in Controls : c = control[b]
    BY DEF PageTypes
  <2>1. /\ control'[b] = c /\ next'[b] = next[b] /\ next[b] \in Nat /\ next[b] <= updateID
    BY <2>c DEF PagesRight, PageRight, PageTypes, pageVars
  <2>2. ASSUME c.at # "asked", c.sound, next[b] + MaxUpdates > updateID + 1,
               \A i \in D : i >= next[b] => updates'[i].vehicle # c.vehicle
        PROVE  Settled(c.vehicle, c.speed)'
    <3>1. c.vehicle \in Vehicles /\ c.speed \in Speed
      BY <2>2 DEF Controls
    <3>2. c.vehicle # v
      BY <1>1, <1>4, <2>1, <2>2
    <3>3. ASSUME NEW i \in DOMAIN updates, i >= next[b]
          PROVE  updates[i].vehicle # c.vehicle
      <4>1. i > updateID + 1 - MaxUpdates /\ i # updateID
        BY <1>1, <1>3, <2>1, <2>2, <3>3
      <4> QED
        BY <1>2, <1>4, <2>2, <3>3, <4>1
    <3>4. next[b] + MaxUpdates > updateID
      BY <1>1, <2>1, <2>2
    <3>5. Settled(c.vehicle, c.speed)
      BY <2>c, <2>2, <3>3, <3>4 DEF PagesRight, PageRight
    <3> QED
      BY <3>1, <3>2, <3>5
  <2>3. next[b] <= updateID + 1
    BY <1>1, <2>1
  <2> QED
    BY <1>1, <1>2, <2>1, <2>2, <2>3 DEF PageRight, Settled
<1> QED
  BY <1>6, <1>7 DEF PagesRight

\* The steps that add no update.
LEMMA NothingAdded ==
  ASSUME LogTypes, PageTypes, LastRight, PagesRight,
         UNCHANGED <<updates, updateID, pageVars>>,
         \A w \in Vehicles, x \in Speed : Settled(w, x) => Settled(w, x)'
  PROVE  LastRight' /\ PagesRight'
<1>1. LastRight'
  <2> SUFFICES ASSUME NEW i \in DOMAIN updates, NEW w, w = updates[i].vehicle, w # None,
                      NEW x, x = updates[i].speed,
                      \A k \in DOMAIN updates : k > i => updates[k].vehicle # w
               PROVE  Settled(w, x)'
    BY DEF LastRight, Settled
  <2>1. w \in Vehicles /\ x \in Speed
    BY DEF LogTypes, Entries
  <2>2. Settled(w, x)
    BY DEF LastRight
  <2> QED
    BY <2>1, <2>2
<1>2. ASSUME NEW b \in Browsers PROVE PageRight(b)'
  <2>c. PICK c \in Controls : c = control[b]
    BY DEF PageTypes
  <2>1. control'[b] = c /\ next'[b] = next[b] /\ PageRight(b)
    BY <2>c DEF PagesRight, PageTypes, pageVars
  <2>2. c.at # "asked" => c.vehicle \in Vehicles /\ c.speed \in Speed
    BY DEF Controls
  <2>3. c.at # "asked" /\ Settled(c.vehicle, c.speed) => Settled(c.vehicle, c.speed)'
    BY <2>2
  <2> QED
    BY <2>c, <2>1, <2>3 DEF PageRight, Settled
<1> QED
  BY <1>1, <1>2 DEF PagesRight

LEMMA RightCallStep ==
  ASSUME TypeOK, Shapes, Rights, Window, LastRight, PagesRight,
         NEW t \in Threads, CallStep(t)
  PROVE  LastRight' /\ PagesRight'
<1>0. CallTypes /\ LogTypes /\ PageTypes /\ UNCHANGED pageVars
  BY TypeParts, CallStepTyped
<1>1. /\ todo[t] # <<>> /\ Job(t) = todo[t][1] /\ Job(t) \in Jobs
      /\ Job(t).vehicle \in Vehicles /\ Len(todo[t]) \in Nat \ {0}
  BY <1>0, ListMoves, JobTyped, JobFields
<1>2. CASE CompareSpeed(t) \/ StoreSpeed(t)
  <2>1. UNCHANGED <<updates, updateID>>
    BY <1>2 DEF CompareSpeed, StoreSpeed
  <2>2. ~TellSpeed(t)
    BY <1>2 DEF CompareSpeed, StoreSpeed, TellSpeed
  <2>3. \A w \in Vehicles, x \in Speed : Settled(w, x) => Settled(w, x)'
    BY <1>0, <2>2, SettledMoves
  <2> QED
    BY <1>0, <2>1, <2>3, NothingAdded
<1>3. CASE TellSpeed(t) \/ Announce(t)
  <2>1. UNCHANGED <<speed, crossed>>
    BY <1>3 DEF TellSpeed, Announce
  <2>2. PICK v \in Vehicles : v = Job(t).vehicle
    BY <1>1
  <2>3. PICK s \in Speed : AddUpdate(v, s) /\ (crossed[v] \/ speed[v] = s)
    <3>1. CASE TellSpeed(t)
      <4>1. Job(t).do = "tell" /\ Job(t).speed \in Speed /\ AddUpdate(v, Job(t).speed)
        BY <1>1, <2>2, <3>1, JobFields DEF TellSpeed, TellControls
      <4>2. Told(Job(t))
        BY <1>1, <4>1 DEF Rights, Right, ToStore
      <4> QED
        BY <2>2, <4>1, <4>2 DEF Told
    <3>2. CASE Announce(t)
      BY <1>0, <2>2, <3>2 DEF Announce, TellControls, CallTypes
    <3> QED
      BY <1>3, <3>1, <3>2
  <2>4. Settled(v, s)'
    BY <2>1, <2>3 DEF Settled
  <2>5. \A w \in Vehicles \ {v}, x \in Speed : Settled(w, x) => Settled(w, x)'
    BY <1>0, <2>2, SettledMoves
  <2> QED
    BY <1>0, <2>3, <2>4, <2>5, AddedRight
<1> QED
  BY <1>2, <1>3 DEF CallStep

\* A page gets the next update, or a newer one.
LEMMA RightDelivered ==
  ASSUME TypeOK, LastRight, PagesRight, NEW b \in Browsers, Deliver(b)
  PROVE  PageRight(b)'
<1>0. CallTypes /\ LogTypes /\ PageTypes
  BY TypeParts
<1> DEFINE c == control[b]
           e == updates[From(b)]
           d == Applied(c, e, From(b) # next[b])
<1>1. /\ next'[b] = From(b) + 1 /\ control'[b] = d
      /\ UNCHANGED <<speed, todo, crossed, updates, updateID>>
      /\ c \in Controls /\ PageRight(b)
  BY <1>0 DEF Deliver, PageTypes, speedVars, PagesRight
<1>2. /\ From(b) \in DOMAIN updates /\ From(b) \in Nat /\ From(b) < updateID
      /\ updateID \in Nat /\ next[b] \in Nat /\ MaxUpdates \in Nat /\ e \in Entries
  BY <1>0, SpeedTypes DEF Deliver, LogTypes, PageTypes
<1>3. e.vehicle \in Vehicles \cup {None} /\ e.speed \in Speed
  BY <1>2 DEF Entries
<1> HIDE DEF d, e
<1>4. ASSUME d.at # "asked", d.sound,
             \A i \in DOMAIN updates : i >= From(b) + 1 => updates[i].vehicle # d.vehicle
      PROVE  Settled(d.vehicle, d.speed)
  <2>0. /\ c.at \in {"answered", "shown"} /\ c.vehicle \in Vehicles
        /\ d.vehicle = c.vehicle /\ d.at = c.at
        /\ c.sound \in BOOLEAN
    BY <1>1, <1>4 DEF d, Applied, Controls
  <2>1. CASE e.vehicle = c.vehicle
    <3>1. d.speed = e.speed
      BY <1>1, <1>4, <2>0, <2>1 DEF d, Applied, Controls
    <3>2. e.vehicle # None
      BY <2>0, <2>1, SpeedTypes
    <3>3. \A i \in DOMAIN updates : i > From(b) => updates[i].vehicle # e.vehicle
      <4>1. \A i \in DOMAIN updates : i \in Nat
        BY <1>0 DEF LogTypes
      <4> QED
        BY <1>2, <1>4, <2>0, <2>1, <4>1
    <3>4. Settled(e.vehicle, e.speed)
      BY <1>2, <3>2, <3>3 DEF LastRight, e
    <3> QED
      BY <2>0, <2>1, <3>1, <3>4
  <2>2. CASE e.vehicle # c.vehicle
    <3>1. c.sound /\ From(b) = next[b] /\ d.speed = c.speed
      BY <1>1, <1>4, <2>0, <2>2 DEF d, Applied, Controls
    <3>2. next[b] + MaxUpdates > updateID
      <4>1. ~(next[b] + MaxUpdates <= updateID)
        <5>1. updateID - MaxUpdates + 1 = next[b] => ~(next[b] + MaxUpdates <= updateID)
          BY <1>2
        <5> QED
          BY <3>1, <5>1 DEF From
      <4> QED
        BY <1>2, <4>1
    <3>3. \A i \in DOMAIN updates : i >= next[b] => updates[i].vehicle # c.vehicle
      <4>1. \A i \in DOMAIN updates : i \in Nat
        BY <1>0 DEF LogTypes
      <4>2. \A i \in DOMAIN updates : i >= next[b] => i = From(b) \/ i >= From(b) + 1
        BY <1>2, <3>1, <4>1
      <4> QED
        BY <1>4, <2>0, <2>2, <4>2 DEF e
    <3> QED
      BY <1>1, <2>0, <3>1, <3>2, <3>3 DEF PageRight
  <2> QED
    BY <2>1, <2>2
<1>5. \A w, x : Settled(w, x)' <=> Settled(w, x)
  BY <1>1 DEF Settled, Telling, Tells
<1>6. From(b) + 1 <= updateID
  BY <1>2
<1> QED
  BY <1>1, <1>4, <1>5, <1>6 DEF PageRight, Settled

LEMMA RightPageStep ==
  ASSUME TypeOK, LastRight, PagesRight, NEW b \in Browsers, PageStep(b)
  PROVE  LastRight' /\ PagesRight'
<1>0. CallTypes /\ LogTypes /\ PageTypes
  BY TypeParts
<1>1. UNCHANGED <<speed, todo, crossed, updates, updateID>>
  BY <1>0, PageTyped DEF speedVars
<1>2. \A w, x : Settled(w, x)' <=> Settled(w, x)
  BY <1>1 DEF Settled, Telling, Tells
<1>3. LastRight'
  BY <1>1, <1>2 DEF LastRight
<1>4. \A a \in Browsers \ {b} : control'[a] = control[a] /\ next'[a] = next[a]
  BY <1>0 DEF PageStep, Deliver, HandleLoco, ShowLoco, Reload, LoadLoco, PageTypes
<1>5. \A a \in Browsers \ {b} : PageRight(a)'
  BY <1>1, <1>2, <1>4 DEF PagesRight, PageRight
<1>6. PageRight(b)'
  <2>1. /\ PageRight(b) /\ control[b] \in Controls /\ updateID \in Nat \ {0}
        /\ updateID' = updateID
    BY <1>0, <1>1 DEF PagesRight, PageTypes, LogTypes
  <2>2. CASE Deliver(b)
    BY <2>2, RightDelivered
  <2>3. CASE Reload(b) \/ \E v \in Selectable : LoadLoco(b, v)
    <3>1. control'[b].at = "asked" /\ next'[b] \in {1, next[b]}
      BY <1>0, <2>3 DEF Reload, LoadLoco, Asked, PageTypes
    <3> QED
      BY <2>1, <3>1 DEF PageRight
  <2>4. CASE HandleLoco(b)
    <3>1. /\ next'[b] = next[b] /\ control'[b].speed = speed[control'[b].vehicle]
      BY <1>0, <2>4 DEF HandleLoco, PageTypes
    <3> QED
      BY <1>1, <2>1, <3>1 DEF PageRight, Settled
  <2>5. CASE ShowLoco(b)
    <3>1. /\ next'[b] = next[b] /\ control[b].at = "answered"
          /\ control'[b].vehicle = control[b].vehicle
          /\ control'[b].speed = control[b].speed /\ control'[b].sound = control[b].sound
      BY <1>0, <2>1, <2>5 DEF ShowLoco, PageTypes, Controls
    <3> QED
      BY <1>1, <1>2, <2>1, <3>1 DEF PageRight
  <2> QED
    BY <2>2, <2>3, <2>4, <2>5 DEF PageStep
<1> QED
  BY <1>3, <1>5, <1>6 DEF PagesRight

LEMMA PagesInit == Init => LastRight /\ PagesRight
<1> SUFFICES ASSUME Init PROVE LastRight /\ PagesRight
  OBVIOUS
<1>1. DOMAIN updates = {1} /\ updates[1].vehicle = None /\ updateID = 2
  BY DEF Init
<1>2. \A b \in Browsers : next[b] = 1 /\ control[b].at = "asked"
  BY DEF Init, Asked
<1> QED
  BY <1>1, <1>2 DEF LastRight, PagesRight, PageRight

LEMMA PagesKept ==
  TypeOK /\ Shapes /\ Rights /\ Window /\ LastRight /\ PagesRight /\ [Next]_vars
    => LastRight' /\ PagesRight'
<1> SUFFICES ASSUME TypeOK, Shapes, Rights, Window, LastRight, PagesRight, [Next]_vars
             PROVE  LastRight' /\ PagesRight'
  OBVIOUS
<1>0. CallTypes /\ LogTypes /\ PageTypes
  BY TypeParts
<1>1. ASSUME NEW t \in Threads,
             \/ \E v \in Driven, s \in Speed : Call(t, v, s)
             \/ StopAll(t) \/ BoosterGo(t)
      PROVE  LastRight' /\ PagesRight'
  <2>1. PICK q \in Seq(Jobs) :
          /\ todo[t] = <<>> /\ todo' = [todo EXCEPT ![t] = q]
          /\ UNCHANGED <<speed, crossed, updates, updateID, pageVars>>
    BY <1>0, <1>1, BeginTyped
  <2> QED
    BY <1>0, <2>1, SettledStays, NothingAdded
<1>2. ASSUME NEW v \in Driven, NEW s \in Speed, TurnKnob(v, s)
      PROVE  LastRight' /\ PagesRight'
  <2> DEFINE q == <<Compare(v, s, "hardware")>>
  <2>1. /\ todo[Station] = <<>> /\ todo' = [todo EXCEPT ![Station] = q]
        /\ Station \in Threads
    BY <1>0, <1>2, TurnKnobTyped DEF Threads
  <2>2. UNCHANGED <<speed, crossed, updates, updateID, pageVars>>
    BY <1>2 DEF TurnKnob
  <2> HIDE DEF q
  <2> QED
    BY <1>0, <2>1, <2>2, SettledStays, NothingAdded
<1>3. CASE UNCHANGED vars
  <2>1. UNCHANGED <<speed, todo, crossed, updates, updateID, pageVars>>
    BY <1>3 DEF vars, speedVars
  <2>2. \A w, x : Settled(w, x)' <=> Settled(w, x)
    BY <2>1 DEF Settled, Telling, Tells
  <2> QED
    BY <1>0, <2>1, <2>2, NothingAdded
<1> QED
  BY <1>1, <1>2, <1>3, RightCallStep, RightPageStep DEF Next, Threads

\* A tell that is still to come is part of a call under way.
LEMMA TellingPends ==
  ASSUME CallTypes, NEW v, Telling(v)
  PROVE  Pending(v)
<1>1. PICK t \in Threads : Tells(todo[t], v)
  BY DEF Telling
<1>2. Works(todo[t], v)
  BY <1>1 DEF Tells, Works
<1> QED
  BY <1>2, WorksUnderway DEF Pending

(***************************************************************************)
(* A page that has applied all updates shows the speed of its vehicle, or    *)
(* has lost updates, or calls crossed (WebServer::AddUpdateInternal,         *)
(* ::NextUpdate, WebClient::HandleLoco), for any number of pages and a ring  *)
(* of any length.                                                            *)
(***************************************************************************)
THEOREM PagesInStep == Spec => []PageInStep
<1> DEFINE Inv == TypeOK /\ Shapes /\ Rights /\ Window /\ LastRight /\ PagesRight
<1>1. Init => Inv
  BY TypedInit, ShapesInit, RightsInit, WindowInit, PagesInit
<1>2. Inv /\ [Next]_vars => Inv'
  BY TypedStep, ShapesKept, RightsKept, WindowKept, PagesKept
<1>3. Inv => PageInStep
  <2> SUFFICES ASSUME Inv, NEW b \in Browsers, next[b] = updateID,
                      control[b].at = "shown", control[b].sound
               PROVE  \/ Pending(control[b].vehicle) \/ crossed[control[b].vehicle]
                      \/ control[b].speed = speed[control[b].vehicle]
    BY DEF PageInStep
  <2>1. /\ CallTypes /\ updateID \in Nat /\ MaxUpdates \in Nat \ {0}
        /\ \A i \in DOMAIN updates : i \in Nat /\ i < updateID
    BY TypeParts, SpeedTypes DEF LogTypes
  <2>2. Settled(control[b].vehicle, control[b].speed)
    BY <2>1 DEF PagesRight, PageRight
  <2> QED
    BY <2>1, <2>2, TellingPends DEF Settled
<1> QED
  BY <1>1, <1>2, <1>3, PTL DEF Spec


(***************************************************************************)
(* Units.  UnitTogether is about calls for units: nobody drives a slave, a   *)
(* locomotive is the slave of one unit only, and units are no locomotives.   *)
(***************************************************************************)
UnitsAlone ==
  /\ \A v \in Driven, u \in Vehicles : v \notin Range(Slaves[u])
  /\ \A u, w \in Vehicles : Range(Slaves[u]) \cap Range(Slaves[w]) # {} => u = w
  /\ Range(Locomotives) \cap Range(Units) = {}

\* Whoever is about to drive a slave is in a call for its unit at that speed,
\* or stops all and will come to the unit.
MeantAt(q, i, u) ==
  \E k \in (i + 1)..Len(q) :
    /\ q[k].vehicle = u
    /\ \/ q[k].do = "tell" /\ q[k].speed = q[i].speed
       \/ q[k].do = "compare" /\ q[k].speed = Stopped /\ q[i].speed = Stopped

Meant(q) ==
  \A i \in 1..Len(q) : q[i].do \in {"compare", "store"} =>
    \A u \in Vehicles : q[i].vehicle \in Range(Slaves[u]) => MeantAt(q, i, u)

\* Whoever is about to store the speed of a unit will then pass it on.
Passes(q) ==
  q # <<>> /\ q[1].do = "store" =>
    \A i \in 1..Len(Slaves[q[1].vehicle]) :
      /\ i + 1 \in 1..Len(q) /\ q[i + 1].do = "compare"
      /\ q[i + 1].vehicle = Slaves[q[1].vehicle][i] /\ q[i + 1].speed = q[1].speed

Purposeful == \A t \in Threads : Meant(todo[t]) /\ Passes(todo[t])

LEMMA RangeOf ==
  ASSUME NEW v \in Vehicles
  PROVE  /\ DOMAIN Slaves[v] = 1..Len(Slaves[v]) /\ Len(Slaves[v]) \in Nat
         /\ Range(Slaves[v]) = {Slaves[v][i] : i \in 1..Len(Slaves[v])}
         /\ Range(Slaves[v]) \subseteq Vehicles
<1>1. Slaves[v] \in Seq(Vehicles)
  BY SpeedTypes
<1>2. DOMAIN Slaves[v] = 1..Len(Slaves[v]) /\ Len(Slaves[v]) \in Nat
      /\ \A i \in 1..Len(Slaves[v]) : Slaves[v][i] \in Vehicles
  BY <1>1, LenProperties, ElementOfSeq
<1> QED
  BY <1>2 DEF Range

\* A slave is another vehicle than its unit, and has no slaves.
LEMMA SlaveApart ==
  ASSUME NEW u \in Vehicles, NEW a \in Range(Slaves[u])
  PROVE  a \in Vehicles /\ a # u /\ Len(Slaves[a]) = 0
<1>1. PICK i \in 1..Len(Slaves[u]) : a = Slaves[u][i]
  BY RangeOf
<1> QED
  BY <1>1, SlavesOfSlaves, EmptySeq, RangeOf

LEMMA MeantTail ==
  ASSUME NEW q \in Seq(Jobs), q # <<>>, Meant(q)
  PROVE  Meant(Tail(q))
<1> DEFINE r == Tail(q)
<1>1. /\ Len(r) = Len(q) - 1 /\ Len(q) \in Nat \ {0}
      /\ \A i \in 1..Len(r) : r[i] = q[i + 1]
  BY HeadTailProperties, EmptySeq
<1> HIDE DEF r
<1>2. ASSUME NEW i \in 1..Len(r), r[i].do \in {"compare", "store"},
             NEW u \in Vehicles, r[i].vehicle \in Range(Slaves[u])
      PROVE  MeantAt(r, i, u)
  <2>1. i + 1 \in 1..Len(q) /\ r[i] = q[i + 1]
    BY <1>1
  <2>2. MeantAt(q, i + 1, u)
    BY <1>2, <2>1 DEF Meant
  <2>3. PICK k \in (i + 2)..Len(q) :
          /\ q[k].vehicle = u
          /\ \/ q[k].do = "tell" /\ q[k].speed = q[i + 1].speed
             \/ q[k].do = "compare" /\ q[k].speed = Stopped /\ q[i + 1].speed = Stopped
    BY <2>2 DEF MeantAt
  <2>4. k - 1 \in (i + 1)..Len(r) /\ r[k - 1] = q[k]
    BY <1>1
  <2> QED
    BY <2>1, <2>3, <2>4 DEF MeantAt
<1> QED
  BY <1>2 DEF Meant, r

LEMMA MeantExpanded ==
  ASSUME UnitsAlone, NEW q \in Seq(Jobs), q # <<>>, Head(q).do = "compare", Meant(q)
  PROVE  Meant(Expanded(q)) /\ Passes(Expanded(q))
<1> DEFINE n == Len(Slaves[Head(q).vehicle])
           E == Expanded(q)
           v == Head(q).vehicle
<1>1. /\ n \in Nat /\ Len(E) = Len(q) + n + 1
      /\ E[1] = ToDo("store", v, Head(q).speed, Head(q).origin)
      /\ \A i \in 1..n : E[i + 1] = Compare(Slaves[v][i], Head(q).speed, "internal")
      /\ E[n + 2] = ToDo("tell", v, Head(q).speed, Head(q).origin)
      /\ \A i \in 2..Len(q) : E[i + n + 1] = q[i]
  BY Expansion
<1>2. Head(q) = q[1] /\ Len(q) \in Nat \ {0} /\ v \in Vehicles
  BY HeadTailProperties, EmptySeq, JobFields
<1>n. n = Len(Slaves[v])
  OBVIOUS
<1> HIDE DEF n, E, v
<1>3. E[1].do = "store" /\ E[1].vehicle = v /\ E[1].speed = q[1].speed
  BY <1>1, <1>2 DEF ToDo
<1>4. E[n + 2].do = "tell" /\ E[n + 2].vehicle = v /\ E[n + 2].speed = q[1].speed
  BY <1>1, <1>2 DEF ToDo
<1>5. \A i \in 1..n : /\ E[i + 1].do = "compare" /\ E[i + 1].vehicle = Slaves[v][i]
                      /\ E[i + 1].speed = q[1].speed
  <2> TAKE i \in 1..n
  <2>1. E[i + 1] = Compare(Slaves[v][i], q[1].speed, "internal")
    BY <1>1, <1>2
  <2> QED
    BY <2>1 DEF Compare, ToDo
\* What was meant by a job of the list still is.
<1>6. ASSUME NEW i \in 1..Len(q), NEW k \in 1..Len(E), NEW u \in Vehicles,
             MeantAt(q, i, u), E[k].speed = q[i].speed, k <= i + n + 1
      PROVE  MeantAt(E, k, u)
  <2>1. PICK j \in (i + 1)..Len(q) :
          /\ q[j].vehicle = u
          /\ \/ q[j].do = "tell" /\ q[j].speed = q[i].speed
             \/ q[j].do = "compare" /\ q[j].speed = Stopped /\ q[i].speed = Stopped
    BY <1>6 DEF MeantAt
  <2>2. j + n + 1 \in (k + 1)..Len(E) /\ j \in 2..Len(q)
    BY <1>1, <1>2, <1>6
  <2>3. E[j + n + 1] = q[j]
    BY <1>1, <2>2
  <2> QED
    BY <1>6, <2>1, <2>2, <2>3 DEF MeantAt
<1>7. ASSUME NEW i \in 1..Len(E), E[i].do \in {"compare", "store"},
             NEW u \in Vehicles, E[i].vehicle \in Range(Slaves[u])
      PROVE  MeantAt(E, i, u)
  <2>1. CASE i = 1
    <3>1. 1 \in 1..Len(q) /\ q[1].do = "compare" /\ q[1].vehicle \in Range(Slaves[u])
      BY <1>2, <1>3, <1>7, <2>1 DEF v
    <3>2. MeantAt(q, 1, u)
      BY <3>1 DEF Meant
    <3>3. 1 <= 1 + n + 1
      BY <1>1
    <3> QED
      BY <1>3, <1>6, <2>1, <3>1, <3>2, <3>3
  <2>2. CASE i \in 2..(n + 1)
    <3>1. i - 1 \in 1..n /\ (i - 1) + 1 = i
      BY <1>1, <2>2
    <3>2. E[i].vehicle = Slaves[v][i - 1] /\ E[i].speed = q[1].speed
      BY <1>5, <3>1
    <3>3. E[i].vehicle \in Range(Slaves[v])
      BY <1>2, <1>n, <3>1, <3>2, RangeOf
    <3>4. u = v
      BY <1>2, <1>7, <3>3 DEF UnitsAlone
    <3>5. n + 2 \in (i + 1)..Len(E)
      BY <1>1, <1>2, <2>2
    <3> QED
      BY <1>4, <3>2, <3>4, <3>5 DEF MeantAt
  <2>3. CASE i = n + 2
    BY <1>4, <1>7, <2>3
  <2>4. CASE i \in (n + 3)..Len(E)
    <3>1. /\ i - n - 1 \in 2..Len(q) /\ i - n - 1 \in 1..Len(q)
          /\ (i - n - 1) + n + 1 = i /\ i <= (i - n - 1) + n + 1
      BY <1>1, <1>2, <2>4
    <3>2. E[i] = q[i - n - 1]
      BY <1>1, <3>1
    <3>3. MeantAt(q, i - n - 1, u)
      BY <1>7, <3>1, <3>2 DEF Meant
    <3> QED
      BY <1>6, <3>1, <3>2, <3>3
  <2> QED
    BY <1>1, <1>2, <2>1, <2>2, <2>3, <2>4
<1>8. Passes(E)
  <2>1. \A i \in 1..n : i + 1 \in 1..Len(E)
    BY <1>1, <1>2
  <2> QED
    BY <1>3, <1>5, <1>n, <2>1 DEF Passes
<1> QED
  BY <1>7, <1>8 DEF Meant, E

\* The lists with which calls begin: for units, or for all.
LEMMA BeginsPurposeful ==
  ASSUME UnitsAlone, CallTypes, NEW t \in Threads,
         \/ \E v \in Driven, s \in Speed : Call(t, v, s)
         \/ StopAll(t) \/ BoosterGo(t)
  PROVE  \E q : /\ todo[t] = <<>> /\ todo' = [todo EXCEPT ![t] = q]
                /\ Meant(q) /\ Passes(q)
                /\ UNCHANGED <<speed, crossed>>
<1>1. CASE \E v \in Driven, s \in Speed : Call(t, v, s)
  <2>1. PICK v \in Driven, s \in Speed : Call(t, v, s)
    BY <1>1
  <2> DEFINE c == Compare(v, s, "internal")
  <2>2. /\ todo[t] = <<>> /\ todo' = [todo EXCEPT ![t] = <<c>>]
        /\ UNCHANGED <<speed, crossed>>
    BY <2>1 DEF Call, Begin
  <2>3. c.do = "compare" /\ c.vehicle = v
    BY DEF Compare, ToDo
  <2> HIDE DEF c
  <2>4. Len(<<c>>) = 1 /\ <<c>>[1] = c
    OBVIOUS
  <2>5. Meant(<<c>>) /\ Passes(<<c>>)
    BY <2>3, <2>4 DEF Meant, Passes, UnitsAlone
  <2> QED
    BY <2>2, <2>5
<1>2. CASE StopAll(t)
  <2> DEFINE l == Locomotives \o Units
             q == [i \in DOMAIN l |-> Compare(l[i], Stopped, "internal")]
  <2>1. /\ todo[t] = <<>> /\ todo' = [todo EXCEPT ![t] = q]
        /\ UNCHANGED <<speed, crossed>>
    BY <1>2 DEF StopAll, Begin
  <2>2. Locomotives \in Seq(Vehicles) /\ Units \in Seq(Vehicles) /\ l \in Seq(Vehicles)
    BY Lists, SpeedTypes
  <2>3. /\ Len(Locomotives) \in Nat /\ Len(Units) \in Nat
        /\ Len(l) = Len(Locomotives) + Len(Units)
        /\ DOMAIN Locomotives = 1..Len(Locomotives) /\ DOMAIN Units = 1..Len(Units)
        /\ DOMAIN l = 1..Len(l)
        /\ \A i \in 1..Len(Locomotives) : l[i] = Locomotives[i]
        /\ \A i \in 1..Len(Units) : l[i + Len(Locomotives)] = Units[i]
    <3>1. /\ Len(Locomotives) \in Nat /\ Len(Units) \in Nat
          /\ DOMAIN Locomotives = 1..Len(Locomotives) /\ DOMAIN Units = 1..Len(Units)
          /\ DOMAIN l = 1..Len(l)
      BY <2>2, LenProperties
    <3>2. Len(l) = Len(Locomotives) + Len(Units)
      BY <2>2, ConcatProperties
    <3>3. ASSUME NEW i \in 1..Len(l)
          PROVE  l[i] = IF i <= Len(Locomotives) THEN Locomotives[i]
                                                 ELSE Units[i - Len(Locomotives)]
      BY <2>2, <3>3, ConcatProperties
    <3>4. \A i \in 1..Len(Locomotives) : l[i] = Locomotives[i]
      BY <3>1, <3>2, <3>3
    <3>5. ASSUME NEW i \in 1..Len(Units) PROVE l[i + Len(Locomotives)] = Units[i]
      <4>1. /\ i + Len(Locomotives) \in 1..Len(l) /\ ~(i + Len(Locomotives) <= Len(Locomotives))
            /\ (i + Len(Locomotives)) - Len(Locomotives) = i
        BY <3>1, <3>2
      <4> QED
        BY <3>3, <4>1
    <3> QED
      BY <3>1, <3>2, <3>4, <3>5
  <2>4. q \in Seq(Jobs) /\ Len(q) = Len(l)
    BY <2>2, SpeedTypes, ForEach
  <2>5. \A i \in 1..Len(l) : /\ q[i].do = "compare" /\ q[i].vehicle = l[i]
                             /\ q[i].speed = Stopped
    BY <2>3 DEF Compare, ToDo
  <2> HIDE DEF q, l
  <2>6. ASSUME NEW i \in 1..Len(q), NEW u \in Vehicles, q[i].vehicle \in Range(Slaves[u])
        PROVE  MeantAt(q, i, u)
    <3>1. u \in Range(Units)
      <4>1. Slaves[u] # <<>>
        BY <2>6 DEF Range
      <4> QED
        BY <4>1, UnitsOfLocos DEF Vehicles
    <3>2. q[i].vehicle \in Range(Locomotives)
      BY <2>6, <3>1, UnitsOfLocos
    <3>3. i <= Len(Locomotives)
      <4>1. SUFFICES ASSUME ~(i <= Len(Locomotives)) PROVE FALSE
        OBVIOUS
      <4>2. /\ i - Len(Locomotives) \in 1..Len(Units)
            /\ (i - Len(Locomotives)) + Len(Locomotives) = i
        BY <2>3, <2>4, <4>1
      <4>3. q[i].vehicle = Units[i - Len(Locomotives)]
        BY <2>3, <2>4, <2>5, <4>2
      <4>4. q[i].vehicle \in Range(Units)
        BY <2>3, <4>2, <4>3 DEF Range
      <4> QED
        BY <3>2, <4>4 DEF UnitsAlone
    <3>4. PICK j \in 1..Len(Units) : u = Units[j]
      BY <2>3, <3>1 DEF Range
    <3>5. j + Len(Locomotives) \in (i + 1)..Len(q) /\ j + Len(Locomotives) \in 1..Len(l)
      BY <2>3, <2>4, <3>3
    <3>6. /\ q[j + Len(Locomotives)].vehicle = u /\ q[j + Len(Locomotives)].do = "compare"
          /\ q[j + Len(Locomotives)].speed = Stopped /\ q[i].speed = Stopped
      BY <2>3, <2>4, <2>5, <3>4, <3>5
    <3> QED
      BY <3>5, <3>6 DEF MeantAt
  <2>7. Passes(q)
    <3>1. q # <<>> => 1 \in 1..Len(l)
      BY <2>4, EmptySeq, LenProperties
    <3> QED
      BY <2>5, <3>1 DEF Passes
  <2> QED
    BY <2>1, <2>6, <2>7 DEF Meant
<1>3. CASE BoosterGo(t)
  <2> DEFINE q == [i \in DOMAIN Locomotives |->
                     [do |-> "announce", vehicle |-> Locomotives[i]]]
  <2>1. /\ todo[t] = <<>> /\ todo' = [todo EXCEPT ![t] = q]
        /\ UNCHANGED <<speed, crossed>>
    BY <1>3 DEF BoosterGo, Begin
  <2>2. q \in Seq(Jobs)
    BY SpeedTypes, ForEach
  <2>3. \A i \in DOMAIN q : q[i].do = "announce"
    OBVIOUS
  <2> HIDE DEF q
  <2>4. DOMAIN q = 1..Len(q) /\ (q # <<>> => 1 \in 1..Len(q))
    BY <2>2, LenProperties, EmptySeq
  <2>5. Meant(q) /\ Passes(q)
    BY <2>3, <2>4 DEF Meant, Passes
  <2> QED
    BY <2>1, <2>5
<1> QED
  BY <1>1, <1>2, <1>3

\* A turn of a knob begins a list of one.
LEMMA KnobPurposeful ==
  ASSUME UnitsAlone, CallTypes, NEW v \in Driven, NEW s \in Speed, TurnKnob(v, s)
  PROVE  \E q : /\ todo[Station] = <<>> /\ todo' = [todo EXCEPT ![Station] = q]
                /\ Meant(q) /\ Passes(q)
                /\ UNCHANGED <<speed, crossed>>
<1> DEFINE c == Compare(v, s, "hardware")
<1>1. /\ todo[Station] = <<>> /\ todo' = [todo EXCEPT ![Station] = <<c>>]
      /\ UNCHANGED <<speed, crossed>>
  BY DEF TurnKnob, Begin
<1>2. c.do = "compare" /\ c.vehicle = v
  BY DEF Compare, ToDo
<1> HIDE DEF c
<1>3. Len(<<c>>) = 1 /\ <<c>>[1] = c
  OBVIOUS
<1>4. Meant(<<c>>) /\ Passes(<<c>>)
  BY <1>2, <1>3 DEF Meant, Passes, UnitsAlone
<1> QED
  BY <1>1, <1>4

LEMMA PurposefulInit == Init => Purposeful
<1> SUFFICES ASSUME Init, NEW t \in Threads PROVE Meant(todo[t]) /\ Passes(todo[t])
  BY DEF Purposeful
<1>1. todo[t] = <<>> /\ Len(todo[t]) = 0
  BY DEF Init
<1> QED
  BY <1>1 DEF Meant, Passes

LEMMA PurposefulKept ==
  UnitsAlone /\ TypeOK /\ Shapes /\ Purposeful /\ [Next]_vars => Purposeful'
<1> SUFFICES ASSUME UnitsAlone, TypeOK, Shapes, Purposeful, [Next]_vars PROVE Purposeful'
  OBVIOUS
<1>0. CallTypes /\ LogTypes /\ PageTypes
  BY TypeParts
<1>1. ASSUME NEW t \in Threads, NEW q, todo' = [todo EXCEPT ![t] = q], Meant(q), Passes(q)
      PROVE  Purposeful'
  <2> SUFFICES ASSUME NEW u \in Threads PROVE Meant(todo'[u]) /\ Passes(todo'[u])
    BY DEF Purposeful
  <2>1. todo'[u] = IF u = t THEN q ELSE todo[u]
    BY <1>0, <1>1 DEF CallTypes
  <2> QED
    BY <1>1, <2>1 DEF Purposeful
<1>2. ASSUME NEW t \in Threads, CallStep(t) PROVE Purposeful'
  <2>1. /\ todo[t] # <<>> /\ todo[t] \in Seq(Jobs) /\ Shape(t, todo[t])
        /\ Meant(todo[t]) /\ Job(t) = Head(todo[t])
    BY <1>0, <1>2, ListMoves DEF CallTypes, Shapes, Purposeful, Job
  <2>2. CASE todo' = [todo EXCEPT ![t] = Tail(todo[t])]
    <3>1. Meant(Tail(todo[t]))
      BY <2>1, MeantTail
    <3>2. Passes(Tail(todo[t]))
      <4>1. Tail(todo[t]) # <<>> => 1 \in 1..Len(Tail(todo[t]))
        BY <2>1, HeadTailProperties, EmptySeq, LenProperties
      <4>2. \A i \in 1..Len(Tail(todo[t])) : Tail(todo[t])[i].do # "store"
        BY <2>1, TailShape
      <4> QED
        BY <4>1, <4>2 DEF Passes
    <3> QED
      BY <1>1, <2>2, <3>1, <3>2
  <2>3. CASE Job(t).do = "compare" /\ todo' = [todo EXCEPT ![t] = Expanded(todo[t])]
    BY <1>1, <2>1, <2>3, MeantExpanded
  <2> QED
    BY <1>0, <1>2, <2>2, <2>3, ListMoves
<1>3. ASSUME NEW t \in Threads,
             \/ \E v \in Driven, s \in Speed : Call(t, v, s)
             \/ StopAll(t) \/ BoosterGo(t)
      PROVE  Purposeful'
  BY <1>0, <1>1, <1>3, BeginsPurposeful
<1>4. ASSUME NEW v \in Driven, NEW s \in Speed, TurnKnob(v, s) PROVE Purposeful'
  BY <1>0, <1>1, <1>4, KnobPurposeful DEF Threads
<1>5. ASSUME NEW b \in Browsers, PageStep(b) PROVE Purposeful'
  BY <1>0, <1>5, PageTyped DEF speedVars, Purposeful
<1>6. CASE UNCHANGED vars
  BY <1>6 DEF vars, speedVars, Purposeful
<1> QED
  BY <1>2, <1>3, <1>4, <1>5, <1>6 DEF Next, Threads

(***************************************************************************)
(* A unit and its slave that differ are about to be brought together: the    *)
(* slave by a call at the unit's speed, the unit by a stop of all or by a    *)
(* store, which the slave's call follows.                                    *)
(***************************************************************************)
FollowsSlave(q, u, a) ==
  \E i \in 1..Len(q) : /\ q[i].do \in {"compare", "store"}
                       /\ q[i].vehicle = a /\ q[i].speed = speed[u]

FollowsUnit(q, u, a) ==
  \E i \in 1..Len(q) : /\ q[i].do = "compare" /\ q[i].vehicle = u
                       /\ q[i].speed = Stopped /\ speed[a] = Stopped

Follows(q, u, a) ==
  FollowsSlave(q, u, a) \/ FollowsUnit(q, u, a) \/ (q # <<>> /\ ToStore(q, u))

Together(u, a) ==
  \/ crossed[u] \/ crossed[a] \/ speed[a] = speed[u]
  \/ \E t \in Threads : Follows(todo[t], u, a)

AllTogether == \A u \in Vehicles : \A a \in Range(Slaves[u]) : Together(u, a)

\* A job that is done with can be missed: it was for another vehicle, or no
\* call, or for a speed the vehicle has already.
LEMMA FollowsTail ==
  ASSUME NEW q \in Seq(Jobs), q # <<>>, NEW u, NEW a, Follows(q, u, a),
         \/ q[1].vehicle \notin {u, a}
         \/ q[1].do \in {"tell", "announce"}
         \/ q[1].do = "compare" /\ speed[q[1].vehicle] = q[1].speed
  PROVE  Follows(Tail(q), u, a) \/ speed[a] = speed[u]
<1> DEFINE r == Tail(q)
<1>1. \A i \in 2..Len(q) : i - 1 \in 1..Len(r) /\ r[i - 1] = q[i]
  BY HeadTailProperties, EmptySeq
<1> HIDE DEF r
<1>2. CASE FollowsSlave(q, u, a)
  <2>1. PICK i \in 1..Len(q) : /\ q[i].do \in {"compare", "store"}
                               /\ q[i].vehicle = a /\ q[i].speed = speed[u]
    BY <1>2 DEF FollowsSlave
  <2>2. CASE i = 1
    BY <2>1, <2>2
  <2>3. CASE i # 1
    <3>1. i \in 2..Len(q)
      BY <2>3
    <3> QED
      BY <1>1, <2>1, <3>1 DEF Follows, FollowsSlave, r
  <2> QED
    BY <2>2, <2>3
<1>3. CASE FollowsUnit(q, u, a)
  <2>1. PICK i \in 1..Len(q) : /\ q[i].do = "compare" /\ q[i].vehicle = u
                               /\ q[i].speed = Stopped /\ speed[a] = Stopped
    BY <1>3 DEF FollowsUnit
  <2>2. CASE i = 1
    BY <2>1, <2>2
  <2>3. CASE i # 1
    <3>1. i \in 2..Len(q)
      BY <2>3
    <3> QED
      BY <1>1, <2>1, <3>1 DEF Follows, FollowsUnit, r
  <2> QED
    BY <2>2, <2>3
<1>4. ~ToStore(q, u)
  BY DEF ToStore
<1> QED
  BY <1>2, <1>3, <1>4 DEF Follows

LEMMA FollowsExpanded ==
  ASSUME NEW q \in Seq(Jobs), q # <<>>, Head(q).do = "compare",
         NEW u, NEW a, Follows(q, u, a)
  PROVE  Follows(Expanded(q), u, a)
<1> DEFINE n == Len(Slaves[Head(q).vehicle])
           E == Expanded(q)
           v == Head(q).vehicle
<1>1. /\ n \in Nat /\ E \in Seq(Jobs) /\ Len(E) = Len(q) + n + 1
      /\ E[1] = ToDo("store", v, Head(q).speed, Head(q).origin)
      /\ \A i \in 2..Len(q) : E[i + n + 1] = q[i]
  BY Expansion
<1>2. Head(q) = q[1] /\ Len(q) \in Nat \ {0}
  BY HeadTailProperties, EmptySeq
<1> HIDE DEF n, E
<1>3. /\ E[1].do = "store" /\ E[1].vehicle = q[1].vehicle /\ E[1].speed = q[1].speed
      /\ 1 \in 1..Len(E) /\ E # <<>>
  BY <1>1, <1>2, EmptySeq DEF ToDo
<1>4. \A i \in 1..Len(q) : i = 1 \/ (i + n + 1 \in 1..Len(E) /\ E[i + n + 1] = q[i])
  BY <1>1, <1>2
<1>5. CASE FollowsSlave(q, u, a)
  <2>1. PICK i \in 1..Len(q) : /\ q[i].do \in {"compare", "store"}
                               /\ q[i].vehicle = a /\ q[i].speed = speed[u]
    BY <1>5 DEF FollowsSlave
  <2>2. FollowsSlave(E, u, a)
    BY <1>3, <1>4, <2>1 DEF FollowsSlave
  <2> QED
    BY <2>2 DEF Follows, E
<1>6. CASE FollowsUnit(q, u, a)
  <2>1. PICK i \in 1..Len(q) : /\ q[i].do = "compare" /\ q[i].vehicle = u
                               /\ q[i].speed = Stopped /\ speed[a] = Stopped
    BY <1>6 DEF FollowsUnit
  <2>2. ToStore(E, u) \/ FollowsUnit(E, u, a)
    BY <1>3, <1>4, <2>1 DEF FollowsUnit, ToStore
  <2> QED
    BY <1>3, <2>2 DEF Follows, E
<1>7. ~ToStore(q, u)
  BY <1>2 DEF ToStore
<1> QED
  BY <1>5, <1>6, <1>7 DEF Follows

\* One list is changed, no speed.
LEMMA TogetherMoves ==
  ASSUME CallTypes, NEW t \in Threads, NEW q, todo' = [todo EXCEPT ![t] = q],
         UNCHANGED <<speed, crossed>>, NEW u, NEW a, Together(u, a),
         Follows(todo[t], u, a) => Follows(q, u, a) \/ speed[a] = speed[u]
  PROVE  Together(u, a)'
<1>1. \A m \in Threads : todo'[m] = IF m = t THEN q ELSE todo[m]
  BY DEF CallTypes
<1>2. \A m \in Threads : Follows(todo[m], u, a)' <=> Follows(todo'[m], u, a)
  BY DEF Follows, FollowsSlave, FollowsUnit, ToStore
<1> QED
  BY <1>1, <1>2 DEF Together

LEMMA TogetherStored ==
  ASSUME CallTypes, Shapes, Rights, Purposeful, NEW t \in Threads, StoreSpeed(t),
         NEW u \in Vehicles, NEW a \in Range(Slaves[u]), Together(u, a)
  PROVE  Together(u, a)'
<1>1. /\ todo[t] # <<>> /\ todo[t] \in Seq(Jobs) /\ Job(t) = todo[t][1]
      /\ Job(t) \in Jobs /\ Job(t).do = "store" /\ Len(todo[t]) \in Nat \ {0}
  BY JobTyped DEF StoreSpeed
<1>2. PICK w \in Vehicles, s \in Speed : w = todo[t][1].vehicle /\ s = todo[t][1].speed
  BY <1>1, JobFields
<1>3. /\ todo' = [todo EXCEPT ![t] = Tail(todo[t])] /\ speed' = [speed EXCEPT ![w] = s]
      /\ \A v \in Vehicles \ {w} : crossed'[v] = crossed[v]
  BY <1>1, <1>2 DEF StoreSpeed, Done, CallTypes
<1>4. PICK r \in Seq(Jobs) :
        /\ r = Tail(todo[t]) /\ todo'[t] = r
        /\ \A i \in 2..Len(todo[t]) : i - 1 \in 1..Len(r) /\ r[i - 1] = todo[t][i]
  <2>1. Tail(todo[t]) \in Seq(Jobs) /\ Len(Tail(todo[t])) = Len(todo[t]) - 1
        /\ \A i \in 1..Len(Tail(todo[t])) : Tail(todo[t])[i] = todo[t][i + 1]
    BY <1>1, HeadTailProperties
  <2>2. todo'[t] = Tail(todo[t])
    BY <1>3 DEF CallTypes
  <2>3. \A i \in 2..Len(todo[t]) : /\ i - 1 \in 1..Len(Tail(todo[t]))
                                   /\ Tail(todo[t])[i - 1] = todo[t][i]
    BY <1>1, <2>1
  <2> QED
    BY <2>1, <2>2, <2>3
<1>5. \A m \in Threads \ {t} : todo'[m] = todo[m]
  BY <1>3 DEF CallTypes
<1>6. a \in Vehicles /\ a # u
  BY SlaveApart
<1>7. Meant(todo[t]) /\ Passes(todo[t]) /\ 1 \in 1..Len(todo[t])
  BY <1>1 DEF Purposeful
<1>8. CASE w = u
  <2>1. PICK i \in 1..Len(Slaves[u]) : a = Slaves[u][i]
    BY RangeOf
  <2>2. /\ i + 1 \in 2..Len(todo[t]) /\ todo[t][i + 1].do = "compare"
        /\ todo[t][i + 1].vehicle = a /\ todo[t][i + 1].speed = s
    BY <1>1, <1>2, <1>7, <1>8, <2>1 DEF Passes
  <2>3. (i + 1) - 1 \in 1..Len(r) /\ r[(i + 1) - 1] = todo[t][i + 1]
    BY <1>4, <2>2
  <2>4. speed'[u] = s
    BY <1>3, <1>8 DEF CallTypes
  <2>5. FollowsSlave(todo[t], u, a)'
    BY <1>4, <2>2, <2>3, <2>4 DEF FollowsSlave
  <2> QED
    BY <2>5 DEF Together, Follows
<1>9. CASE w = a
  <2>1. /\ speed'[a] = s /\ speed'[u] = speed[u] /\ crossed'[u] = crossed[u]
    BY <1>3, <1>6, <1>9 DEF CallTypes
  <2>2. MeantAt(todo[t], 1, u)
    BY <1>1, <1>2, <1>7, <1>9 DEF Meant
  <2>3. PICK k \in 2..Len(todo[t]) :
          /\ todo[t][k].vehicle = u
          /\ \/ todo[t][k].do = "tell" /\ todo[t][k].speed = s
             \/ todo[t][k].do = "compare" /\ todo[t][k].speed = Stopped /\ s = Stopped
    BY <1>2, <2>2 DEF MeantAt
  <2>4. CASE todo[t][k].do = "tell" /\ todo[t][k].speed = s
    <3>1. k \in 1..Len(todo[t]) /\ ~ToStore(todo[t], u)
      BY <1>2, <1>6, <1>9 DEF ToStore
    <3>2. Told(todo[t][k])
      BY <2>3, <2>4, <3>1 DEF Rights, Right
    <3> QED
      BY <2>1, <2>3, <2>4, <3>2 DEF Told, Together
  <2>5. CASE todo[t][k].do = "compare" /\ todo[t][k].speed = Stopped /\ s = Stopped
    <3>1. FollowsUnit(todo[t], u, a)'
      BY <1>4, <2>1, <2>3, <2>5 DEF FollowsUnit
    <3> QED
      BY <3>1 DEF Together, Follows
  <2> QED
    BY <2>3, <2>4, <2>5
<1>10. CASE w \notin {u, a}
  <2>1. /\ speed'[u] = speed[u] /\ speed'[a] = speed[a]
        /\ crossed'[u] = crossed[u] /\ crossed'[a] = crossed[a]
    BY <1>3, <1>6, <1>10 DEF CallTypes
  <2>2. Follows(todo[t], u, a) => Follows(r, u, a) \/ speed[a] = speed[u]
    BY <1>1, <1>2, <1>4, <1>10, FollowsTail
  <2>3. \A m \in Threads : Follows(todo[m], u, a)' <=> Follows(todo'[m], u, a)
    BY <2>1 DEF Follows, FollowsSlave, FollowsUnit, ToStore
  <2> QED
    BY <1>4, <1>5, <2>1, <2>2, <2>3 DEF Together
<1> QED
  BY <1>8, <1>9, <1>10

LEMMA TogetherInit == Init => AllTogether
<1> SUFFICES ASSUME Init, NEW u \in Vehicles, NEW a \in Range(Slaves[u])
             PROVE  speed[a] = speed[u]
  BY DEF AllTogether, Together
<1>1. a \in Vehicles
  BY SlaveApart
<1> QED
  BY <1>1 DEF Init

LEMMA TogetherKept ==
  UnitsAlone /\ TypeOK /\ Shapes /\ Rights /\ Purposeful /\ AllTogether /\ [Next]_vars
    => AllTogether'
<1> SUFFICES ASSUME UnitsAlone, TypeOK, Shapes, Rights, Purposeful, AllTogether,
                    [Next]_vars, NEW u \in Vehicles, NEW a \in Range(Slaves[u])
             PROVE  Together(u, a)'
  BY DEF AllTogether
<1>0. CallTypes /\ LogTypes /\ PageTypes /\ Together(u, a)
  BY TypeParts DEF AllTogether
<1>1. ASSUME NEW t \in Threads, CallStep(t) PROVE Together(u, a)'
  <2>1. /\ todo[t] # <<>> /\ todo[t] \in Seq(Jobs) /\ Job(t) = todo[t][1]
        /\ Job(t) = Head(todo[t]) /\ a \in Vehicles
    BY <1>0, <1>1, ListMoves, JobTyped, SlaveApart DEF Job
  <2>2. CASE CompareSpeed(t)
    <3>1. Head(todo[t]).do = "compare" /\ UNCHANGED <<speed, crossed>>
      BY <1>0, <2>1, <2>2, CompareStep
    <3>2. Follows(todo[t], u, a) => Follows(Expanded(todo[t]), u, a)
      BY <2>1, <3>1, FollowsExpanded
    <3>3. CASE todo' = [todo EXCEPT ![t] = Expanded(todo[t])]
      BY <1>0, <3>1, <3>2, <3>3, TogetherMoves
    <3>4. CASE /\ speed[Job(t).vehicle] = Job(t).speed
               /\ todo' = [todo EXCEPT ![t] = Tail(todo[t])]
      <4>1. Follows(todo[t], u, a) => Follows(Tail(todo[t]), u, a) \/ speed[a] = speed[u]
        BY <2>1, <3>1, <3>4, FollowsTail
      <4> QED
        BY <1>0, <3>1, <3>4, <4>1, TogetherMoves
    <3> QED
      BY <1>0, <2>2, <3>3, <3>4, CompareStep
  <2>3. CASE StoreSpeed(t)
    BY <1>0, <2>3, TogetherStored
  <2>4. CASE TellSpeed(t) \/ Announce(t)
    <3>1. /\ todo' = [todo EXCEPT ![t] = Tail(todo[t])] /\ UNCHANGED <<speed, crossed>>
          /\ todo[t][1].do \in {"tell", "announce"}
      BY <1>0, <2>1, <2>4 DEF TellSpeed, Announce, Done, CallTypes
    <3>2. Follows(todo[t], u, a) => Follows(Tail(todo[t]), u, a) \/ speed[a] = speed[u]
      BY <2>1, <3>1, FollowsTail
    <3> QED
      BY <1>0, <3>1, <3>2, TogetherMoves
  <2> QED
    BY <1>1, <2>2, <2>3, <2>4 DEF CallStep
<1>2. ASSUME NEW t \in Threads, NEW q, todo[t] = <<>>, todo' = [todo EXCEPT ![t] = q],
             UNCHANGED <<speed, crossed>>
      PROVE  Together(u, a)'
  <2>1. ~Follows(todo[t], u, a)
    BY <1>2 DEF Follows, FollowsSlave, FollowsUnit
  <2> QED
    BY <1>0, <1>2, <2>1, TogetherMoves
<1>3. ASSUME NEW t \in Threads,
             \/ \E v \in Driven, s \in Speed : Call(t, v, s)
             \/ StopAll(t) \/ BoosterGo(t)
      PROVE  Together(u, a)'
  BY <1>0, <1>2, <1>3, BeginsPurposeful
<1>4. ASSUME NEW v \in Driven, NEW s \in Speed, TurnKnob(v, s) PROVE Together(u, a)'
  BY <1>0, <1>2, <1>4, KnobPurposeful DEF Threads
<1>5. ASSUME UNCHANGED <<speed, todo, crossed>> PROVE Together(u, a)'
  BY <1>0, <1>5 DEF Together, Follows, FollowsSlave, FollowsUnit, ToStore
<1>6. ASSUME NEW b \in Browsers, PageStep(b) PROVE UNCHANGED <<speed, todo, crossed>>
  BY <1>0, <1>6, PageTyped DEF speedVars
<1>7. UNCHANGED vars => UNCHANGED <<speed, todo, crossed>>
  BY DEF vars, speedVars
<1> QED
  BY <1>1, <1>3, <1>4, <1>5, <1>6, <1>7 DEF Next, Threads

(***************************************************************************)
(* When all calls are over, the locomotives of a unit run at its speed,      *)
(* unless calls crossed (MultipleUnit::SetSpeed and                          *)
(* Manager::LocoBaseStopAllImmediately), for any units and any number of     *)
(* threads, as long as nobody drives a slave by itself.                      *)
(***************************************************************************)
THEOREM UnitsRunTogether == UnitsAlone => (Spec => []UnitTogether)
<1> DEFINE Inv == TypeOK /\ Shapes /\ Rights /\ Purposeful /\ AllTogether
<1> SUFFICES ASSUME UnitsAlone PROVE Spec => []UnitTogether
  OBVIOUS
<1>1. Init => Inv
  BY TypedInit, ShapesInit, RightsInit, PurposefulInit, TogetherInit
<1>2. Inv /\ [Next]_vars => Inv'
  BY TypedStep, ShapesKept, RightsKept, PurposefulKept, TogetherKept
<1>3. Inv => UnitTogether
  <2> SUFFICES ASSUME Inv, \A t \in Threads : todo[t] = <<>>,
                      NEW u \in Vehicles, NEW i \in DOMAIN Slaves[u]
               PROVE  \/ crossed[u] \/ crossed[Slaves[u][i]]
                      \/ speed[Slaves[u][i]] = speed[u]
    BY DEF UnitTogether
  <2>1. Slaves[u][i] \in Range(Slaves[u])
    BY DEF Range
  <2>2. Together(u, Slaves[u][i])
    BY <2>1 DEF AllTogether
  <2>3. \A t \in Threads, a \in Vehicles : ~Follows(todo[t], u, a)
    BY DEF Follows, FollowsSlave, FollowsUnit
  <2>4. Slaves[u][i] \in Vehicles
    BY <2>1, SlaveApart
  <2> QED
    BY <2>2, <2>3, <2>4 DEF Together
<1> QED
  BY <1>1, <1>2, <1>3, PTL DEF Spec

=============================================================================
