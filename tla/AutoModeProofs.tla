--------------------------- MODULE AutoModeProofs ---------------------------
(***************************************************************************)
(* Theorems about module AutoMode for every layout on which a feedback that  *)
(* a train has just passed is not awaited for one of its next two routes.    *)
(***************************************************************************)
EXTENDS AutoMode, SequenceTheorems, TLAPS

(***************************************************************************)
(* Hypotheses                                                                *)
(***************************************************************************)
\* A report compares with an id and uses it in one step; the module says what
\* goes wrong otherwise.
Undivided == "between" \notin Disturbances

\* What is left of a set of ids if nothing is to be found.
Apart(A, B) == A \cap B \subseteq {None}

Follows(s, r) == FromTrack[s] = ToTrack[r]

\* A feedback a train has passed is not the one its next route, or the route
\* after that, waits for.
FeedbacksApart ==
  /\ \A r \in Routes : Apart({Reduced[r]}, {Stop[r], Over[r]})
  /\ \A r, s \in Routes : Follows(s, r) =>
       /\ Apart({Reduced[r], Stop[r]}, {Stop[s], Over[s]})
       /\ Apart({Over[r]}, {Stop[s]})
       /\ Apart({Reduced[r]}, {Reduced[s]})
  /\ \A r, s, t \in Routes : Follows(s, r) /\ Follows(t, s) =>
       Apart({Stop[r], Over[r]}, {Reduced[t], Stop[t]})

(***************************************************************************)
(* The inductive invariant                                                   *)
(***************************************************************************)
\* The number of routes in every state.
StatesInv ==
  /\ tick # "look" => state \in {"GetFirst", "GetSecond"}
  /\ state = "GetFirst" => first = None
  /\ state = "GetSecond" => first # None /\ second = None
  /\ state = "Running" => second # None
  /\ state = "Stopping" => first # None
  /\ state \in {"Manual", "Off", "Terminated"} /\ first # None => client = "waits"
  /\ client = "waits" => state \in {"Manual", "Off", "Terminated", "Error"}
  /\ ErrorByRemoval

\* The ride: connected routes, of which the train has the last ones before it.
RideInv ==
  /\ first # None => FromTrack[first] = from
  /\ second # None => Follows(second, first)
  /\ \/ ahead = <<>>
     \/ first # None /\ second = None /\ ahead = <<first>>
     \/ second # None /\ ahead \in {<<second>>, <<first, second>>}

\* The last route whose end the train has passed.
LastInv ==
  /\ from = None => ahead = <<>> /\ last = None
  /\ Len(ahead) = Len(Active) /\ last # None => ToTrack[last] = from
  /\ Len(ahead) < Len(Active) => last = IF ahead = <<second>> THEN first
                                        ELSE IF second # None THEN second
                                        ELSE first

\* The ids LocationReached compares with are those of the routes; the ids of
\* the first of two routes may stay when both have ended.
IdsInv ==
  /\ second # None => /\ ids.first = Stop[first]
                      /\ ids.firstReduced = Reduced[first]
                      /\ ids.stop = Stop[second]
                      /\ ids.reduced = Reduced[second]
  /\ first # None /\ second = None => /\ ids.first = None
                                      /\ ids.firstReduced = None
                                      /\ ids.stop = Stop[first]
                                      /\ ids.reduced = Reduced[first]
  /\ first = None => ids.stop = None /\ ids.reduced = None
  /\ first = None /\ last # None =>
       Apart({ids.first, ids.firstReduced}, {Stop[last], Over[last]})
  /\ from = None => ids.first = None

\* A report that is under way is one of the last route or of the next one.
ReportInv ==
  /\ report.at # "none" => report.id # None
  /\ report.at # "none" /\ from # None =>
       \/ last # None /\ report.id \in {Stop[last], Over[last]}
       \/ ahead # <<>> /\ report.id = Reduced[Head(ahead)]
  /\ report.at = "reduce" => report.id = ids.reduced
  /\ report.at = "halt" => report.id = ids.stop

\* What a tick will find: ids of routes whose ends the train has passed, of the
\* first of two routes before those of the second.
QueueInv ==
  /\ \A i \in 1..Len(reached) : reached[i] # None
  /\ \A i \in 1..Len(reached) :
       /\ reached[i] = ids.stop => ahead = <<>>
       /\ reached[i] = ids.first => second # None /\ ahead # <<first, second>>
  /\ \A i, j \in 1..Len(reached) :
       i < j /\ reached[i] = ids.stop => reached[j] # ids.first
  /\ tick # "look" => \A i \in 1..Len(reached) : reached[i] = ids.stop

AutoInv == StatesInv /\ RideInv /\ LastInv /\ IdsInv /\ ReportInv /\ QueueInv

(***************************************************************************)
(* Data                                                                      *)
(***************************************************************************)
\* The two lists of routes a locomotive can have.
LEMMA Pair ==
  ASSUME NEW a \in Routes, NEW b \in Routes
  PROVE  Append(<<a>>, b) = <<a, b>>
<1>1. /\ <<a, b>> \in Seq(Routes) /\ Append(<<a>>, b) \in Seq(Routes)
      /\ Len(Append(<<a>>, b)) = 2
      /\ Append(<<a>>, b)[1] = a /\ Append(<<a>>, b)[2] = b
  OBVIOUS
<1>2. PICK s \in Seq(Routes), t \in Seq(Routes) :
        s = Append(<<a>>, b) /\ t = <<a, b>>
  BY <1>1
<1>3. Len(s) = Len(t) /\ \A i \in 1..Len(s) : s[i] = t[i]
  BY <1>1, <1>2
<1>4. s = t
  BY <1>3, SeqEqual
<1> QED BY <1>2, <1>4

\* What Tail leaves of a list.
LEMMA TailItems ==
  ASSUME NEW S, NEW s \in Seq(S), s # <<>>
  PROVE  /\ Head(s) = s[1] /\ 1 \in 1..Len(s)
         /\ Tail(s) \in Seq(S)
         /\ \A i \in 1..Len(Tail(s)) :
              i + 1 \in 1..Len(s) /\ Tail(s)[i] = s[i + 1]
OBVIOUS

\* What Append adds to it.
LEMMA AppendItems ==
  ASSUME NEW S, NEW s \in Seq(S), NEW x \in S
  PROVE  /\ Append(s, x) \in Seq(S) /\ Len(Append(s, x)) = Len(s) + 1
         /\ \A i \in 1..Len(Append(s, x)) :
              \/ i \in 1..Len(s) /\ Append(s, x)[i] = s[i]
              \/ i = Len(s) + 1 /\ Append(s, x)[i] = x
OBVIOUS

\* The feedbacks of a route.
LEMMA RouteFeedbacks ==
  ASSUME NEW r \in Routes
  PROVE  /\ Reduced[r] \in Maybe(Feedbacks) /\ Stop[r] \in Feedbacks
         /\ Over[r] \in Maybe(Feedbacks) /\ None \notin Feedbacks
         /\ FromTrack[r] \in Tracks /\ ToTrack[r] \in Tracks
         /\ Wait[r] \in Nat /\ r # None
<1>1. Stop[r] # None
  BY RouteTypes
<1>2. {Reduced[r], Stop[r], Over[r]} \ {None} \subseteq Feedbacks
  BY DEF Feedbacks
<1>3. None \notin Feedbacks
  BY DEF Feedbacks
<1>4. /\ FromTrack[r] \in Tracks /\ ToTrack[r] \in Tracks /\ Wait[r] \in Nat
      /\ r # None
  BY RouteTypes, KindsDiffer
<1> QED BY <1>1, <1>2, <1>3, <1>4 DEF Maybe

\* The ids are a function into the feedbacks, however they are written down.
LEMMA IdRecord ==
  ASSUME NEW f \in Maybe(Feedbacks), NEW fr \in Maybe(Feedbacks),
         NEW rd \in Maybe(Feedbacks), NEW st \in Maybe(Feedbacks),
         NEW ov \in Maybe(Feedbacks)
  PROVE  [first |-> f, firstReduced |-> fr, reduced |-> rd, stop |-> st,
          over |-> ov] \in [DOMAIN NoIds -> Maybe(Feedbacks)]
BY DEF NoIds

\* What the ids are when some of them are forgotten.
LEMMA IdsForgotten ==
  ASSUME ids \in [DOMAIN NoIds -> Maybe(Feedbacks)]
  PROVE  /\ [ids EXCEPT !.first = None, !.firstReduced = None]
              \in [DOMAIN NoIds -> Maybe(Feedbacks)]
         /\ [ids EXCEPT !.stop = None, !.reduced = None]
              \in [DOMAIN NoIds -> Maybe(Feedbacks)]
         /\ [NoIds EXCEPT !.firstReduced = ids.firstReduced]
              \in [DOMAIN NoIds -> Maybe(Feedbacks)]
         /\ {ids.first, ids.firstReduced, ids.reduced, ids.stop, ids.over}
              \subseteq Maybe(Feedbacks)
<1> DEFINE M == Maybe(Feedbacks)
<1>1. None \in M
  BY DEF Maybe
<1>2. DOMAIN NoIds = {"first", "firstReduced", "reduced", "stop", "over"}
  BY DEF NoIds
<1> HIDE DEF M
<1>3. ids \in [{"first", "firstReduced", "reduced", "stop", "over"} -> M]
  BY <1>2 DEF M
<1>4. ids.first \in M /\ ids.firstReduced \in M /\ ids.reduced \in M
      /\ ids.stop \in M /\ ids.over \in M
  BY <1>3
<1>5. NoIds \in [{"first", "firstReduced", "reduced", "stop", "over"} -> M]
  BY <1>1 DEF NoIds
<1>6. /\ [ids EXCEPT !.first = None, !.firstReduced = None]
           \in [{"first", "firstReduced", "reduced", "stop", "over"} -> M]
      /\ [ids EXCEPT !.stop = None, !.reduced = None]
           \in [{"first", "firstReduced", "reduced", "stop", "over"} -> M]
  BY <1>1, <1>3
<1>7. [NoIds EXCEPT !.firstReduced = ids.firstReduced]
        \in [{"first", "firstReduced", "reduced", "stop", "over"} -> M]
  BY <1>4, <1>5
<1> QED BY <1>2, <1>4, <1>6, <1>7 DEF M

\* What the train has before it are the last of its routes.
LEMMA AheadIsSuffix == TypeOK /\ RideInv => RouteAheadHeld
<1>1. ASSUME NEW a, NEW b
      PROVE  /\ IsSuffix(<<>>, <<>>)
             /\ IsSuffix(<<>>, <<a>>) /\ IsSuffix(<<a>>, <<a>>)
             /\ IsSuffix(<<>>, <<a, b>>) /\ IsSuffix(<<b>>, <<a, b>>)
             /\ IsSuffix(<<a, b>>, <<a, b>>)
  BY DEF IsSuffix, IsPrefix, Reverse
<1>2. TypeOK => (second # None => first # None)
  BY DEF TypeOK
<1> QED BY <1>1, <1>2 DEF RideInv, RouteAheadHeld, Active

\* A step that leaves routes and train alone.
LEMMA RideKept ==
  ASSUME RideInv, LastInv, IdsInv, UNCHANGED <<from, first, second, ids, ahead, last>>
  PROVE  RideInv' /\ LastInv' /\ IdsInv'
<1>1. RideInv'
  BY DEF RideInv
<1>2. LastInv'
  BY DEF LastInv, Active
<1>3. IdsInv'
  BY DEF IdsInv
<1> QED BY <1>1, <1>2, <1>3

\* A step that leaves routes, train and report alone.
LEMMA ReportKept ==
  ASSUME RideInv, LastInv, IdsInv, ReportInv,
         UNCHANGED <<from, first, second, ids, ahead, last, report>>
  PROVE  RideInv' /\ LastInv' /\ IdsInv' /\ ReportInv'
<1>1. RideInv' /\ LastInv' /\ IdsInv'
  BY RideKept
<1>2. ReportInv'
  BY DEF ReportInv
<1> QED BY <1>1, <1>2

\* A step that leaves the automode thread, its routes and the train alone.
LEMMA QueueKept ==
  ASSUME QueueInv,
         UNCHANGED <<first, second, ids, ahead, reached, tick>>
  PROVE  QueueInv'
BY DEF QueueInv

(***************************************************************************)
(* A tick that finds a feedback                                              *)
(***************************************************************************)
\* What a tick finds in the queue, it takes out.
LEMMA QueueTail ==
  ASSUME TypeOK, reached # <<>>, reached' = Tail(reached)
  PROVE  /\ Head(reached) = reached[1] /\ 1 \in 1..Len(reached)
         /\ reached' \in Seq(Maybe(Feedbacks))
         /\ \A i \in 1..Len(reached') :
              i + 1 \in 1..Len(reached) /\ reached'[i] = reached[i + 1]
<1>1. reached \in Seq(Maybe(Feedbacks))
  BY DEF TypeOK
<1> QED BY <1>1, TailItems

\* The first of two routes ends: its end is behind the train, the second route
\* becomes the first (FeedbackIdFirstReached).
LEMMA FirstEnds ==
  ASSUME TypeOK, AutoInv, TakeFeedback, Head(reached) = ids.first
  PROVE  TypeOK' /\ AutoInv'
<1>1. /\ reached # <<>> /\ tick = "look" /\ ThreadRuns
      /\ reached' = Tail(reached) /\ FeedbackIdFirstReached
      /\ UNCHANGED <<tick, request, follow, plan, report, client, ahead, spot, last>>
  BY DEF TakeFeedback, trainVars
<1>2. /\ Head(reached) = reached[1] /\ 1 \in 1..Len(reached)
      /\ reached' \in Seq(Maybe(Feedbacks))
      /\ \A i \in 1..Len(reached') :
           i + 1 \in 1..Len(reached) /\ reached'[i] = reached[i + 1]
  BY <1>1, QueueTail
<1>3. second # None /\ ahead # <<first, second>>
  BY <1>2 DEF AutoInv, QueueInv
<1>4. first \in Routes /\ second \in Routes /\ from \in Tracks
  BY <1>3 DEF TypeOK, Maybe
<1>5. Active = <<first, second>> /\ first # None /\ from # None
  BY <1>3, <1>4, KindsDiffer DEF Active
<1>6. /\ moving' = TRUE
      /\ from' = ToTrack[first] /\ first' = second /\ second' = None
      /\ state' = CASE state = "Running" -> "GetSecond"
                    [] state = "Stopping" -> "Stopping"
                    [] OTHER -> "Error"
      /\ ids' = [ids EXCEPT !.first = None, !.firstReduced = None]
      /\ delayed' = delayed /\ wait' = wait
  BY <1>1, <1>5 DEF FeedbackIdFirstReached, Shift
<1>7. \/ state = "Running" /\ state' = "GetSecond"
      \/ state = "Stopping" /\ state' = "Stopping"
      \/ client = "waits" /\ state' = "Error"
  <2>1. state \in States \ {"GetFirst", "GetSecond"}
    BY <1>3, <1>5 DEF TypeOK, AutoInv, StatesInv
  <2>2. state \in {"Running", "Stopping"} \/ client = "waits"
    BY <1>5, <2>1 DEF AutoInv, StatesInv, ErrorByRemoval, States
  <2>3. client = "waits" => state \notin {"Running", "Stopping"}
    BY DEF AutoInv, StatesInv
  <2> QED BY <1>6, <2>2, <2>3
<1>8. /\ ids'.first = None /\ ids'.firstReduced = None
      /\ ids'.stop = ids.stop /\ ids'.reduced = ids.reduced
      /\ ids' \in [DOMAIN NoIds -> Maybe(Feedbacks)]
  <2>1. ids \in [DOMAIN NoIds -> Maybe(Feedbacks)]
    BY DEF TypeOK
  <2> QED BY <1>6, <2>1, IdsForgotten DEF NoIds
<1>9. ToTrack[first] \in Tracks /\ second \in Maybe(Routes) /\ second # None
  BY <1>4, <1>5, RouteFeedbacks DEF Maybe
<1>10. TypeOK'
  <2>1. state' \in States
    BY <1>7 DEF States
  <2>2. from' \in Maybe(Tracks) /\ from' # None /\ None \in Maybe(Routes)
    BY <1>6, <1>9, KindsDiffer DEF Maybe
  <2> QED BY <1>1, <1>2, <1>6, <1>8, <1>9, <2>1, <2>2 DEF TypeOK
<1>11. StatesInv'
  BY <1>1, <1>3, <1>6, <1>7 DEF AutoInv, StatesInv, ErrorByRemoval
<1>12. ahead = <<>> \/ ahead = <<second>>
  BY <1>3 DEF AutoInv, RideInv
<1>13. RideInv'
  BY <1>1, <1>3, <1>6, <1>12 DEF AutoInv, RideInv, Follows
<1>14. /\ Active' = <<second>> /\ last # None
       /\ ahead = <<second>> => last = first
       /\ ahead = <<>> => last = second
  <2>1. Active' = <<second>>
    BY <1>3, <1>6 DEF Active
  <2>2. Len(ahead) < Len(Active) /\ <<second>> # <<>>
    BY <1>5, <1>12
  <2> QED BY <1>3, <1>4, <1>12, <2>1, <2>2, KindsDiffer DEF AutoInv, LastInv
<1>15. LastInv'
  <2>1. Len(<<second>>) = 1 /\ Len(<<>>) = 0
    OBVIOUS
  <2>2. ahead = <<>> => ahead # <<None>>
    OBVIOUS
  <2> QED BY <1>1, <1>3, <1>6, <1>9, <1>12, <1>14, <2>1, <2>2, KindsDiffer
       DEF LastInv
<1>16. IdsInv'
  BY <1>3, <1>5, <1>6, <1>8, <1>9, KindsDiffer DEF AutoInv, IdsInv
<1>17. ReportInv'
  BY <1>1, <1>5, <1>8 DEF AutoInv, ReportInv
<1>18. QueueInv'
  <2>1. \A i \in 1..Len(reached') : reached'[i] # None
    BY <1>2 DEF AutoInv, QueueInv
  <2>2. \A i \in 1..Len(reached') : reached'[i] = ids'.stop => ahead' = <<>>
    BY <1>1, <1>2, <1>8 DEF AutoInv, QueueInv
  <2> QED BY <1>1, <1>8, <2>1, <2>2 DEF QueueInv
<1> QED BY <1>10, <1>11, <1>13, <1>15, <1>16, <1>17, <1>18 DEF AutoInv

\* The last route ends: the train has nothing before it (FeedbackIdStopReached).
LEMMA LastEnds ==
  ASSUME TypeOK, AutoInv, Undivided, FeedbacksApart,
         TakeFeedback, Head(reached) # ids.first, Head(reached) = ids.stop
  PROVE  TypeOK' /\ AutoInv'
<1>1. /\ reached # <<>> /\ tick = "look" /\ ThreadRuns
      /\ reached' = Tail(reached) /\ FeedbackIdStopReached
      /\ UNCHANGED <<tick, request, follow, plan, report, client, ahead, spot, last>>
  BY DEF TakeFeedback, trainVars
<1>2. /\ Head(reached) = reached[1] /\ 1 \in 1..Len(reached)
      /\ reached' \in Seq(Maybe(Feedbacks))
      /\ \A i \in 1..Len(reached') :
           i + 1 \in 1..Len(reached) /\ reached'[i] = reached[i + 1]
  BY <1>1, QueueTail
<1>3. ids.stop # None /\ ahead = <<>>
  BY <1>2 DEF AutoInv, QueueInv
<1>4. /\ first \in Routes /\ second \in Maybe(Routes) /\ from \in Tracks
      /\ first # None /\ from # None
  BY <1>3 DEF AutoInv, IdsInv, TypeOK, Maybe
<1> DEFINE r == IF second = None THEN first ELSE second
<1>5. /\ r \in Routes /\ Len(Active) \in 1..2 /\ Active[Len(Active)] = r
      /\ Len(ahead) < Len(Active)
  <2>1. CASE second = None
    <3>1. Active = <<first>>
      BY <1>4, <2>1 DEF Active
    <3> QED BY <1>3, <1>4, <2>1, <3>1
  <2>2. CASE second # None
    <3>1. Active = <<first, second>> /\ second \in Routes
      BY <1>4, <2>2 DEF Active, Maybe
    <3> QED BY <1>3, <1>4, <2>2, <3>1
  <2> QED BY <2>1, <2>2
<1>6. last = r
  BY <1>3, <1>4, <1>5, KindsDiffer DEF AutoInv, LastInv, Maybe
<1>7. /\ from' = ToTrack[r] /\ first' = None /\ second' = None
      /\ state' = CASE state \in {"Running", "GetSecond"} -> "GetFirst"
                    [] state = "Stopping" -> "Off"
                    [] OTHER -> "Error"
      /\ ids' = [ids EXCEPT !.stop = None, !.reduced = None]
      /\ moving' = moving /\ delayed' = delayed /\ wait' = wait
  <2>1. /\ Shift(Len(Active))
        /\ state' = CASE state \in {"Running", "GetSecond"} -> "GetFirst"
                      [] state = "Stopping" -> "Off"
                      [] OTHER -> "Error"
        /\ ids' = [ids EXCEPT !.stop = None, !.reduced = None]
        /\ moving' = moving /\ delayed' = delayed /\ wait' = wait
    BY <1>1, <1>4 DEF FeedbackIdStopReached
  <2>2. Len(Active) = 1 => second = None
    BY <1>4 DEF Active
  <2> QED BY <1>5, <2>1, <2>2 DEF Shift
<1>8. \/ state' \in {"GetFirst", "Off"} /\ client # "waits"
      \/ client = "waits" /\ state' = "Error"
  <2>1. state \in States \ {"GetFirst"}
    BY <1>4 DEF TypeOK, AutoInv, StatesInv
  <2>2. state \in {"Running", "GetSecond", "Stopping"} \/ client = "waits"
    BY <1>4, <2>1 DEF AutoInv, StatesInv, ErrorByRemoval, States
  <2>3. client = "waits" => state \notin {"Running", "GetSecond", "Stopping"}
    BY DEF AutoInv, StatesInv
  <2> QED BY <1>7, <2>2, <2>3
<1>9. /\ ids'.stop = None /\ ids'.reduced = None
      /\ ids'.first = ids.first /\ ids'.firstReduced = ids.firstReduced
      /\ ids' \in [DOMAIN NoIds -> Maybe(Feedbacks)]
  <2>1. ids \in [DOMAIN NoIds -> Maybe(Feedbacks)]
    BY DEF TypeOK
  <2> QED BY <1>7, <2>1, IdsForgotten DEF NoIds
<1>10. ToTrack[r] \in Tracks /\ ToTrack[r] # None
  BY <1>5, RouteFeedbacks, KindsDiffer
<1> HIDE DEF r
<1>11. TypeOK'
  <2>1. state' \in States
    BY <1>8 DEF States
  <2>2. from' \in Maybe(Tracks) /\ from' # None /\ None \in Maybe(Routes)
    BY <1>7, <1>10 DEF Maybe
  <2> QED BY <1>1, <1>2, <1>7, <1>9, <2>1, <2>2 DEF TypeOK
<1>12. StatesInv'
  BY <1>1, <1>7, <1>8 DEF AutoInv, StatesInv, ErrorByRemoval
<1>13. RideInv'
  BY <1>1, <1>3, <1>7 DEF RideInv
<1>14. LastInv'
  <2>1. Active' = <<>> /\ Len(<<>>) = 0
    BY <1>7 DEF Active
  <2>2. from' # None
    BY <1>7, <1>10
  <2> QED BY <1>1, <1>3, <1>6, <1>7, <2>1, <2>2 DEF LastInv
<1>15. Apart({ids.first, ids.firstReduced}, {Stop[r], Over[r]})
  <2>1. CASE second = None
    BY <1>4, <2>1 DEF AutoInv, IdsInv, Apart
  <2>2. CASE second # None
    <3>1. /\ second \in Routes /\ r = second /\ Follows(second, first)
          /\ ids.first = Stop[first] /\ ids.firstReduced = Reduced[first]
      BY <1>4, <2>2 DEF AutoInv, IdsInv, RideInv, Maybe, r
    <3>2. Apart({Reduced[first], Stop[first]}, {Stop[second], Over[second]})
      BY <1>4, <3>1 DEF FeedbacksApart
    <3> QED BY <3>1, <3>2 DEF Apart
  <2> QED BY <2>1, <2>2
<1>16. IdsInv'
  <2>1. from' # None
    BY <1>7, <1>10
  <2> QED BY <1>1, <1>6, <1>7, <1>9, <1>15, <2>1 DEF IdsInv, Apart
<1>17. ReportInv'
  <2>1. report' = report /\ ahead' = ahead /\ last' = last /\ from # None
    BY <1>1, <1>4
  <2>2. report.at \notin {"reduce", "halt"}
    BY DEF TakeFeedback, MayChangeIds, Between, Undivided
  <2> QED BY <2>1, <2>2 DEF AutoInv, ReportInv
<1>18. QueueInv'
  <2>1. \A i \in 1..Len(reached') : reached'[i] # None
    BY <1>2 DEF AutoInv, QueueInv
  <2>2. ASSUME NEW i \in 1..Len(reached'), reached'[i] = ids.first PROVE FALSE
    <3>1. 1 < i + 1 /\ reached[1] = ids.stop /\ reached[i + 1] = ids.first
      BY <1>2, <2>2
    <3> QED BY <1>2, <3>1 DEF AutoInv, QueueInv
  <2> QED BY <1>1, <1>3, <1>9, <2>1, <2>2 DEF QueueInv
<1> QED BY <1>11, <1>12, <1>13, <1>14, <1>16, <1>17, <1>18 DEF AutoInv

\* What belongs to no route before the train is forgotten.
LEMMA NothingEnds ==
  ASSUME TypeOK, AutoInv, TakeFeedback,
         Head(reached) # ids.first, Head(reached) # ids.stop
  PROVE  TypeOK' /\ AutoInv'
<1>1. /\ reached # <<>> /\ tick = "look" /\ reached' = Tail(reached)
      /\ UNCHANGED <<state, tick, request, from, first, second, ids, delayed, wait,
                     follow, plan, report, client, moving, ahead, spot, last>>
  BY DEF TakeFeedback, trainVars, routeVars
<1>2. /\ reached' \in Seq(Maybe(Feedbacks))
      /\ \A i \in 1..Len(reached') :
           i + 1 \in 1..Len(reached) /\ reached'[i] = reached[i + 1]
  BY <1>1, QueueTail
<1>3. TypeOK'
  BY <1>1, <1>2 DEF TypeOK
<1>4. StatesInv'
  BY <1>1 DEF AutoInv, StatesInv, ErrorByRemoval
<1>5. RideInv' /\ LastInv' /\ IdsInv' /\ ReportInv'
  BY <1>1, ReportKept DEF AutoInv
<1>6. QueueInv'
  <2>1. \A i, j \in 1..Len(reached') : i < j => i + 1 < j + 1
    OBVIOUS
  <2> QED BY <1>1, <1>2, <2>1 DEF AutoInv, QueueInv
<1> QED BY <1>3, <1>4, <1>5, <1>6 DEF AutoInv

(***************************************************************************)
(* A tick that acts on the state, and the next destination                   *)
(***************************************************************************)
\* A tick with an empty queue moves between states that have as many routes.
LEMMA StateActs ==
  ASSUME TypeOK, AutoInv, ActOnState
  PROVE  TypeOK' /\ AutoInv'
<1>1. /\ tick = "look" /\ reached = <<>> /\ reached' = reached
      /\ UNCHANGED <<from, first, second, ids, delayed, follow, plan, report, client,
                     ahead, spot, last>>
  BY DEF ActOnState, trainVars
<1>2. TurnOff \/ LeaveFirst \/ WaitFirst \/ BeginFirst
        \/ BeginSecond \/ ObeyRequest \/ Continue \/ Idle \/ InError
  BY DEF ActOnState
<1>3. /\ state' \in States /\ request' \in BOOLEAN /\ moving' \in BOOLEAN
      /\ tick' \in {"look", "search"} /\ wait' \in Nat
  <2>1. /\ state \in States /\ request \in BOOLEAN /\ moving \in BOOLEAN
        /\ wait \in Nat
    BY DEF TypeOK
  <2>2. CASE WaitFirst
    BY <1>1, <2>1, <2>2 DEF WaitFirst
  <2>3. CASE Continue
    BY <1>1, <2>1, <2>3 DEF Continue, States
  <2>4. CASE InError
    BY <1>1, <2>1, <2>4 DEF InError, States
  <2>5. CASE BeginFirst \/ BeginSecond \/ Idle
    BY <1>1, <2>1, <2>5 DEF BeginFirst, BeginSecond, Idle, States
  <2>6. CASE LeaveFirst \/ ObeyRequest
    BY <1>1, <2>1, <2>6 DEF LeaveFirst, ObeyRequest, States
  <2>7. CASE TurnOff
    <3>1. request' \in BOOLEAN
      BY <2>7 DEF TurnOff
    <3> QED BY <1>1, <2>1, <2>7, <3>1 DEF TurnOff, States
  <2> QED BY <1>2, <2>2, <2>3, <2>4, <2>5, <2>6, <2>7
<1>4. TypeOK'
  BY <1>1, <1>3 DEF TypeOK
<1>5. StatesInv'
  <2>1. second # None => first # None
    BY DEF TypeOK
  <2>2. CASE tick' # "look"
    BY <1>1, <1>2, <2>1, <2>2
       DEF TurnOff, LeaveFirst, WaitFirst, BeginFirst, BeginSecond, ObeyRequest,
           Continue, Idle, InError, AutoInv, StatesInv, ErrorByRemoval
  <2>3. CASE tick' = "look"
    BY <1>1, <1>2, <2>1, <2>3
       DEF TurnOff, LeaveFirst, WaitFirst, BeginFirst, BeginSecond, ObeyRequest,
           Continue, Idle, InError, AutoInv, StatesInv, ErrorByRemoval
  <2> QED BY <2>2, <2>3
<1>6. RideInv' /\ LastInv' /\ IdsInv' /\ ReportInv'
  BY <1>1, ReportKept DEF AutoInv
<1>7. QueueInv'
  <2>1. Len(reached') = 0
    BY <1>1
  <2> QED BY <2>1 DEF QueueInv
<1> QED BY <1>4, <1>5, <1>6, <1>7 DEF AutoInv

\* The search for a route adds it to the timetable.
LEMMA RoutePlanned ==
  ASSUME TypeOK, AutoInv, PlanDestination
  PROVE  TypeOK' /\ AutoInv'
<1>1. /\ tick = "search" /\ tick' \in {"look", "serve"}
      /\ UNCHANGED <<state, from, first, second, ids, delayed, wait, follow,
                     reached, report, client, moving, ahead, spot, last>>
  BY DEF PlanDestination, routeVars, trainVars
<1>2. plan' \in Seq(Entries) /\ Len(plan') <= MaxPlan + 1 /\ request' \in BOOLEAN
  <2>1. plan \in Seq(Entries) /\ Len(plan) <= MaxPlan + 1 /\ request \in BOOLEAN
    BY DEF TypeOK
  <2>2. CASE UNCHANGED plan
    BY <2>1, <2>2 DEF PlanDestination, Timetabled
  <2>3. CASE plan = <<>> /\ \E r \in Routes : Timetabled(r, FollowUp[r])
    <3>1. PICK r \in Routes : Timetabled(r, FollowUp[r])
      BY <2>3
    <3>2. PICK e \in Entries : e = [route |-> r, after |-> FollowUp[r]]
      BY RouteTypes DEF Entries
    <3>3. plan' = Append(plan, e) /\ request' = FALSE /\ Len(plan) = 0
      BY <2>3, <3>1, <3>2 DEF Timetabled
    <3>4. plan' \in Seq(Entries) /\ Len(plan') = 1
      BY <2>1, <3>2, <3>3, AppendItems
    <3>5. request' \in BOOLEAN
      BY <3>3
    <3> QED BY <3>4, <3>5, Bounds
  <2> QED BY <2>2, <2>3 DEF PlanDestination
<1>3. TypeOK'
  BY <1>1, <1>2 DEF TypeOK
<1>4. StatesInv'
  BY <1>1 DEF AutoInv, StatesInv, ErrorByRemoval
<1>5. RideInv' /\ LastInv' /\ IdsInv' /\ ReportInv'
  BY <1>1, ReportKept DEF AutoInv
<1>6. QueueInv'
  BY <1>1 DEF AutoInv, QueueInv
<1> QED BY <1>3, <1>4, <1>5, <1>6 DEF AutoInv

\* No route is prepared.
LEMMA RouteDropped ==
  ASSUME TypeOK, AutoInv, NoDestination
  PROVE  TypeOK' /\ AutoInv'
<1>1. /\ tick = "serve" /\ tick' = "look"
      /\ UNCHANGED <<state, request, from, first, second, ids, delayed, wait, follow,
                     reached, report, client, moving, ahead, spot, last>>
      /\ \/ plan' = plan
         \/ plan # <<>> /\ plan' = Tail(plan)
  BY DEF NoDestination, routeVars, trainVars
<1>2. plan' \in Seq(Entries) /\ Len(plan') <= MaxPlan + 1
  <2>1. plan \in Seq(Entries) /\ Len(plan) <= MaxPlan + 1
    BY DEF TypeOK
  <2>2. plan # <<>> => Tail(plan) \in Seq(Entries) /\ Len(Tail(plan)) = Len(plan) - 1
                         /\ Len(plan) \in Nat
    BY <2>1, HeadTailProperties
  <2> QED BY <1>1, <2>1, <2>2, Bounds
<1>3. TypeOK'
  BY <1>1, <1>2 DEF TypeOK
<1>4. StatesInv'
  BY <1>1 DEF AutoInv, StatesInv, ErrorByRemoval
<1>5. RideInv' /\ LastInv' /\ IdsInv' /\ ReportInv'
  BY <1>1, ReportKept DEF AutoInv
<1>6. QueueInv'
  BY <1>1 DEF AutoInv, QueueInv
<1> QED BY <1>3, <1>4, <1>5, <1>6 DEF AutoInv

\* A route is served: the timetable gets shorter.
LEMMA EntryServed ==
  ASSUME TypeOK, plan # <<>>, plan' = Tail(plan)
  PROVE  /\ plan' \in Seq(Entries) /\ Len(plan') <= MaxPlan + 1
         /\ Head(plan).route \in Routes /\ Head(plan).after \in FollowUps
<1>1. plan \in Seq(Entries) /\ Len(plan) <= MaxPlan + 1
  BY DEF TypeOK
<1>2. /\ Head(plan) \in Entries
      /\ Tail(plan) \in Seq(Entries) /\ Len(Tail(plan)) = Len(plan) - 1
      /\ Len(plan) \in Nat
  BY <1>1, HeadTailProperties
<1> QED BY <1>1, <1>2, Bounds DEF Entries

\* A train that stands gets a first route (PrepareDestinationFirst).
LEMMA FirstServed ==
  ASSUME TypeOK, AutoInv, Undivided, ServeTimetable, state = "GetFirst"
  PROVE  TypeOK' /\ AutoInv'
<1> DEFINE r == Head(plan).route
<1>1. /\ tick = "serve" /\ tick' = "look" /\ plan # <<>> /\ plan' = Tail(plan)
      /\ FromTrack[r] = EndTrack
      /\ PrepareDestinationFirst(r)
      /\ ahead' = Append(ahead, r)
      /\ follow' = Head(plan).after
      /\ UNCHANGED <<request, reached, report, client, spot, last>>
      /\ report.at \notin {"reduce", "halt"}
  BY DEF ServeTimetable, MayChangeIds, Between, Undivided
<1>2. /\ plan' \in Seq(Entries) /\ Len(plan') <= MaxPlan + 1
      /\ r \in Routes /\ follow' \in FollowUps
  BY <1>1, EntryServed
<1> HIDE DEF r
<1>3. first = None /\ second = None /\ ahead = <<>> /\ ids.stop = None
  BY DEF AutoInv, StatesInv, RideInv, IdsInv, TypeOK
<1>4. Len(reached) = 0 /\ reached \in Seq(Maybe(Feedbacks))
  <2>1. reached \in Seq(Maybe(Feedbacks)) /\ Len(reached) \in Nat
    BY DEF TypeOK
  <2>2. \A i \in 1..Len(reached) : FALSE
    BY <1>1, <1>3 DEF AutoInv, QueueInv
  <2> QED BY <2>1, <2>2
<1>5. /\ first' = r /\ second' = None /\ from' = from
      /\ ids' = [first |-> None, firstReduced |-> None, reduced |-> Reduced[r],
                 stop |-> Stop[r], over |-> Over[r]]
      /\ delayed' = (r \in Delayed) /\ wait' = Wait[r] /\ moving' = TRUE
      /\ state' = "GetSecond"
  BY <1>1, <1>3 DEF PrepareDestinationFirst
<1>6. /\ Reduced[r] \in Maybe(Feedbacks) /\ Stop[r] \in Maybe(Feedbacks)
      /\ Over[r] \in Maybe(Feedbacks) /\ None \in Maybe(Feedbacks)
      /\ Wait[r] \in Nat /\ r # None /\ r \in Maybe(Routes)
      /\ FromTrack[r] = from /\ from # None /\ from \in Maybe(Tracks)
  BY <1>1, <1>2, <1>3, RouteFeedbacks, KindsDiffer DEF Maybe, EndTrack
<1>7. /\ ids' \in [DOMAIN NoIds -> Maybe(Feedbacks)]
      /\ ids'.first = None /\ ids'.firstReduced = None
      /\ ids'.stop = Stop[r] /\ ids'.reduced = Reduced[r]
  BY <1>5, <1>6, IdRecord
<1>8. ahead' = <<r>> /\ Active' = <<r>> /\ Len(<<r>>) = 1 /\ Len(<<>>) = 0
  BY <1>1, <1>3, <1>5, <1>6 DEF Active
<1>9. TypeOK'
  <2>1. ahead' \in Seq(Routes)
    BY <1>2, <1>8
  <2>2. delayed' \in BOOLEAN /\ moving' \in BOOLEAN
    BY <1>5
  <2>3. state' \in States /\ tick' \in {"look", "search", "serve"}
    BY <1>1, <1>5 DEF States
  <2> QED BY <1>1, <1>2, <1>5, <1>6, <1>7, <2>1, <2>2, <2>3 DEF TypeOK, Maybe
<1>10. StatesInv'
  <2>1. client # "waits"
    BY DEF AutoInv, StatesInv
  <2> QED BY <1>1, <1>5, <1>6, <2>1 DEF StatesInv, ErrorByRemoval
<1>11. RideInv'
  BY <1>5, <1>6, <1>8 DEF RideInv
<1>12. LastInv'
  <2>1. last # None => ToTrack[last] = from
    <3>1. Active = <<>>
      BY <1>3 DEF Active
    <3> QED BY <1>3, <3>1 DEF AutoInv, LastInv
  <2> QED BY <1>1, <1>5, <1>6, <1>8, <2>1 DEF LastInv
<1>13. IdsInv'
  BY <1>5, <1>6, <1>7 DEF IdsInv
<1>14. ReportInv'
  BY <1>1, <1>3, <1>5 DEF AutoInv, ReportInv
<1>15. QueueInv'
  BY <1>1, <1>4 DEF QueueInv
<1> QED BY <1>9, <1>10, <1>11, <1>12, <1>13, <1>14, <1>15 DEF AutoInv

\* A train that runs gets a second route (PrepareDestinationSecond).
LEMMA SecondServed ==
  ASSUME TypeOK, AutoInv, Undivided, FeedbacksApart,
         ServeTimetable, state # "GetFirst"
  PROVE  TypeOK' /\ AutoInv'
<1> DEFINE r == Head(plan).route
<1>1. /\ tick = "serve" /\ tick' = "look" /\ plan # <<>> /\ plan' = Tail(plan)
      /\ FromTrack[r] = EndTrack
      /\ PrepareDestinationSecond(r)
      /\ ahead' = Append(ahead, r)
      /\ follow' = Head(plan).after
      /\ UNCHANGED <<request, reached, report, client, spot, last>>
      /\ report.at \notin {"reduce", "halt"}
  BY DEF ServeTimetable, MayChangeIds, Between, Undivided
<1>2. /\ plan' \in Seq(Entries) /\ Len(plan') <= MaxPlan + 1
      /\ r \in Routes /\ follow' \in FollowUps
  BY <1>1, EntryServed
<1> HIDE DEF r
<1>3. /\ first # None /\ second = None /\ first \in Routes /\ from # None
      /\ client # "waits" /\ state = "GetSecond"
      /\ ids.stop = Stop[first] /\ ids.reduced = Reduced[first]
  BY <1>1 DEF AutoInv, StatesInv, IdsInv, TypeOK, Maybe
<1>4. ahead = <<>> \/ ahead = <<first>>
  BY <1>3 DEF AutoInv, RideInv
<1>5. /\ first' = first /\ second' = r /\ from' = from
      /\ ids' = [first |-> Stop[first], firstReduced |-> Reduced[first],
                 reduced |-> Reduced[r], stop |-> Stop[r], over |-> Over[r]]
      /\ delayed' = delayed /\ wait' = Wait[r] /\ moving' = moving
      /\ state' = "Running"
  BY <1>1, <1>3 DEF PrepareDestinationSecond
<1>6. /\ Reduced[r] \in Maybe(Feedbacks) /\ Stop[r] \in Maybe(Feedbacks)
      /\ Reduced[first] \in Maybe(Feedbacks) /\ Stop[first] \in Maybe(Feedbacks)
      /\ Over[r] \in Maybe(Feedbacks) /\ Stop[first] # None
      /\ Wait[r] \in Nat /\ r # None /\ r \in Maybe(Routes)
      /\ Follows(r, first)
  <2>1. Follows(r, first)
    BY <1>1, <1>3 DEF EndTrack, Follows
  <2> QED BY <1>2, <1>3, <2>1, RouteFeedbacks DEF Maybe
<1>7. /\ ids' \in [DOMAIN NoIds -> Maybe(Feedbacks)]
      /\ ids'.first = Stop[first] /\ ids'.firstReduced = Reduced[first]
      /\ ids'.stop = Stop[r] /\ ids'.reduced = Reduced[r]
  BY <1>5, <1>6, IdRecord
<1>8. /\ ahead = <<>> => ahead' = <<r>>
      /\ ahead = <<first>> => ahead' = <<first, r>>
      /\ Active' = <<first, r>> /\ Active = <<first>>
  <2>1. ahead = <<>> => ahead' = <<r>>
    BY <1>1
  <2>2. ahead = <<first>> => ahead' = <<first, r>>
    BY <1>1, <1>2, <1>3, Pair
  <2>3. Active' = <<first, r>>
    BY <1>3, <1>5, <1>6 DEF Active
  <2>4. Active = <<first>>
    BY <1>3 DEF Active
  <2> QED BY <2>1, <2>2, <2>3, <2>4
<1>9. TypeOK'
  <2>1. ahead' \in Seq(Routes)
    <3>1. <<r>> \in Seq(Routes) /\ <<first, r>> \in Seq(Routes)
      BY <1>2, <1>3
    <3> QED BY <1>4, <1>8, <3>1
  <2>2. state' \in States /\ tick' \in {"look", "search", "serve"}
    BY <1>1, <1>5 DEF States
  <2> QED BY <1>1, <1>2, <1>3, <1>5, <1>6, <1>7, <2>1, <2>2 DEF TypeOK
<1>10. StatesInv'
  BY <1>1, <1>3, <1>5, <1>6 DEF StatesInv, ErrorByRemoval
<1>11. RideInv'
  BY <1>3, <1>4, <1>5, <1>6, <1>8 DEF AutoInv, RideInv, Follows
<1>12. LastInv'
  <2>1. CASE ahead = <<>>
    <3>1. Len(ahead) < Len(Active) /\ ahead # <<second>>
      BY <1>8, <2>1
    <3>2. last = first
      BY <1>3, <3>1 DEF AutoInv, LastInv
    <3>3. ahead' = <<r>> /\ Len(ahead') # Len(Active')
      BY <1>8, <2>1
    <3> QED BY <1>1, <1>3, <1>5, <3>2, <3>3 DEF LastInv
  <2>2. CASE ahead = <<first>>
    <3>1. Len(ahead) = Len(Active)
      BY <1>8, <2>2
    <3>2. last # None => ToTrack[last] = from
      BY <3>1 DEF AutoInv, LastInv
    <3>3. Len(ahead') = 2 /\ Len(Active') = 2
      BY <1>8, <2>2
    <3> QED BY <1>1, <1>3, <1>5, <3>2, <3>3 DEF LastInv
  <2> QED BY <1>4, <2>1, <2>2
<1>13. IdsInv'
  BY <1>3, <1>5, <1>6, <1>7 DEF IdsInv
<1>14. ReportInv'
  <2>1. ahead # <<>> => ahead' # <<>> /\ Head(ahead') = Head(ahead)
    BY <1>4, <1>8
  <2> QED BY <1>1, <1>5, <2>1 DEF AutoInv, ReportInv
<1>15. QueueInv'
  <2>1. Stop[first] # Stop[r]
    BY <1>2, <1>3, <1>6 DEF FeedbacksApart, Apart
  <2>2. \A i \in 1..Len(reached) :
          reached[i] = Stop[first] /\ reached[i] # None /\ ahead = <<>>
    BY <1>1, <1>3 DEF AutoInv, QueueInv
  <2>3. ahead = <<>> => ahead' # <<first, r>>
    BY <1>8
  <2> QED BY <1>1, <1>5, <1>6, <1>7, <2>1, <2>2, <2>3 DEF QueueInv
<1> QED BY <1>9, <1>10, <1>11, <1>12, <1>13, <1>14, <1>15 DEF AutoInv

(***************************************************************************)
(* LocationReached                                                           *)
(***************************************************************************)
\* What a report finds among the ids belongs to an end the train has passed:
\* nothing is mistaken for the end of a route before it.
LEMMA ReportedIds ==
  ASSUME TypeOK, AutoInv, FeedbacksApart, report.at # "none"
  PROVE  /\ report.id # None
         /\ from # None /\ report.id \in {ids.first, ids.firstReduced} =>
              second # None
         /\ report.id = ids.first => second # None
         /\ report.id = ids.reduced => first # None
         /\ report.id = ids.stop => first # None /\ ahead = <<>>
         /\ second # None /\ report.id \in {ids.first, ids.reduced} =>
              ahead = <<second>>
<1>1. report.id # None
  BY DEF AutoInv, ReportInv
<1>2. from # None =>
        \/ last \in Routes /\ last # None /\ report.id \in {Stop[last], Over[last]}
        \/ ahead # <<>> /\ report.id = Reduced[Head(ahead)]
  BY DEF AutoInv, ReportInv, TypeOK, Maybe
<1>3. CASE first = None
  <2>1. second = None /\ ahead = <<>> /\ ids.stop = None /\ ids.reduced = None
    BY <1>3 DEF AutoInv, RideInv, IdsInv, TypeOK
  <2>2. from # None => report.id \notin {ids.first, ids.firstReduced}
    BY <1>1, <1>2, <1>3, <2>1 DEF AutoInv, IdsInv, Apart
  <2>3. from = None => ids.first = None
    BY DEF AutoInv, IdsInv
  <2> QED BY <1>1, <2>1, <2>2, <2>3
<1>4. CASE first # None /\ second = None
  <2>1. /\ ids.first = None /\ ids.firstReduced = None /\ ids.stop = Stop[first]
        /\ first \in Routes /\ from # None /\ FromTrack[first] = from
    BY <1>4 DEF AutoInv, RideInv, IdsInv, TypeOK, Maybe
  <2>2. ahead = <<>> \/ ahead = <<first>>
    BY <1>4 DEF AutoInv, RideInv
  <2>3. ASSUME ahead = <<first>>, report.id = Stop[first] PROVE FALSE
    <3>1. last # None => ToTrack[last] = from
      <4>1. Active = <<first>>
        BY <1>4 DEF Active
      <4> QED BY <2>3, <4>1 DEF AutoInv, LastInv
    <3>2. Head(ahead) = first
      BY <2>3
    <3>3. Apart({Reduced[first]}, {Stop[first], Over[first]})
      BY <2>1 DEF FeedbacksApart
    <3>4. last \in Routes /\ last # None =>
            /\ Apart({Reduced[last], Stop[last]}, {Stop[first], Over[first]})
            /\ Apart({Over[last]}, {Stop[first]})
      BY <2>1, <3>1 DEF FeedbacksApart, Follows
    <3> QED BY <1>1, <1>2, <2>1, <2>3, <3>2, <3>3, <3>4 DEF Apart
  <2> QED BY <1>1, <1>4, <2>1, <2>2, <2>3
<1>5. CASE second # None
  <2>1. /\ ids.first = Stop[first] /\ ids.reduced = Reduced[second]
        /\ ids.stop = Stop[second]
        /\ first \in Routes /\ second \in Routes /\ first # None /\ from # None
        /\ FromTrack[first] = from /\ Follows(second, first)
    BY <1>5 DEF AutoInv, RideInv, IdsInv, TypeOK, Maybe
  <2>2. Active = <<first, second>>
    BY <1>5, <2>1 DEF Active
  <2>3. ahead = <<>> \/ ahead = <<second>> \/ ahead = <<first, second>>
    BY <1>5 DEF AutoInv, RideInv
  <2>4. /\ Apart({Reduced[first]}, {Stop[first], Over[first]})
        /\ Apart({Reduced[second]}, {Stop[second], Over[second]})
        /\ Apart({Reduced[first], Stop[first]}, {Stop[second], Over[second]})
        /\ Apart({Over[first]}, {Stop[second]})
        /\ Apart({Reduced[first]}, {Reduced[second]})
    BY <2>1 DEF FeedbacksApart
  <2>5. CASE ahead = <<>>
    <3>1. last = second
      <4>1. Len(ahead) < Len(Active) /\ ahead # <<second>>
        BY <2>2, <2>5
      <4> QED BY <1>5, <4>1 DEF AutoInv, LastInv
    <3>2. report.id \in {Stop[second], Over[second]}
      BY <1>2, <2>1, <2>5, <3>1
    <3> QED BY <1>1, <1>5, <2>1, <2>4, <2>5, <3>2 DEF Apart
  <2>6. CASE ahead = <<second>>
    <3>1. last = first
      <4>1. Len(ahead) < Len(Active)
        BY <2>2, <2>6
      <4> QED BY <2>6, <4>1 DEF AutoInv, LastInv
    <3>2. report.id \in {Stop[first], Over[first], Reduced[second]}
      BY <1>2, <2>1, <2>6, <3>1
    <3>3. report.id # Stop[second]
      BY <1>1, <2>4, <3>2 DEF Apart
    <3> QED BY <1>1, <1>5, <2>1, <2>6, <3>3
  <2>7. CASE ahead = <<first, second>>
    <3>1. last # None => ToTrack[last] = from
      BY <2>2, <2>7 DEF AutoInv, LastInv
    <3>2. Head(ahead) = first
      BY <2>7
    <3>3. \/ last \in Routes /\ Follows(first, last)
             /\ report.id \in {Stop[last], Over[last]}
          \/ report.id = Reduced[first]
      BY <1>2, <2>1, <3>1, <3>2 DEF Follows
    <3>4. last \in Routes /\ Follows(first, last) =>
            /\ Apart({Reduced[last], Stop[last]}, {Stop[first], Over[first]})
            /\ Apart({Over[last]}, {Stop[first]})
            /\ Apart({Stop[last], Over[last]}, {Reduced[second], Stop[second]})
      BY <2>1 DEF FeedbacksApart
    <3>5. report.id \notin {Stop[first], Reduced[second], Stop[second]}
      BY <1>1, <2>4, <3>3, <3>4 DEF Apart
    <3> QED BY <1>1, <1>5, <2>1, <3>5
  <2> QED BY <2>3, <2>5, <2>6, <2>7
<1> QED BY <1>3, <1>4, <1>5

\* An id of a route whose end is behind the train is put into the queue.
LEMMA QueueGrows ==
  ASSUME TypeOK, QueueInv, NEW x \in Maybe(Feedbacks), x # None,
         reached' = Append(reached, x),
         UNCHANGED <<first, second, ids, ahead, tick>>,
         x = ids.stop => ahead = <<>>,
         x = ids.first => second # None /\ ahead = <<second>>,
         tick # "look" => x = ids.stop
  PROVE  QueueInv' /\ reached' \in Seq(Maybe(Feedbacks))
<1>1. reached \in Seq(Maybe(Feedbacks)) /\ Len(reached) \in Nat
  BY DEF TypeOK
<1>2. /\ reached' \in Seq(Maybe(Feedbacks)) /\ Len(reached') = Len(reached) + 1
      /\ \A i \in 1..Len(reached') :
           \/ i \in 1..Len(reached) /\ reached'[i] = reached[i]
           \/ i = Len(reached) + 1 /\ reached'[i] = x
  BY <1>1, AppendItems
<1>3. <<second>> # <<first, second>> /\ <<second>> # <<>>
  OBVIOUS
<1>4. \A i \in 1..Len(reached') :
        /\ reached'[i] # None
        /\ reached'[i] = ids.stop => ahead = <<>>
        /\ reached'[i] = ids.first => second # None /\ ahead # <<first, second>>
        /\ tick # "look" => reached'[i] = ids.stop
  BY <1>2, <1>3 DEF QueueInv
<1>5. ASSUME NEW i \in 1..Len(reached'), NEW j \in 1..Len(reached'), i < j,
             reached'[i] = ids.stop, reached'[j] = ids.first
      PROVE  FALSE
  <2>1. ahead = <<>>
    BY <1>4, <1>5
  <2>2. i \in 1..Len(reached) /\ reached[i] = ids.stop
    BY <1>1, <1>2, <1>5
  <2>3. CASE j \in 1..Len(reached) /\ reached'[j] = reached[j]
    BY <1>5, <2>2, <2>3 DEF QueueInv
  <2>4. CASE reached'[j] = x
    BY <1>3, <1>5, <2>1, <2>4
  <2> QED BY <1>2, <2>3, <2>4
<1> QED BY <1>2, <1>4, <1>5 DEF QueueInv

\* A comparison that puts nothing into the queue.
LEMMA ComparedOnly ==
  ASSUME TypeOK, AutoInv, report.at # "none",
         UNCHANGED <<state, tick, request, from, first, second, ids, delayed, wait,
                     follow, plan, client, ahead, spot, last, reached>>,
         moving' \in BOOLEAN,
         \/ report' = NoReport
         \/ \E at \in {"reduced", "reduce", "stop", "delay", "halt", "over"} :
              /\ report' = [report EXCEPT !.at = at]
              /\ at = "reduce" => report.id = ids.reduced
              /\ at = "halt" => report.id = ids.stop
  PROVE  TypeOK' /\ AutoInv'
<1>1. /\ report.at \in {"none", "first", "reduced", "reduce", "stop", "delay",
                        "halt", "over"}
      /\ report.id \in Maybe(Feedbacks)
      /\ report = [at |-> report.at, id |-> report.id]
  BY DEF TypeOK
<1>2. \/ report'.at = "none" /\ report'.id = None /\ report' = NoReport
      \/ /\ report'.id = report.id
         /\ report'.at \in {"reduced", "reduce", "stop", "delay", "halt", "over"}
         /\ report' = [at |-> report'.at, id |-> report.id]
         /\ report'.at = "reduce" => report.id = ids.reduced
         /\ report'.at = "halt" => report.id = ids.stop
  BY <1>1 DEF NoReport
<1>3. report' \in [at : {"none", "first", "reduced", "reduce", "stop", "delay",
                         "halt", "over"},
                   id : Maybe(Feedbacks)]
  BY <1>1, <1>2 DEF NoReport, Maybe
<1>4. TypeOK'
  BY <1>3 DEF TypeOK
<1>5. StatesInv'
  BY DEF AutoInv, StatesInv, ErrorByRemoval
<1>6. RideInv' /\ LastInv' /\ IdsInv'
  BY RideKept DEF AutoInv
<1>7. ReportInv'
  BY <1>2 DEF AutoInv, ReportInv
<1>8. QueueInv'
  BY QueueKept DEF AutoInv
<1> QED BY <1>4, <1>5, <1>6, <1>7, <1>8 DEF AutoInv

\* A comparison that finds the id of an end the train has passed.
LEMMA ComparedEqual ==
  ASSUME TypeOK, AutoInv, FeedbacksApart, report.at # "none",
         UNCHANGED <<state, tick, request, from, first, second, ids, delayed, wait,
                     follow, plan, client, moving, ahead, spot, last>>,
         NEW at \in {"reduced", "stop", "over"},
         report' = [report EXCEPT !.at = at],
         NEW x, reached' = Append(reached, x),
         \/ x = ids.first /\ report.id = ids.first
         \/ x = ids.first /\ report.id = ids.reduced /\ ids.first # None
         \/ x = ids.stop /\ report.id = ids.stop
  PROVE  TypeOK' /\ AutoInv'
<1>1. /\ report.at \in {"none", "first", "reduced", "reduce", "stop", "delay",
                        "halt", "over"}
      /\ report.id \in Maybe(Feedbacks)
      /\ report = [at |-> report.at, id |-> report.id]
  BY DEF TypeOK
<1>2. report'.id = report.id /\ report'.at = at /\ report' = [at |-> at, id |-> report.id]
  BY <1>1
<1>3. x \in Maybe(Feedbacks) /\ x # None
  <2>1. ids \in [DOMAIN NoIds -> Maybe(Feedbacks)]
    BY DEF TypeOK
  <2>2. {ids.first, ids.stop} \subseteq Maybe(Feedbacks)
    BY <2>1, IdsForgotten
  <2> QED BY <2>2, ReportedIds
<1>4. x = ids.first =>
        second # None /\ ahead = <<second>> /\ first # None /\ x # ids.stop
  <2>1. ASSUME second # None PROVE first # None /\ ids.first # ids.stop
    <3>1. /\ ids.first = Stop[first] /\ ids.stop = Stop[second]
          /\ first \in Routes /\ second \in Routes /\ first # None
          /\ Follows(second, first)
      BY <2>1 DEF AutoInv, RideInv, IdsInv, TypeOK, Maybe
    <3>2. Apart({Reduced[first], Stop[first]}, {Stop[second], Over[second]})
      BY <3>1 DEF FeedbacksApart
    <3>3. Stop[first] # None
      BY <3>1, RouteFeedbacks
    <3> QED BY <3>1, <3>2, <3>3 DEF Apart
  <2>2. CASE report.id = ids.first
    BY <2>1, <2>2, ReportedIds
  <2>3. CASE report.id = ids.reduced /\ ids.first # None
    <3>1. first # None
      BY <2>3, ReportedIds
    <3>2. second # None
      BY <2>3, <3>1 DEF AutoInv, IdsInv
    <3> QED BY <2>1, <2>3, <3>2, ReportedIds
  <2>4. CASE x = ids.stop /\ report.id = ids.stop
    BY <2>2, <2>4
  <2> QED BY <2>2, <2>3, <2>4
<1>5. x = ids.stop => ahead = <<>>
  BY <1>4, ReportedIds
<1>6. tick # "look" => x = ids.stop
  <2>1. tick # "look" => second = None
    BY DEF AutoInv, StatesInv, TypeOK
  <2> QED BY <1>4, <2>1
<1>7. QueueInv /\ QueueInv' /\ reached' \in Seq(Maybe(Feedbacks))
  <2>1. QueueInv
    BY DEF AutoInv
  <2> QED BY <1>3, <1>4, <1>5, <1>6, <2>1, QueueGrows
<1>8. report' \in [at : {"none", "first", "reduced", "reduce", "stop", "delay",
                         "halt", "over"},
                   id : Maybe(Feedbacks)]
  BY <1>1, <1>2
<1>9. TypeOK'
  BY <1>7, <1>8 DEF TypeOK
<1>10. StatesInv'
  BY DEF AutoInv, StatesInv, ErrorByRemoval
<1>11. RideInv' /\ LastInv' /\ IdsInv'
  BY RideKept DEF AutoInv
<1>12. ReportInv'
  BY <1>2 DEF AutoInv, ReportInv
<1> QED BY <1>7, <1>9, <1>10, <1>11, <1>12 DEF AutoInv

\* LocationReached, comparison by comparison.
LEMMA Compared ==
  ASSUME TypeOK, AutoInv, FeedbacksApart, LocationReached
  PROVE  TypeOK' /\ AutoInv'
<1>1. UNCHANGED <<state, tick, request, from, first, second, ids, delayed, wait,
                  follow, plan, client, ahead, spot, last>>
  BY DEF LocationReached, autoVars, routeVars, trainVars
<1>2. moving \in BOOLEAN
  BY DEF TypeOK
<1>3. CASE CompareFirst
  <2>1. report.at # "none" /\ report' = [report EXCEPT !.at = "reduced"]
        /\ moving' = moving
    BY <1>3 DEF CompareFirst, ReportAt
  <2>2. CASE report.id = ids.first
    <3>1. reached' = Append(reached, ids.first)
      BY <1>3, <2>2 DEF CompareFirst, Reached
    <3> QED BY <1>1, <2>1, <2>2, <3>1, ComparedEqual
  <2>3. CASE report.id # ids.first
    <3>1. reached' = reached
      BY <1>3, <2>3 DEF CompareFirst
    <3> QED BY <1>1, <1>2, <2>1, <3>1, ComparedOnly
  <2> QED BY <2>2, <2>3
<1>4. CASE CompareReduced
  <2>1. /\ report.at # "none" /\ moving' = moving /\ reached' = reached
        /\ \/ report' = [report EXCEPT !.at = "reduce"] /\ report.id = ids.reduced
           \/ report' = [report EXCEPT !.at = "stop"]
    BY <1>4 DEF CompareReduced, ReportAt
  <2> QED BY <1>1, <1>2, <2>1, ComparedOnly
<1>5. CASE LocationReducedReached
  <2>1. report.at = "reduce" /\ report' = [report EXCEPT !.at = "stop"]
        /\ moving' = moving
    BY <1>5 DEF LocationReducedReached, ReportAt
  <2>2. report.id = ids.reduced
    BY <2>1 DEF AutoInv, ReportInv
  <2>3. CASE ids.first # None
    <3>1. reached' = Append(reached, ids.first)
      BY <1>5, <2>3 DEF LocationReducedReached, Reached
    <3> QED BY <1>1, <2>1, <2>2, <2>3, <3>1, ComparedEqual
  <2>4. CASE ids.first = None
    <3>1. reached' = reached
      BY <1>5, <2>4 DEF LocationReducedReached
    <3> QED BY <1>1, <1>2, <2>1, <3>1, ComparedOnly
  <2> QED BY <2>3, <2>4
<1>6. CASE CompareStop
  <2>1. /\ report.at # "none" /\ reached' = reached
        /\ \/ report' = [report EXCEPT !.at = "over"] /\ moving' = moving
           \/ report' = [report EXCEPT !.at = "delay"] /\ moving' = moving
           \/ /\ report' = [report EXCEPT !.at = "halt"] /\ moving' = FALSE
              /\ report.id = ids.stop
    BY <1>6 DEF CompareStop, ReportAt
  <2>2. moving' \in BOOLEAN
    BY <1>2, <2>1
  <2>3. \E at \in {"reduced", "reduce", "stop", "delay", "halt", "over"} :
          /\ report' = [report EXCEPT !.at = at]
          /\ at = "reduce" => report.id = ids.reduced
          /\ at = "halt" => report.id = ids.stop
    BY <2>1
  <2> QED BY <1>1, <2>1, <2>2, <2>3, ComparedOnly
<1>7. CASE LocationStopReached
  <2>1. /\ report.at = "halt" /\ report' = [report EXCEPT !.at = "over"]
        /\ moving' = moving /\ reached' = Append(reached, ids.stop)
    BY <1>7 DEF LocationStopReached, ReportAt, Reached
  <2>2. report.id = ids.stop
    BY <2>1 DEF AutoInv, ReportInv
  <2> QED BY <1>1, <2>1, <2>2, ComparedEqual
<1>8. CASE CompareOver
  <2>1. /\ report.at # "none" /\ report' = NoReport /\ reached' = reached
        /\ moving' = (moving /\ report.id # ids.over)
    BY <1>8 DEF CompareOver
  <2>2. moving' \in BOOLEAN
    BY <2>1
  <2> QED BY <1>1, <2>1, <2>2, ComparedOnly
<1> QED BY <1>3, <1>4, <1>5, <1>6, <1>7, <1>8 DEF LocationReached

(***************************************************************************)
(* The train                                                                 *)
(***************************************************************************)
\* A new report is one of the last route or of the next one.
LEMMA NewReport ==
  ASSUME TypeOK, NEW id \in Maybe(Feedbacks), Reports(id)
  PROVE  /\ report' \in [at : {"none", "first", "reduced", "reduce", "stop",
                               "delay", "halt", "over"},
                         id : Maybe(Feedbacks)]
         /\ report'.at = "first" /\ report'.id = id /\ report.at = "none"
BY DEF Reports

\* The train passes a feedback on its way to the end of a route.
LEMMA TrainReports ==
  ASSUME TypeOK, AutoInv, Train, PassReduced \/ Overrun \/ ReportAgain
  PROVE  TypeOK' /\ AutoInv'
<1>1. /\ UNCHANGED <<state, tick, request, from, first, second, ids, delayed, wait,
                     follow, plan, reached, client, moving, ahead, last>>
      /\ spot' \in {"start", "again", "reduced"}
  <2>1. spot \in {"start", "again", "reduced"}
    BY DEF TypeOK
  <2> QED BY <2>1 DEF Train, autoVars, routeVars, PassReduced, Overrun, ReportAgain,
                      trainVars
<1>2. PICK id \in Maybe(Feedbacks) :
        /\ Reports(id) /\ id # None
        /\ \/ ahead # <<>> /\ id = Reduced[Head(ahead)]
           \/ last # None /\ id \in {Stop[last], Over[last]}
  <2>1. CASE PassReduced
    <3>1. Head(ahead) \in Routes
      BY <2>1, HeadTailProperties DEF PassReduced, TypeOK
    <3> QED BY <2>1, <3>1, RouteFeedbacks DEF PassReduced
  <2>2. CASE Overrun
    <3>1. last \in Routes
      BY <2>2 DEF Overrun, TypeOK, Maybe
    <3> QED BY <2>2, <3>1, RouteFeedbacks DEF Overrun
  <2>3. CASE ReportAgain
    <3>1. last \in Routes
      BY <2>3 DEF ReportAgain, TypeOK, Maybe
    <3> QED BY <2>3, <3>1, RouteFeedbacks DEF ReportAgain, Maybe
  <2> QED BY <2>1, <2>2, <2>3
<1>3. /\ report' \in [at : {"none", "first", "reduced", "reduce", "stop", "delay",
                            "halt", "over"},
                      id : Maybe(Feedbacks)]
      /\ report'.at = "first" /\ report'.id = id
  BY <1>2, NewReport
<1>4. TypeOK'
  BY <1>1, <1>3 DEF TypeOK
<1>5. StatesInv'
  BY <1>1 DEF AutoInv, StatesInv, ErrorByRemoval
<1>6. RideInv' /\ LastInv' /\ IdsInv'
  BY <1>1, RideKept DEF AutoInv
<1>7. ReportInv'
  BY <1>1, <1>2, <1>3 DEF ReportInv
<1>8. QueueInv'
  BY <1>1, QueueKept DEF AutoInv
<1> QED BY <1>4, <1>5, <1>6, <1>7, <1>8 DEF AutoInv

\* The train passes the end of a route, with or without a report.
LEMMA TrainArrives ==
  ASSUME TypeOK, AutoInv, Train, PassStop
  PROVE  TypeOK' /\ AutoInv'
<1>1. /\ UNCHANGED <<state, tick, request, from, first, second, ids, delayed, wait,
                     follow, plan, reached, client, moving>>
      /\ ahead # <<>> /\ ahead' = Tail(ahead) /\ last' = Head(ahead)
      /\ spot' = "start"
      /\ report.at = "none"
      /\ Reports(Stop[Head(ahead)]) \/ report' = report
  BY DEF Train, autoVars, routeVars, PassStop, Reports
<1>2. /\ last' \in Routes /\ ahead' \in Seq(Routes)
      /\ last' # None /\ Stop[last'] \in Feedbacks /\ Stop[last'] # None
  <2>1. ahead \in Seq(Routes)
    BY DEF TypeOK
  <2> QED BY <1>1, <2>1, HeadTailProperties, RouteFeedbacks
<1>3. first # None /\ from # None
  BY <1>1 DEF AutoInv, RideInv, TypeOK
<1>4. /\ report' \in [at : {"none", "first", "reduced", "reduce", "stop", "delay",
                            "halt", "over"},
                      id : Maybe(Feedbacks)]
      /\ report'.at \in {"none", "first"}
      /\ report'.at = "first" => report'.id = Stop[last']
  <2>1. Stop[last'] \in Maybe(Feedbacks)
    BY <1>2 DEF Maybe
  <2>2. CASE Reports(Stop[Head(ahead)])
    BY <1>1, <2>1, <2>2, NewReport
  <2>3. CASE report' = report
    BY <1>1, <2>3 DEF TypeOK
  <2> QED BY <1>1, <2>2, <2>3
<1>5. \/ second = None /\ ahead = <<first>> /\ ahead' = <<>> /\ last' = first
      \/ second # None /\ ahead = <<second>> /\ ahead' = <<>> /\ last' = second
      \/ second # None /\ ahead = <<first, second>> /\ ahead' = <<second>>
           /\ last' = first
  <2>1. \/ second = None /\ ahead = <<first>>
        \/ second # None /\ ahead = <<second>>
        \/ second # None /\ ahead = <<first, second>>
    BY <1>1 DEF AutoInv, RideInv
  <2>2. CASE second = None /\ ahead = <<first>>
    BY <1>1, <2>2
  <2>3. CASE second # None /\ ahead = <<second>>
    BY <1>1, <2>3
  <2>4. CASE second # None /\ ahead = <<first, second>>
    BY <1>1, <2>4
  <2> QED BY <2>1, <2>2, <2>3, <2>4
<1>6. TypeOK'
  BY <1>1, <1>2, <1>4 DEF TypeOK, Maybe
<1>7. StatesInv'
  BY <1>1 DEF AutoInv, StatesInv, ErrorByRemoval
<1>8. RideInv'
  BY <1>1, <1>3, <1>5 DEF AutoInv, RideInv
<1>9. LastInv'
  <2>1. /\ second = None => Len(Active') = 1
        /\ second # None => Len(Active') = 2
    BY <1>1, <1>3 DEF Active
  <2>2. /\ ahead' = <<>> => Len(ahead') = 0
        /\ ahead' = <<second>> => Len(ahead') = 1
    OBVIOUS
  <2>3. <<>> # <<second>>
    OBVIOUS
  <2> QED BY <1>1, <1>3, <1>5, <2>1, <2>2, <2>3 DEF LastInv
<1>10. IdsInv'
  BY <1>1, <1>3 DEF AutoInv, IdsInv
<1>11. ReportInv'
  BY <1>2, <1>4 DEF ReportInv
<1>12. QueueInv'
  <2>1. ahead' # <<first, second>>
    <3>1. <<>> # <<first, second>> /\ <<second>> # <<first, second>>
      OBVIOUS
    <3> QED BY <1>5, <3>1
  <2>2. \A i \in 1..Len(reached) : reached[i] # ids.stop
    BY <1>1 DEF AutoInv, QueueInv
  <2> QED BY <1>1, <2>1, <2>2 DEF AutoInv, QueueInv
<1> QED BY <1>6, <1>7, <1>8, <1>9, <1>10, <1>11, <1>12 DEF AutoInv

(***************************************************************************)
(* The operator                                                              *)
(***************************************************************************)
\* The locomotive is put on a track.
LEMMA LocoPlaced ==
  ASSUME TypeOK, AutoInv, OperatorStep, NEW t \in Tracks, PlaceLoco(t)
  PROVE  TypeOK' /\ AutoInv'
<1>1. /\ UNCHANGED <<tick, reached, report, state, request, first, second, ids, delayed,
                     wait, plan, follow, client, moving, ahead, spot, last>>
      /\ from = None /\ from' = t /\ report.at = "none" /\ t # None
  BY KindsDiffer DEF OperatorStep, PlaceLoco, trainVars, NoReport
<1>2. first = None /\ second = None /\ last = None /\ ahead = <<>> /\ Active' = <<>>
  BY <1>1 DEF AutoInv, LastInv, TypeOK, Active
<1>3. TypeOK'
  BY <1>1 DEF TypeOK, Maybe
<1>4. StatesInv'
  BY <1>1 DEF AutoInv, StatesInv, ErrorByRemoval
<1>5. RideInv'
  BY <1>1, <1>2 DEF RideInv
<1>6. LastInv'
  <2>1. Len(<<>>) = 0
    OBVIOUS
  <2> QED BY <1>1, <1>2, <2>1 DEF LastInv
<1>7. IdsInv'
  BY <1>1, <1>2 DEF AutoInv, IdsInv
<1>8. ReportInv'
  BY <1>1 DEF ReportInv
<1>9. QueueInv'
  BY <1>1, QueueKept DEF AutoInv
<1> QED BY <1>3, <1>4, <1>5, <1>6, <1>7, <1>8, <1>9 DEF AutoInv

\* The locomotive is started, asked to stop, stopped.
LEMMA LocoAsked ==
  ASSUME TypeOK, AutoInv, OperatorStep,
         GoToAutoMode \/ StopPressed \/ RequestManualMode \/ GoToManualMode
           \/ HaltLoco \/ ForceManualMode
  PROVE  TypeOK' /\ AutoInv'
<1>1. UNCHANGED <<tick, reached, report, from, first, second, ids, delayed, wait, plan,
                  ahead, spot, last>>
  BY DEF OperatorStep, GoToAutoMode, StopPressed, RequestManualMode, GoToManualMode,
         HaltLoco, ForceManualMode, routeVars, trainVars
<1>2. /\ state \in States /\ request \in BOOLEAN /\ moving \in BOOLEAN
      /\ follow \in FollowUps
      /\ client \in {"idle", "asks", "polls", "halts", "waits"}
  BY DEF TypeOK
<1>3. /\ state' \in States /\ follow' \in FollowUps
      /\ client' \in {"idle", "asks", "polls", "halts", "waits"}
      /\ request' \in BOOLEAN /\ moving' \in BOOLEAN
  <2>1. CASE GoToAutoMode \/ StopPressed \/ GoToManualMode \/ ForceManualMode
    BY <1>2, <2>1 DEF GoToAutoMode, StopPressed, GoToManualMode, ForceManualMode,
                      States, FollowUps
  <2>2. CASE RequestManualMode
    <3>1. request' \in BOOLEAN
      BY <2>2 DEF RequestManualMode
    <3> QED BY <1>2, <2>2, <3>1 DEF RequestManualMode
  <2>3. CASE HaltLoco
    <3>1. moving' \in BOOLEAN
      BY <2>3 DEF HaltLoco
    <3> QED BY <1>2, <2>3, <3>1 DEF HaltLoco
  <2> QED BY <2>1, <2>2, <2>3
<1>4. TypeOK'
  BY <1>1, <1>3 DEF TypeOK
<1>5. StatesInv'
  <2>1. CASE GoToAutoMode
    BY <1>1, <1>2, <2>1
       DEF AutoInv, StatesInv, ErrorByRemoval, GoToAutoMode, ThreadRuns, Unlocked
  <2>2. CASE StopPressed \/ RequestManualMode \/ HaltLoco
    BY <1>1, <1>2, <2>2
       DEF AutoInv, StatesInv, ErrorByRemoval, StopPressed, RequestManualMode, HaltLoco
  <2>3. CASE GoToManualMode
    BY <1>1, <1>2, <2>3
       DEF AutoInv, StatesInv, ErrorByRemoval, GoToManualMode, ThreadRuns
  <2>4. CASE ForceManualMode
    BY <1>1, <1>2, <2>4
       DEF AutoInv, StatesInv, ErrorByRemoval, ForceManualMode, ThreadRuns, Unlocked
  <2> QED BY <2>1, <2>2, <2>3, <2>4
<1>6. RideInv' /\ LastInv' /\ IdsInv' /\ ReportInv'
  BY <1>1, ReportKept DEF AutoInv
<1>7. QueueInv'
  BY <1>1, QueueKept DEF AutoInv
<1> QED BY <1>4, <1>5, <1>6, <1>7 DEF AutoInv

\* An entry is added to the timetable.
LEMMA EntryAdded ==
  ASSUME TypeOK, AutoInv, OperatorStep,
         NEW r \in Routes, NEW after \in {RouteAuto, RouteStop}, AddTimeTable(r, after)
  PROVE  TypeOK' /\ AutoInv'
<1>1. /\ UNCHANGED <<tick, reached, report, state, from, first, second, ids, delayed,
                     wait, follow, client, moving, ahead, spot, last>>
      /\ Len(plan) < MaxPlan /\ Timetabled(r, after)
  BY DEF OperatorStep, AddTimeTable, routeVars, trainVars
<1>2. plan' \in Seq(Entries) /\ Len(plan') <= MaxPlan + 1
  <2>1. plan \in Seq(Entries) /\ Len(plan) \in Nat
    BY DEF TypeOK
  <2>2. PICK e \in Entries : e = [route |-> r, after |-> after]
    BY DEF Entries, FollowUps
  <2>3. plan' = Append(plan, e)
    BY <1>1, <2>2 DEF Timetabled
  <2>4. plan' \in Seq(Entries) /\ Len(plan') = Len(plan) + 1
    BY <2>1, <2>3, AppendItems
  <2> QED BY <1>1, <2>1, <2>4, Bounds
<1>3. request' \in BOOLEAN
  BY <1>1 DEF Timetabled
<1>4. TypeOK'
  BY <1>1, <1>2, <1>3 DEF TypeOK
<1>5. StatesInv'
  BY <1>1 DEF AutoInv, StatesInv, ErrorByRemoval
<1>6. RideInv' /\ LastInv' /\ IdsInv' /\ ReportInv'
  BY <1>1, ReportKept DEF AutoInv
<1>7. QueueInv'
  BY <1>1, QueueKept DEF AutoInv
<1> QED BY <1>4, <1>5, <1>6, <1>7 DEF AutoInv

\* The locomotive is taken off: its ids go with its routes.
LEMMA LocoReleased ==
  ASSUME TypeOK, AutoInv, Undivided, OperatorStep, ReleaseLoco
  PROVE  TypeOK' /\ AutoInv'
<1>1. /\ UNCHANGED <<tick, reached, report, request, delayed, wait, plan, follow,
                     moving>>
      /\ client = "waits" /\ ~ThreadRuns /\ state' = "Manual" /\ client' = "idle"
      /\ from' = None /\ first' = None /\ second' = None
      /\ ids' = [NoIds EXCEPT !.firstReduced = ids.firstReduced]
      /\ ahead' = <<>> /\ spot' = "start" /\ last' = None
      /\ report.at \notin {"reduce", "halt"}
  BY DEF OperatorStep, ReleaseLoco, MayChangeIds, Between, Undivided
<1>2. /\ ids' \in [DOMAIN NoIds -> Maybe(Feedbacks)]
      /\ ids'.first = None /\ ids'.stop = None /\ ids'.reduced = None
  <2>1. ids \in [DOMAIN NoIds -> Maybe(Feedbacks)]
    BY DEF TypeOK
  <2> QED BY <1>1, <2>1, IdsForgotten DEF NoIds
<1>3. tick = "look"
  BY <1>1 DEF AutoInv, StatesInv, ThreadRuns
<1>4. Active' = <<>>
  BY <1>1 DEF Active
<1>5. TypeOK'
  <2>1. /\ None \in Maybe(Tracks) /\ None \in Maybe(Routes) /\ "Manual" \in States
        /\ <<>> \in Seq(Routes)
    BY DEF Maybe, States
  <2> QED BY <1>1, <1>2, <2>1 DEF TypeOK
<1>6. StatesInv'
  BY <1>1, <1>3 DEF StatesInv, ErrorByRemoval
<1>7. RideInv'
  BY <1>1 DEF RideInv
<1>8. LastInv'
  <2>1. ~(Len(<<>>) < Len(<<>>))
    OBVIOUS
  <2> QED BY <1>1, <1>4, <2>1 DEF LastInv
<1>9. IdsInv'
  BY <1>1, <1>2 DEF IdsInv
<1>10. ReportInv'
  BY <1>1 DEF AutoInv, ReportInv
<1>11. QueueInv'
  BY <1>1, <1>2, <1>3 DEF AutoInv, QueueInv
<1> QED BY <1>5, <1>6, <1>7, <1>8, <1>9, <1>10, <1>11 DEF AutoInv

(***************************************************************************)
(* The theorems                                                              *)
(***************************************************************************)
\* Step by step.
LEMMA AutoStep ==
  ASSUME TypeOK, AutoInv, Undivided, FeedbacksApart, [Next]_vars
  PROVE  TypeOK' /\ AutoInv'
<1>1. CASE TakeFeedback
  BY <1>1, FirstEnds, LastEnds, NothingEnds
<1>2. CASE ActOnState
  BY <1>2, StateActs
<1>3. CASE PlanDestination
  BY <1>3, RoutePlanned
<1>4. CASE NoDestination
  BY <1>4, RouteDropped
<1>5. CASE ServeTimetable
  BY <1>5, FirstServed, SecondServed
<1>6. CASE LocationReached
  BY <1>6, Compared
<1>7. CASE Train
  <2>1. PassReduced \/ PassStop \/ Overrun \/ ReportAgain
    BY <1>7 DEF Train
  <2> QED BY <1>7, <2>1, TrainReports, TrainArrives
<1>8. CASE OperatorStep
  <2>1. CASE \E t \in Tracks : PlaceLoco(t)
    BY <1>8, <2>1, LocoPlaced
  <2>2. CASE GoToAutoMode \/ StopPressed \/ RequestManualMode \/ GoToManualMode
               \/ HaltLoco \/ ForceManualMode
    BY <1>8, <2>2, LocoAsked
  <2>3. CASE \E r \in Routes, after \in {RouteAuto, RouteStop} : AddTimeTable(r, after)
    BY <1>8, <2>3, EntryAdded
  <2>4. CASE ReleaseLoco
    BY <1>8, <2>4, LocoReleased
  <2> QED BY <1>8, <2>1, <2>2, <2>3, <2>4 DEF OperatorStep
<1>9. CASE UNCHANGED vars
  <2>1. UNCHANGED <<state, tick, from, first, second, ids, delayed, wait, request,
                    follow, plan, reached, report, client, moving, ahead, spot, last>>
    BY <1>9 DEF vars, autoVars, routeVars, trainVars
  <2>2. TypeOK'
    BY <2>1 DEF TypeOK
  <2>3. StatesInv'
    BY <2>1 DEF AutoInv, StatesInv, ErrorByRemoval
  <2>4. RideInv' /\ LastInv' /\ IdsInv' /\ ReportInv'
    BY <2>1, ReportKept DEF AutoInv
  <2>5. QueueInv'
    BY <2>1, QueueKept DEF AutoInv
  <2> QED BY <2>2, <2>3, <2>4, <2>5 DEF AutoInv
<1> QED BY <1>1, <1>2, <1>3, <1>4, <1>5, <1>6, <1>7, <1>8, <1>9 DEF Next, Tick

\* The invariant holds initially.
LEMMA AutoInit == Init => TypeOK /\ AutoInv
<1> SUFFICES ASSUME Init PROVE TypeOK /\ AutoInv
  OBVIOUS
<1>1. TypeOK
  <2>1. ids \in [DOMAIN NoIds -> Maybe(Feedbacks)]
    BY DEF Init, NoIds, Maybe
  <2>2. /\ plan \in Seq(Entries) /\ Len(plan) <= MaxPlan + 1
        /\ reached \in Seq(Maybe(Feedbacks)) /\ ahead \in Seq(Routes)
    BY Bounds DEF Init
  <2>3. report \in [at : {"none", "first", "reduced", "reduce", "stop", "delay",
                          "halt", "over"},
                    id : Maybe(Feedbacks)]
    BY DEF Init, NoReport, Maybe
  <2>4. request \in BOOLEAN /\ delayed \in BOOLEAN /\ moving \in BOOLEAN
    BY DEF Init
  <2> QED BY <2>1, <2>2, <2>3, <2>4 DEF Init, TypeOK, States, Maybe, FollowUps
<1>2. StatesInv
  BY DEF Init, StatesInv, ErrorByRemoval
<1>3. RideInv
  BY DEF Init, RideInv
<1>4. LastInv
  <2>1. Active = <<>> /\ ~(Len(<<>>) < Len(<<>>))
    BY DEF Init, Active
  <2> QED BY <2>1 DEF Init, LastInv
<1>5. IdsInv
  BY DEF Init, IdsInv, NoIds
<1>6. ReportInv
  BY DEF Init, ReportInv, NoReport
<1>7. QueueInv
  <2>1. Len(reached) = 0
    BY DEF Init
  <2> QED BY <2>1 DEF Init, QueueInv
<1> QED BY <1>1, <1>2, <1>3, <1>4, <1>5, <1>6, <1>7 DEF AutoInv

\* The inductive invariant holds in every run.
LEMMA AutoInvariant ==
  ASSUME Undivided, FeedbacksApart
  PROVE  Spec => [](TypeOK /\ AutoInv)
<1>1. Init => TypeOK /\ AutoInv
  BY AutoInit
<1>2. TypeOK /\ AutoInv /\ [Next]_vars => (TypeOK /\ AutoInv)'
  BY AutoStep
<1> QED BY <1>1, <1>2, PTL DEF Spec

\* Every variable keeps its type: a locomotive has a second route only behind
\* a first one, and a first one only from a track.
THEOREM AutoTypes == Undivided /\ FeedbacksApart => (Spec => []TypeOK)
<1> SUFFICES ASSUME Undivided, FeedbacksApart PROVE Spec => []TypeOK
  OBVIOUS
<1>1. TypeOK /\ AutoInv => TypeOK
  OBVIOUS
<1> QED BY AutoInvariant, <1>1, PTL

\* No route is given back before the train has passed its stop feedback, with
\* feedbacks that are missed, come twice or arrive before the last one has been
\* looked at (FeedbackIdFirstReached, FeedbackIdStopReached, LocationReached).
THEOREM AheadHeld == Undivided /\ FeedbacksApart => (Spec => []RouteAheadHeld)
<1> SUFFICES ASSUME Undivided, FeedbacksApart PROVE Spec => []RouteAheadHeld
  OBVIOUS
<1>1. TypeOK /\ AutoInv => RouteAheadHeld
  BY AheadIsSuffix DEF AutoInv
<1> QED BY AutoInvariant, <1>1, PTL

\* Whoever looks up the speed of the second route finds one: LocationReached
\* with the ids of a first route, FeedbackIdFirstReached in a tick.
THEOREM SecondFound == Undivided /\ FeedbacksApart => (Spec => []SecondPresent)
<1> SUFFICES ASSUME Undivided, FeedbacksApart PROVE Spec => []SecondPresent
  OBVIOUS
<1>1. ASSUME TypeOK, AutoInv, from # None, report.at = "first",
             report.id \in {ids.first, ids.firstReduced}
      PROVE  second # None
  BY <1>1, ReportedIds
<1>2. ASSUME TypeOK, AutoInv, reached # <<>>, Head(reached) = ids.first
      PROVE  second # None
  <2>1. Head(reached) = reached[1] /\ 1 \in 1..Len(reached)
    BY <1>2, TailItems DEF TypeOK
  <2> QED BY <1>2, <2>1 DEF AutoInv, QueueInv
<1>3. TypeOK /\ AutoInv => SecondPresent
  BY <1>1, <1>2 DEF SecondPresent
<1> QED BY AutoInvariant, <1>3, PTL

\* The automode thread gets into its error state only while the locomotive is
\* being removed (LocoBase::AutoMode, LocoBase::Release).
THEOREM ErrorsRemoved == Undivided /\ FeedbacksApart => (Spec => []ErrorByRemoval)
<1> SUFFICES ASSUME Undivided, FeedbacksApart PROVE Spec => []ErrorByRemoval
  OBVIOUS
<1>1. TypeOK /\ AutoInv => ErrorByRemoval
  BY DEF AutoInv, StatesInv
<1> QED BY AutoInvariant, <1>1, PTL

=============================================================================
