-------------------------- MODULE LockOrderProofs --------------------------
(***************************************************************************)
(* Threads that follow ordered traces never wait in a circle, however many   *)
(* locomotives, tracks, routes, reporters and browsers there are.            *)
(***************************************************************************)
EXTENDS LockOrder, TLAPS

(***************************************************************************)
(* The inductive invariant: every mutex that a thread holds is given back    *)
(* further on, and what the thread wants until then ranks higher.            *)
(***************************************************************************)
TypesOK ==
  /\ task \in [Threads -> Commands \cup {"none", "work"}]
  /\ rest \in [Threads -> Seq(Steps)]
  /\ holder \in [Mutexes -> Threads \cup {Nobody}]

InvHeld ==
  \A m \in Mutexes : holder[m] # Nobody => Covered(rest[holder[m]], 1, m)

OrderInv ==
  /\ TypesOK
  /\ RankKept
  /\ InvHeld

LEMMA RankRange == \A m \in Mutexes : Rank(m) \in 1..6
  BY DEF Rank, Mutexes, StateOf, MutexOf, UpdateOf, FeedbackMap, ControlMap, LocoMap

(***************************************************************************)
(* The traces.  A function is good above n when its traces are well typed    *)
(* and ordered and want nothing of a rank up to n.                           *)
(***************************************************************************)
Above(x, n) == \A j \in 1..Len(x) : x[j].op # "give" => n < Rank(x[j].on)

Good(a, n) == \A x \in a : x \in Seq(Steps) /\ Ordered(x) /\ Above(x, n)

LEMMA GoodGlance ==
  ASSUME NEW m \in Mutexes, NEW n \in Nat, n < Rank(m)
  PROVE  Good(Glance(m), n)
<1> DEFINE x == <<Step("glance", m)>>
<1>1. x \in Seq(Steps) /\ Len(x) = 1 /\ x[1] = Step("glance", m)
  BY DEF Step, Steps
<1>2. Ordered(x)
  BY <1>1 DEF Ordered, Step
<1>3. Above(x, n)
  BY <1>1 DEF Above, Step
<1> QED BY <1>1, <1>2, <1>3 DEF Good, Glance

LEMMA CoveredLonger ==
  ASSUME NEW x \in Seq(Steps), NEW y \in Seq(Steps), NEW i \in Nat \ {0}, NEW m \in Mutexes,
         Covered(x, i, m)
  PROVE  Covered(x \o y, i, m)
<1>1. PICK k \in i..Len(x) :
        /\ x[k] = Step("give", m)
        /\ \A j \in i..(k - 1) : x[j].op # "give" => Rank(m) < Rank(x[j].on)
  BY DEF Covered
<1>2. Len(x) \in Nat /\ Len(y) \in Nat /\ Len(x \o y) = Len(x) + Len(y)
  OBVIOUS
<1>3. \A j \in 1..Len(x) : (x \o y)[j] = x[j]
  OBVIOUS
<1>4. k \in i..Len(x \o y) /\ (x \o y)[k] = Step("give", m)
  BY <1>1, <1>2, <1>3
<1>5. \A j \in i..(k - 1) : (x \o y)[j] = x[j]
  BY <1>1, <1>2, <1>3
<1> QED BY <1>1, <1>4, <1>5 DEF Covered

LEMMA CoveredLater ==
  ASSUME NEW x \in Seq(Steps), NEW y \in Seq(Steps), NEW i \in Nat \ {0}, NEW m \in Mutexes,
         Covered(y, i, m)
  PROVE  Covered(x \o y, Len(x) + i, m)
<1>1. PICK k \in i..Len(y) :
        /\ y[k] = Step("give", m)
        /\ \A j \in i..(k - 1) : y[j].op # "give" => Rank(m) < Rank(y[j].on)
  BY DEF Covered
<1>2. Len(x) \in Nat /\ Len(y) \in Nat /\ Len(x \o y) = Len(x) + Len(y)
  OBVIOUS
<1>3. \A j \in 1..Len(y) : (x \o y)[Len(x) + j] = y[j]
  OBVIOUS
<1>4. Len(x) + k \in (Len(x) + i)..Len(x \o y) /\ (x \o y)[Len(x) + k] = Step("give", m)
  BY <1>1, <1>2, <1>3
<1>5. ASSUME NEW j \in (Len(x) + i)..((Len(x) + k) - 1), (x \o y)[j].op # "give"
      PROVE  Rank(m) < Rank((x \o y)[j].on)
  <2>1. j - Len(x) \in i..(k - 1) /\ j - Len(x) \in 1..Len(y) /\ Len(x) + (j - Len(x)) = j
    BY <1>1, <1>2
  <2>2. (x \o y)[j] = y[j - Len(x)]
    BY <1>3, <2>1
  <2> QED BY <1>1, <1>5, <2>1, <2>2
<1> QED BY <1>4, <1>5 DEF Covered

LEMMA OrderedThen ==
  ASSUME NEW x \in Seq(Steps), NEW y \in Seq(Steps), Ordered(x), Ordered(y)
  PROVE  Ordered(x \o y)
<1> SUFFICES ASSUME NEW i \in 1..Len(x \o y), (x \o y)[i].op = "take"
             PROVE  Covered(x \o y, i + 1, (x \o y)[i].on)
  BY DEF Ordered
<1>1. Len(x) \in Nat /\ Len(y) \in Nat /\ Len(x \o y) = Len(x) + Len(y)
  OBVIOUS
<1>2. CASE i \in 1..Len(x)
  <2>1. (x \o y)[i] = x[i] /\ x[i] \in Steps /\ i + 1 \in Nat \ {0}
    BY <1>1, <1>2
  <2>2. Covered(x, i + 1, x[i].on)
    BY <1>2, <2>1 DEF Ordered
  <2> QED BY <2>1, <2>2, CoveredLonger DEF Steps
<1>3. CASE i \notin 1..Len(x)
  <2> DEFINE j == i - Len(x)
  <2>1. j \in 1..Len(y) /\ i = Len(x) + j /\ i + 1 = Len(x) + (j + 1)
    BY <1>1, <1>3
  <2>2. (x \o y)[i] = y[j] /\ y[j] \in Steps /\ j + 1 \in Nat \ {0}
    BY <1>1, <2>1
  <2>3. Covered(y, j + 1, y[j].on)
    BY <2>1, <2>2 DEF Ordered
  <2>4. Covered(x \o y, Len(x) + (j + 1), y[j].on)
    BY <2>2, <2>3, CoveredLater DEF Steps
  <2> QED BY <2>1, <2>2, <2>4
<1> QED BY <1>2, <1>3

LEMMA AboveThen ==
  ASSUME NEW x \in Seq(Steps), NEW y \in Seq(Steps), NEW n \in Nat, Above(x, n), Above(y, n)
  PROVE  Above(x \o y, n)
<1> SUFFICES ASSUME NEW j \in 1..Len(x \o y), (x \o y)[j].op # "give"
             PROVE  n < Rank((x \o y)[j].on)
  BY DEF Above
<1>1. Len(x) \in Nat /\ Len(y) \in Nat /\ Len(x \o y) = Len(x) + Len(y)
  OBVIOUS
<1>2. CASE j \in 1..Len(x)
  <2>1. (x \o y)[j] = x[j]
    BY <1>2
  <2> QED BY <1>2, <2>1 DEF Above
<1>3. CASE j \notin 1..Len(x)
  <2>1. j - Len(x) \in 1..Len(y) /\ (x \o y)[j] = y[j - Len(x)]
    BY <1>1, <1>3
  <2> QED BY <2>1 DEF Above
<1> QED BY <1>2, <1>3

LEMMA GoodThen ==
  ASSUME NEW a, NEW b, NEW n \in Nat, Good(a, n), Good(b, n)
  PROVE  Good(a ** b, n)
<1> SUFFICES ASSUME NEW z \in a ** b
             PROVE  z \in Seq(Steps) /\ Ordered(z) /\ Above(z, n)
  BY DEF Good
<1>a. PICK x \in a, y \in b : z = x \o y
  BY DEF **
<1>1. x \in Seq(Steps) /\ y \in Seq(Steps) /\ Ordered(x) /\ Ordered(y) /\ Above(x, n) /\ Above(y, n)
  BY DEF Good
<1>2. x \o y \in Seq(Steps)
  BY <1>1
<1>3. Ordered(x \o y)
  BY <1>1, OrderedThen
<1>4. Above(x \o y, n)
  BY <1>1, AboveThen
<1> QED BY <1>a, <1>2, <1>3, <1>4

LEMMA GoodHolding ==
  ASSUME NEW a, NEW m \in Mutexes, NEW n \in Nat, n < Rank(m), Good(a, Rank(m))
  PROVE  Good(Holding(m, a), n)
<1> SUFFICES ASSUME NEW x \in a
             PROVE  LET z == <<Step("take", m)>> \o x \o <<Step("give", m)>>
                    IN  z \in Seq(Steps) /\ Ordered(z) /\ Above(z, n)
  BY DEF Good, Holding
<1> DEFINE t == <<Step("take", m)>>
<1> DEFINE g == <<Step("give", m)>>
<1> DEFINE y == x \o g
<1>1. Rank(m) \in Nat /\ Step("take", m) \in Steps /\ Step("give", m) \in Steps
  BY RankRange DEF Step, Steps
<1>2. x \in Seq(Steps) /\ Ordered(x) /\ Above(x, Rank(m)) /\ Len(x) \in Nat
  BY DEF Good
<1>3. t \in Seq(Steps) /\ Len(t) = 1 /\ t[1] = Step("take", m)
  BY <1>1
<1>4. g \in Seq(Steps) /\ Len(g) = 1 /\ g[1] = Step("give", m)
  BY <1>1
<1>5. y \in Seq(Steps) /\ Len(y) = Len(x) + 1 /\ y[Len(x) + 1] = Step("give", m)
  BY <1>2, <1>4
<1>6. \A j \in 1..Len(x) : y[j] = x[j]
  BY <1>2, <1>4
<1>7. Ordered(g) /\ Above(g, n) /\ Above(t, n)
  BY <1>3, <1>4 DEF Ordered, Above, Step
<1>8. Ordered(y)
  BY <1>2, <1>4, <1>7, OrderedThen
<1>9. Covered(y, 1, m)
  <2>1. Len(x) + 1 \in 1..Len(y)
    BY <1>2, <1>5
  <2>2. \A j \in 1..((Len(x) + 1) - 1) : y[j].op # "give" => Rank(m) < Rank(y[j].on)
    BY <1>2, <1>6 DEF Above
  <2> QED BY <1>5, <2>1, <2>2 DEF Covered
<1>10. Above(x, n)
  <2>1. ASSUME NEW j \in 1..Len(x), x[j].op # "give" PROVE n < Rank(x[j].on)
    <3>1. Rank(m) < Rank(x[j].on)
      BY <1>2, <2>1 DEF Above
    <3>a. x[j] \in Steps
      BY <1>2, <2>1
    <3>2. x[j].on \in Mutexes
      BY <3>a DEF Steps
    <3>3. Rank(x[j].on) \in Nat
      BY <3>2, RankRange
    <3> QED BY <1>1, <3>1, <3>3
  <2> QED BY <2>1 DEF Above
<1>11. Above(y, n) /\ Above(t \o y, n)
  BY <1>2, <1>3, <1>4, <1>5, <1>7, <1>10, AboveThen
<1>12. Ordered(t \o y)
  <2> SUFFICES ASSUME NEW i \in 1..Len(t \o y), (t \o y)[i].op = "take"
               PROVE  Covered(t \o y, i + 1, (t \o y)[i].on)
    BY DEF Ordered
  <2>1. Len(t \o y) = 1 + Len(y) /\ Len(y) \in Nat
    BY <1>3, <1>5
  <2>2. CASE i = 1
    <3>1. (t \o y)[i] = Step("take", m)
      BY <1>3, <1>5, <2>2
    <3>2. \A i0 \in Nat \ {0} : Covered(y, i0, m) => Covered(t \o y, Len(t) + i0, m)
      <4> HIDE DEF t, y
      <4> QED BY <1>3, <1>5, CoveredLater
    <3>3. Covered(t \o y, Len(t) + 1, m)
      BY <1>9, <3>2
    <3> QED BY <1>3, <2>2, <3>1, <3>3 DEF Step
  <2>3. CASE i # 1
    <3> DEFINE j == i - 1
    <3>1. j \in 1..Len(y) /\ i + 1 = Len(t) + (j + 1) /\ j + 1 \in Nat \ {0}
      BY <1>3, <2>1, <2>3
    <3>2. (t \o y)[i] = y[j] /\ y[j] \in Steps
      BY <1>3, <1>5, <3>1
    <3>3. Covered(y, j + 1, y[j].on) /\ y[j].on \in Mutexes
      BY <1>8, <3>1, <3>2 DEF Ordered, Steps
    <3>4. Covered(t \o y, Len(t) + (j + 1), y[j].on)
      BY <1>3, <1>5, <3>1, <3>3, CoveredLater
    <3> QED BY <3>1, <3>2, <3>4
  <2> QED BY <2>2, <2>3
<1>13. t \o x \o g = t \o y /\ t \o y \in Seq(Steps)
  BY <1>2, <1>3, <1>4, <1>5
<1> QED BY <1>11, <1>12, <1>13

LEMMA GoodEither ==
  ASSUME NEW a, NEW b, NEW n, Good(a, n), Good(b, n)
  PROVE  Good(a \cup b, n)
  BY DEF Good

LEMMA GoodMaybe ==
  ASSUME NEW a, NEW n, Good(a, n)
  PROVE  Good(Maybe(a), n)
<1>1. Good(Nothing, n)
  BY DEF Good, Nothing, Ordered, Above
<1> QED BY <1>1, GoodEither DEF Maybe

LEMMA GoodUnion ==
  ASSUME NEW X, NEW n, \A a \in X : Good(a, n)
  PROVE  Good(UNION X, n)
  BY DEF Good

LEMMA Ranks ==
  /\ \A l \in Locos : StateOf(l) \in Mutexes /\ Rank(StateOf(l)) = 1
  /\ \A r \in Routes : MutexOf(r) \in Mutexes /\ Rank(MutexOf(r)) = 2
  /\ FeedbackMap \in Mutexes /\ Rank(FeedbackMap) = 3
  /\ \A t \in Tracks : UpdateOf(t) \in Mutexes /\ Rank(UpdateOf(t)) = 4
  /\ ControlMap \in Mutexes /\ Rank(ControlMap) = 5
  /\ LocoMap \in Mutexes /\ Rank(LocoMap) = 6
  BY DEF Rank, Mutexes, StateOf, MutexOf, UpdateOf, FeedbackMap, ControlMap, LocoMap

\* Manager: publishing, looking up.
LEMMA GoodManager ==
  ASSUME NEW n \in 0..4
  PROVE  /\ Good(PublishState, n) /\ Good(TrackPublishState, n)
         /\ Good(GetLocoBase, n) /\ Good(LocoBaseSpeed, n) /\ Good(StopAllSignals, n)
<1>1. Good(Glance(ControlMap), n) /\ Good(Glance(LocoMap), n)
  BY Ranks, GoodGlance
<1>2. Good(Glance(LocoMap), Rank(ControlMap))
  BY Ranks, GoodGlance
<1>3. Good(Holding(ControlMap, Glance(LocoMap)), n)
  BY Ranks, GoodHolding, <1>2
<1> QED BY <1>1, <1>3
        DEF PublishState, TrackPublishState, GetLocoBase, LocoBaseSpeed, StopAllSignals

\* Track.
LEMMA GoodTrack ==
  ASSUME NEW t \in Tracks, NEW n \in 0..3
  PROVE  /\ Good(TrackReserve(t), n) /\ Good(TrackReserveRefused(t), n)
         /\ Good(TrackRelease(t), n)
<1>1. Good(Glance(UpdateOf(t)), n)
  BY Ranks, GoodGlance
<1>2. Good(GetLocoBase, Rank(UpdateOf(t)))
  BY Ranks, GoodManager
<1>3. Good(Holding(UpdateOf(t), GetLocoBase), n)
  BY Ranks, GoodHolding, <1>2
<1>4. Good(StopAllSignals, n) /\ Good(TrackPublishState, n)
  BY GoodManager
<1>5. Good(StopAllSignals ** Glance(UpdateOf(t)) ** TrackPublishState, n)
  BY <1>1, <1>4, GoodThen
<1> QED BY <1>1, <1>3, <1>5 DEF TrackReserve, TrackReserveRefused, TrackRelease

\* Route.
LEMMA GoodRoute ==
  ASSUME NEW r \in Routes, NEW n \in 0..1
  PROVE  /\ Good(RouteReserve(r), n) /\ Good(RouteReserveRefused(r), n)
         /\ Good(RouteLock(r), n) /\ Good(RouteExecute(r), n) /\ Good(RouteRelease(r), n)
<1>1. To[r] \in Tracks
  BY LayoutTypes
<1>2. Rank(MutexOf(r)) = 2 /\ MutexOf(r) \in Mutexes
  BY Ranks
<1>3. Good(GetFeedback, 2)
  BY Ranks, GoodGlance DEF GetFeedback
<1>4. Good(CheckConditions(r), n)
  BY <1>2, <1>3, GoodHolding DEF CheckConditions
<1>5. Good(TrackPublishState, 2) /\ Good(TrackReserve(To[r]), 2)
      /\ Good(TrackReserveRefused(To[r]), 2)
  BY <1>1, GoodManager, GoodTrack
<1>6. /\ Good(Holding(MutexOf(r), TrackPublishState), n)
      /\ Good(Holding(MutexOf(r), TrackReserve(To[r])), n)
      /\ Good(Holding(MutexOf(r), TrackReserveRefused(To[r])), n)
  BY <1>2, <1>5, GoodHolding
<1> QED BY <1>4, <1>6, GoodThen
        DEF RouteReserve, RouteReserveRefused, RouteLock, RouteExecute, RouteRelease, RelationExecute

LEMMA GoodReleaseRouteAndTrack ==
  ASSUME NEW r \in Routes
  PROVE  Good(ReleaseRouteAndTrack(r), 0)
<1>1. Good(TrackRelease(From[r]), 0) /\ Good(RouteRelease(r), 0)
  BY LayoutTypes, GoodTrack, GoodRoute
<1> QED BY <1>1, GoodThen DEF ReleaseRouteAndTrack

\* LocoBase.
LEMMA GoodAutoMode ==
  ASSUME NEW l \in Locos
  PROVE  Good(AutoMode(l), 0)
<1>1. StateOf(l) \in Mutexes /\ Rank(StateOf(l)) = 1
  BY Ranks
<1>2. ASSUME NEW r \in Routes PROVE Good(SearchDestination(r), 1)
  <2>1. From[r] \in Tracks /\ To[r] \in Tracks
    BY LayoutTypes
  <2>2. Good(Glance(UpdateOf(From[r])), 1)
    BY <2>1, Ranks, GoodGlance
  <2>3. Good(PrepareDestination(r), 1)
    BY GoodManager, GoodThen DEF PrepareDestination
  <2>4. Good(RouteRelease(r) ** TrackRelease(To[r]), 1)
    BY <2>1, GoodRoute, GoodTrack, GoodThen
  <2>5. Good(PrepareDestination(r) \cup (RouteRelease(r) ** TrackRelease(To[r])), 1)
    BY <2>3, <2>4, GoodEither
  <2>6. Good(RouteReserve(r), 1) /\ Good(RouteLock(r), 1) /\ Good(RouteExecute(r), 1)
        /\ Good(RouteReserveRefused(r), 1)
    BY GoodRoute
  <2>7. Good(RouteReserve(r) ** RouteLock(r) ** RouteExecute(r)
               ** (PrepareDestination(r) \cup (RouteRelease(r) ** TrackRelease(To[r]))), 1)
    BY <2>5, <2>6, GoodThen
  <2> QED BY <2>2, <2>6, <2>7, GoodEither, GoodThen DEF SearchDestination
<1>3. Good(FeedbackIdReached, 1)
  <2>1. Good(GetFeedback, 1)
    BY Ranks, GoodGlance DEF GetFeedback
  <2>2. Good(Maybe(GetFeedback), 1)
    BY <2>1, GoodMaybe
  <2> QED BY <2>2, GoodManager, GoodThen DEF FeedbackIdReached
<1>4. ASSUME NEW r \in Routes
      PROVE  Good(Holding(StateOf(l), SearchDestination(r))
                    \cup (Holding(StateOf(l), FeedbackIdReached) ** ReleaseRouteAndTrack(r)), 0)
  <2>1. Good(Holding(StateOf(l), SearchDestination(r)), 0)
    BY <1>1, <1>2, GoodHolding
  <2>2. Good(Holding(StateOf(l), FeedbackIdReached), 0)
    BY <1>1, <1>3, GoodHolding
  <2>3. Good(Holding(StateOf(l), FeedbackIdReached) ** ReleaseRouteAndTrack(r), 0)
    BY <2>2, GoodReleaseRouteAndTrack, GoodThen
  <2> QED BY <2>1, <2>3, GoodEither
<1> DEFINE X == {Holding(StateOf(l), SearchDestination(r))
                    \cup (Holding(StateOf(l), FeedbackIdReached) ** ReleaseRouteAndTrack(r)) : r \in Routes}
<1>5. \A a \in X : Good(a, 0)
  BY <1>4
<1>6. Good(UNION X, 0)
  BY <1>5, GoodUnion
<1> QED BY <1>6 DEF AutoMode

\* Feedback.
LEMMA GoodSetState ==
  ASSUME InOrder, NEW t \in Tracks
  PROVE  Good(SetState(t), 0)
<1>1. Good(LocationReached, 4)
  BY GoodManager DEF LocationReached, InOrder, Good
<1>2. Good(FeedbackOccupied(t), 0)
  <2>1. Good(GetLocoBase ** LocationReached, 4)
    BY <1>1, GoodManager, GoodThen
  <2> QED BY <2>1, Ranks, GoodHolding DEF FeedbackOccupied
<1>3. Good(GetFeedback, 0)
  BY Ranks, GoodGlance DEF GetFeedback
<1> DEFINE X == {RouteExecute(r) : r \in Routes}
<1>4. \A a \in X : Good(a, 0)
  BY GoodRoute
<1>5. Good(Maybe(UNION X), 0)
  BY <1>4, GoodUnion, GoodMaybe
<1> QED BY <1>2, <1>3, <1>5, GoodManager, GoodThen DEF SetState

LEMMA GoodDebounceWorker == InOrder => Good(DebounceWorker, 0)
<1> SUFFICES ASSUME InOrder PROVE Good(DebounceWorker, 0)
  OBVIOUS
<1>1. ASSUME NEW t \in Tracks PROVE Good(Holding(FeedbackMap, Debounce(t)), 0)
  <2>1. Good(FeedbackFree(t), 3)
    BY Ranks, GoodGlance DEF FeedbackFree, InOrder
  <2>2. Good(Debounce(t), 3)
    BY <2>1, GoodManager, GoodThen DEF Debounce
  <2> QED BY <2>2, Ranks, GoodHolding
<1> DEFINE X == {Holding(FeedbackMap, Debounce(t)) : t \in Tracks}
<1>2. \A a \in X : Good(a, 0)
  BY <1>1
<1> QED BY <1>2, GoodUnion DEF DebounceWorker

\* Manager: the commands.
LEMMA GoodCommand ==
  ASSUME InOrder, NEW c \in Commands
  PROVE  Good(Command(c), 0)
<1>1. /\ Good(PublishState, 0) /\ Good(TrackPublishState, 0)
      /\ Good(GetLocoBase, 0) /\ Good(LocoBaseSpeed, 0)
  BY GoodManager
<1>2. ASSUME NEW l \in Locos PROVE Good(Glance(StateOf(l)), 0)
  <2>1. StateOf(l) \in Mutexes /\ 0 < Rank(StateOf(l)) /\ 0 \in Nat
    BY Ranks
  <2> QED BY <2>1, GoodGlance
<1>3. Good(UNION {LocoRelease(l) : l \in Locos}, 0)
  <2> DEFINE X == {ReleaseRouteAndTrack(r) : r \in Routes}
  <2>1. \A a \in X : Good(a, 0)
    BY GoodReleaseRouteAndTrack
  <2>2. Good(UNION X, 0)
    BY <2>1, GoodUnion
  <2>3. ASSUME NEW l \in Locos PROVE Good(LocoRelease(l), 0)
    BY <1>1, <1>2, <2>2, GoodThen DEF LocoRelease
  <2> DEFINE Y == {LocoRelease(l) : l \in Locos}
  <2>4. \A a \in Y : Good(a, 0)
    BY <2>3
  <2> QED BY <2>4, GoodUnion
<1>4. Good(UNION {LocoBaseIntoTrack(l, t) : l \in Locos, t \in Tracks}, 0)
  <2>1. \A l \in Locos, t \in Tracks : Good(LocoBaseIntoTrack(l, t), 0)
    BY <1>1, <1>2, GoodThen DEF LocoBaseIntoTrack
  <2> DEFINE Y == {LocoBaseIntoTrack(l, t) : l \in Locos, t \in Tracks}
  <2>2. \A a \in Y : Good(a, 0)
    BY <2>1
  <2>3. Good(UNION Y, 0)
    <3> HIDE DEF Y
    <3> QED BY <2>2, GoodUnion
  <2> QED BY <2>3
<1>5. Good(UNION {LocoBaseStart(l) : l \in Locos}, 0)
  <2>1. \A l \in Locos : Good(LocoBaseStart(l), 0)
    BY <1>1, <1>2, GoodThen DEF LocoBaseStart
  <2> DEFINE Y == {LocoBaseStart(l) : l \in Locos}
  <2>2. \A a \in Y : Good(a, 0)
    BY <2>1
  <2> QED BY <2>2, GoodUnion
<1>6. Good(UNION {TrackRelease(t) : t \in Tracks}, 0)
  <2> DEFINE Y == {TrackRelease(t) : t \in Tracks}
  <2>1. \A a \in Y : Good(a, 0)
    BY GoodTrack
  <2> QED BY <2>1, GoodUnion
<1>7. Good(UNION {RouteRelease(r) : r \in Routes}, 0) /\ Good(UNION {RouteExecute(r) : r \in Routes}, 0)
  <2> DEFINE Y == {RouteRelease(r) : r \in Routes}
  <2> DEFINE Z == {RouteExecute(r) : r \in Routes}
  <2>1. \A a \in Y \cup Z : Good(a, 0)
    BY GoodRoute
  <2> QED BY <2>1, GoodUnion
<1>8. Good(UNION {SetState(t) : t \in Tracks}, 0)
  <2> DEFINE Y == {SetState(t) : t \in Tracks}
  <2>1. \A a \in Y : Good(a, 0)
    BY GoodSetState
  <2> QED BY <2>1, GoodUnion
<1>9. c \in {"remove", "place", "start", "release", "execute", "feedback"}
  BY DEF InOrder
<1> HIDE DEF Good
<1>10. CASE c = "remove"
  BY <1>3, <1>10 DEF Command
<1>11. CASE c = "place"
  BY <1>4, <1>11 DEF Command
<1>12. CASE c = "start"
  BY <1>5, <1>12 DEF Command
<1>13. CASE c = "release"
  <2>1. Good(ReleaseByHand, 0)
    BY <1>6, <1>7, GoodEither DEF ReleaseByHand
  <2> QED BY <1>13, <2>1 DEF Command
<1>14. CASE c = "execute"
  BY <1>7, <1>14 DEF Command
<1>15. CASE c = "feedback"
  BY <1>8, <1>15 DEF Command
<1> QED BY <1>9, <1>10, <1>11, <1>12, <1>13, <1>14, <1>15

LEMMA GoodTraces ==
  ASSUME InOrder, NEW h \in Threads, NEW c \in Tasks(h), NEW x \in Traces(h, c)
  PROVE  x \in Seq(Steps) /\ Ordered(x)
<1>1. CASE h \in Locos
  <2>1. Traces(h, c) = AutoMode(h)
    BY <1>1, ThreadsDiffer DEF Traces
  <2> QED BY <1>1, <2>1, GoodAutoMode DEF Good
<1>2. CASE h \in Reporters
  <2> DEFINE Y == {SetState(t) : t \in Tracks}
  <2>1. \A a \in Y : Good(a, 0)
    BY GoodSetState
  <2>2. Good(UNION Y, 0)
    BY <2>1, GoodUnion
  <2>3. Traces(h, c) = UNION Y
    BY <1>2, ThreadsDiffer DEF Traces
  <2> QED BY <2>2, <2>3 DEF Good
<1>3. CASE h = Debouncer
  <2>1. Traces(h, c) = DebounceWorker
    BY <1>3, ThreadsDiffer DEF Traces
  <2> QED BY <2>1, GoodDebounceWorker DEF Good
<1>4. CASE h \in Clients
  <2>1. Traces(h, c) = Command(c) /\ c \in Commands
    BY <1>4, ThreadsDiffer DEF Traces, Tasks
  <2> QED BY <2>1, GoodCommand DEF Good
<1> QED BY <1>1, <1>2, <1>3, <1>4 DEF Threads

(***************************************************************************)
(* All calls of the program but those that start or immediately stop all     *)
(* locomotives, the report of an overrun and "release when free" take the    *)
(* mutexes in the order of their ranks.                                      *)
(***************************************************************************)
THEOREM CallsOrdered == InOrder => TracesOrdered
  BY GoodTraces DEF TracesOrdered

(***************************************************************************)
(* A step forward keeps what is ahead.                                       *)
(***************************************************************************)
LEMMA TailCovered ==
  ASSUME NEW x \in Seq(Steps), x # <<>>, NEW i \in Nat \ {0}, NEW m \in Mutexes,
         Covered(x, i + 1, m)
  PROVE  Covered(Tail(x), i, m)
<1>1. PICK k \in (i + 1)..Len(x) :
        /\ x[k] = Step("give", m)
        /\ \A j \in (i + 1)..(k - 1) : x[j].op # "give" => Rank(m) < Rank(x[j].on)
  BY DEF Covered
<1>2. Len(x) \in Nat /\ Len(Tail(x)) = Len(x) - 1
  OBVIOUS
<1>3. \A j \in 1..(Len(x) - 1) : Tail(x)[j] = x[j + 1]
  BY <1>2
<1>4. k - 1 \in i..Len(Tail(x)) /\ Tail(x)[k - 1] = Step("give", m)
  BY <1>1, <1>2, <1>3
<1>5. ASSUME NEW j \in i..((k - 1) - 1), Tail(x)[j].op # "give"
      PROVE  Rank(m) < Rank(Tail(x)[j].on)
  <2>1. j + 1 \in (i + 1)..(k - 1) /\ j \in 1..(Len(x) - 1)
    BY <1>2
  <2>2. Tail(x)[j] = x[j + 1]
    BY <1>3, <2>1
  <2> QED BY <1>1, <1>5, <2>1, <2>2
<1> QED BY <1>4, <1>5 DEF Covered

LEMMA TailOrdered ==
  ASSUME NEW x \in Seq(Steps), x # <<>>, Ordered(x)
  PROVE  Ordered(Tail(x))
<1> SUFFICES ASSUME NEW i \in 1..Len(Tail(x)), Tail(x)[i].op = "take"
             PROVE  Covered(Tail(x), i + 1, Tail(x)[i].on)
  BY DEF Ordered
<1>1. Len(x) \in Nat /\ Len(Tail(x)) = Len(x) - 1 /\ Tail(x)[i] = x[i + 1]
  OBVIOUS
<1>2. i + 1 \in 1..Len(x) /\ x[i + 1].op = "take" /\ x[i + 1] \in Steps
  BY <1>1
<1>3. Covered(x, (i + 1) + 1, x[i + 1].on)
  BY <1>2 DEF Ordered
<1>4. x[i + 1].on \in Mutexes /\ i + 1 \in Nat \ {0}
  BY <1>2 DEF Steps
<1> QED BY <1>1, <1>3, <1>4, TailCovered

\* The head of a trace that is not the one that gives m back is passed safely.
LEMMA HeadPassed ==
  ASSUME NEW x \in Seq(Steps), x # <<>>, NEW m \in Mutexes,
         Covered(x, 1, m), x[1] # Step("give", m)
  PROVE  Covered(x, 2, m)
<1>1. PICK k \in 1..Len(x) :
        /\ x[k] = Step("give", m)
        /\ \A j \in 1..(k - 1) : x[j].op # "give" => Rank(m) < Rank(x[j].on)
  BY DEF Covered
<1>2. k \in 2..Len(x)
  BY <1>1
<1> QED BY <1>1, <1>2 DEF Covered

LEMMA CoveredIsKept ==
  ASSUME NEW x \in Seq(Steps), NEW m \in Mutexes, Covered(x, 1, m)
  PROVE  Kept(x, m)
  BY DEF Covered, Kept

(***************************************************************************)
(* A thread passes a step: the traces of the others stay as they are.        *)
(***************************************************************************)
LEMMA PassKeeps ==
  ASSUME OrderInv, NEW h \in Threads, Busy(h), Pass(h)
  PROVE  /\ task' \in [Threads -> Commands \cup {"none", "work"}]
         /\ rest' \in [Threads -> Seq(Steps)]
         /\ \A g \in Threads : Ordered(rest[g])'
         /\ \A g \in Threads \ {h} : rest'[g] = rest[g]
         /\ rest'[h] = Tail(rest[h])
         /\ Head(rest[h]) = rest[h][1]
         /\ rest[h][1] \in Steps
         /\ \A m \in Mutexes : Covered(rest[h], 1, m) /\ rest[h][1] # Step("give", m)
                                 => Covered(rest'[h], 1, m)
<1>1. rest[h] \in Seq(Steps) /\ rest[h] # <<>>
  BY DEF OrderInv, TypesOK, Busy
<1>2. rest' = [rest EXCEPT ![h] = Tail(rest[h])] /\ rest'[h] = Tail(rest[h])
  BY DEF Pass, OrderInv, TypesOK
<1>3. Tail(rest[h]) \in Seq(Steps) /\ Head(rest[h]) = rest[h][1] /\ rest[h][1] \in Steps
  BY <1>1
<1>4. Ordered(Tail(rest[h]))
  BY <1>1, TailOrdered DEF OrderInv, RankKept
<1>5. \A g \in Threads : Ordered(rest'[g])
  BY <1>2, <1>4 DEF OrderInv, TypesOK, RankKept
<1>6. ASSUME NEW m \in Mutexes, Covered(rest[h], 1, m), rest[h][1] # Step("give", m)
      PROVE  Covered(Tail(rest[h]), 1, m)
  <2>1. Covered(rest[h], 1 + 1, m)
    BY <1>1, <1>6, HeadPassed
  <2> QED BY <1>1, <2>1, TailCovered
<1> QED BY <1>2, <1>3, <1>5, <1>6 DEF Pass, OrderInv, TypesOK, Ordered

LEMMA OrderInit == Init => OrderInv
<1> SUFFICES ASSUME Init PROVE OrderInv
  OBVIOUS
<1>1. TypesOK
  BY DEF Init, TypesOK
<1>2. \A h \in Threads : Ordered(rest[h])
  BY DEF Init, Ordered
<1> QED BY <1>1, <1>2 DEF OrderInv, InvHeld, Init, RankKept

LEMMA OrderStep == InOrder /\ OrderInv /\ [Next]_vars => OrderInv'
<1> SUFFICES ASSUME InOrder, OrderInv, [Next]_vars PROVE OrderInv'
  OBVIOUS
<1> USE NobodyIsNoThread
<1>1. ASSUME NEW h \in Threads, Begin(h) PROVE OrderInv'
  <2>a. PICK c \in Tasks(h) : \E x \in Traces(h, c) :
          task' = [task EXCEPT ![h] = c] /\ rest' = [rest EXCEPT ![h] = x] /\ UNCHANGED holder
    BY <1>1 DEF Begin
  <2>1. PICK x \in Traces(h, c) :
          task' = [task EXCEPT ![h] = c] /\ rest' = [rest EXCEPT ![h] = x] /\ UNCHANGED holder
    BY <2>a
  <2>2. x \in Seq(Steps) /\ Ordered(x)
    BY GoodTraces
  <2>3. c \in Commands \cup {"none", "work"}
    BY DEF Tasks
  <2>4. TypesOK'
    BY <2>1, <2>2, <2>3 DEF OrderInv, TypesOK
  <2>5. \A g \in Threads : Ordered(rest'[g])
    BY <2>1, <2>2 DEF OrderInv, TypesOK, RankKept
  <2>6. rest[h] = <<>>
    BY <1>1 DEF Begin, Busy
  <2>7. \A m \in Mutexes : holder[m] # h
    <3> SUFFICES ASSUME NEW m \in Mutexes, holder[m] = h PROVE FALSE
      OBVIOUS
    <3>1. Covered(rest[h], 1, m)
      BY DEF OrderInv, InvHeld
    <3> QED BY <2>6, <3>1 DEF Covered
  <2>8. InvHeld'
    BY <2>1, <2>7 DEF OrderInv, TypesOK, InvHeld
  <2> QED BY <2>4, <2>5, <2>8 DEF OrderInv, RankKept, Ordered
<1>2. ASSUME NEW h \in Threads, Take(h) PROVE OrderInv'
  <2>1. Busy(h) /\ Pass(h) /\ Head(rest[h]).op = "take"
    BY <1>2 DEF Take, Goes
  <2> DEFINE n == Head(rest[h]).on
  <2>2. n \in Mutexes /\ holder[n] = Nobody /\ holder' = [holder EXCEPT ![n] = h]
    BY <1>2, <2>1, PassKeeps DEF Take, Wanted, Steps
  <2>3. TypesOK'
    BY <2>1, <2>2, PassKeeps DEF OrderInv, TypesOK
  <2>4. rest[h] \in Seq(Steps) /\ rest[h] # <<>> /\ rest[h][1] = Head(rest[h])
    BY <2>1 DEF Busy, OrderInv, TypesOK
  <2>5. Covered(rest'[h], 1, n)
    <3>1. Covered(rest[h], 1 + 1, n)
      BY <2>1, <2>4 DEF OrderInv, RankKept, Ordered
    <3> QED BY <2>1, <2>2, <2>4, <3>1, PassKeeps, TailCovered
  <2>6. ASSUME NEW m \in Mutexes, holder'[m] # Nobody PROVE Covered(rest'[holder'[m]], 1, m)
    <3>1. CASE m = n
      BY <2>2, <2>5, <3>1 DEF OrderInv, TypesOK
    <3>2. CASE m # n
      <4>1. holder'[m] = holder[m] /\ Covered(rest[holder[m]], 1, m) /\ holder[m] \in Threads
        BY <2>2, <2>6, <3>2 DEF OrderInv, TypesOK, InvHeld
      <4>2. rest[h][1] # Step("give", m)
        BY <2>1, <2>4 DEF Step
      <4>3. CASE holder[m] = h
        BY <2>1, <4>1, <4>2, <4>3, PassKeeps
      <4>4. CASE holder[m] # h
        BY <2>1, <4>1, <4>4, PassKeeps
      <4> QED BY <4>3, <4>4
    <3> QED BY <3>1, <3>2
  <2> QED BY <2>1, <2>3, <2>6, PassKeeps DEF OrderInv, InvHeld, RankKept
<1>3. ASSUME NEW h \in Threads, GlanceAt(h) PROVE OrderInv'
  <2>1. Busy(h) /\ Pass(h) /\ Head(rest[h]).op = "glance" /\ UNCHANGED holder
    BY <1>3 DEF GlanceAt, Goes
  <2>2. TypesOK'
    BY <2>1, PassKeeps DEF OrderInv, TypesOK
  <2>3. ASSUME NEW m \in Mutexes, holder'[m] # Nobody PROVE Covered(rest'[holder'[m]], 1, m)
    <3>1. holder'[m] = holder[m] /\ Covered(rest[holder[m]], 1, m) /\ holder[m] \in Threads
      BY <2>1, <2>3 DEF OrderInv, TypesOK, InvHeld
    <3>2. Head(rest[h]) # Step("give", m)
      BY <2>1 DEF Step
    <3> QED BY <2>1, <3>1, <3>2, PassKeeps
  <2> QED BY <2>1, <2>2, <2>3, PassKeeps DEF OrderInv, InvHeld, RankKept
<1>4. ASSUME NEW h \in Threads, Give(h) PROVE OrderInv'
  <2>1. Busy(h) /\ Pass(h) /\ Head(rest[h]).op = "give"
    BY <1>4 DEF Give, Goes
  <2> DEFINE n == Head(rest[h]).on
  <2>2. n \in Mutexes /\ holder' = [holder EXCEPT ![n] = Nobody]
    BY <1>4, <2>1, PassKeeps DEF Give, Wanted, Steps
  <2>3. TypesOK'
    BY <2>1, <2>2, PassKeeps DEF OrderInv, TypesOK
  <2>4. ASSUME NEW m \in Mutexes, holder'[m] # Nobody PROVE Covered(rest'[holder'[m]], 1, m)
    <3>1. m # n /\ holder'[m] = holder[m]
      BY <2>2, <2>4 DEF OrderInv, TypesOK
    <3>2. Covered(rest[holder[m]], 1, m) /\ holder[m] \in Threads
      BY <2>4, <3>1 DEF OrderInv, TypesOK, InvHeld
    <3>3. Head(rest[h]) # Step("give", m)
      BY <3>1 DEF Step
    <3> QED BY <2>1, <3>1, <3>2, <3>3, PassKeeps
  <2> QED BY <2>1, <2>3, <2>4, PassKeeps DEF OrderInv, InvHeld, RankKept
<1>5. ASSUME NEW h \in Threads, End(h) PROVE OrderInv'
  BY <1>5 DEF End, OrderInv, TypesOK, InvHeld, RankKept, Ordered
<1>6. CASE UNCHANGED vars
  BY <1>6 DEF vars, OrderInv, TypesOK, InvHeld, RankKept, Ordered
<1> QED BY <1>1, <1>2, <1>3, <1>4, <1>5, <1>6 DEF Next, Proceed

(***************************************************************************)
(* In a circle every thread would want a mutex of a higher rank than the     *)
(* thread before it, and there are six ranks.                                *)
(***************************************************************************)
LEMMA NoCircle == OrderInv => NoCircularWait
<1> SUFFICES ASSUME OrderInv, NEW S \in SUBSET Threads, S # {},
                    \A h \in S : Waiting(h) /\ holder[Wanted(h)] \in S
             PROVE  FALSE
  BY DEF NoCircularWait
<1> USE NobodyIsNoThread
<1>1. ASSUME NEW h \in S PROVE Wanted(h) \in Mutexes
  <2>1. h \in Threads /\ rest[h] \in Seq(Steps) /\ rest[h] # <<>>
    BY DEF OrderInv, TypesOK, Waiting, Goes, Busy
  <2>2. Head(rest[h]) \in Steps
    BY <2>1
  <2> QED BY <2>2 DEF Wanted, Steps
<1>2. ASSUME NEW h \in S
      PROVE  \E g \in S : Rank(Wanted(h)) < Rank(Wanted(g))
  <2> DEFINE g == holder[Wanted(h)]
  <2>1. g \in S /\ g # Nobody /\ Covered(rest[g], 1, Wanted(h))
    BY <1>1 DEF OrderInv, InvHeld
  <2>2. PICK k \in 1..Len(rest[g]) :
          /\ rest[g][k] = Step("give", Wanted(h))
          /\ \A j \in 1..(k - 1) : rest[g][j].op # "give" => Rank(Wanted(h)) < Rank(rest[g][j].on)
    BY <2>1 DEF Covered
  <2>3. rest[g] \in Seq(Steps) /\ Busy(g) /\ Head(rest[g]).op # "give"
    BY <2>1 DEF OrderInv, TypesOK, Waiting, Goes
  <2>4. rest[g][1] = Head(rest[g])
    BY <2>3 DEF Busy
  <2>5. 1 \in 1..(k - 1)
    BY <2>2, <2>3, <2>4 DEF Step
  <2>6. Rank(Wanted(h)) < Rank(Wanted(g))
    BY <2>2, <2>3, <2>4, <2>5 DEF Wanted
  <2> QED BY <2>1, <2>6
<1> DEFINE Below(n) == \A h \in S : Rank(Wanted(h)) < n
<1>3. \A h \in S : Rank(Wanted(h)) \in 1..6
  BY <1>1, RankRange
<1>4. ASSUME NEW n \in 1..6, Below(n + 1) PROVE Below(n)
  <2> SUFFICES ASSUME NEW h \in S PROVE Rank(Wanted(h)) < n
    OBVIOUS
  <2>1. PICK g \in S : Rank(Wanted(h)) < Rank(Wanted(g))
    BY <1>2
  <2> QED BY <1>3, <1>4, <2>1
<1>5. Below(7)
  BY <1>3
<1> HIDE DEF Below
<1>6. Below(6)
  BY <1>4, <1>5
<1>7. Below(5)
  BY <1>4, <1>6
<1>8. Below(4)
  BY <1>4, <1>7
<1>9. Below(3)
  BY <1>4, <1>8
<1>10. Below(2)
  BY <1>4, <1>9
<1>11. Below(1)
  BY <1>4, <1>10
<1> QED BY <1>3, <1>11 DEF Below

LEMMA OrderTypes == OrderInv => TypeOK
<1> SUFFICES ASSUME OrderInv, NEW m \in Mutexes, holder[m] # Nobody
             PROVE  Kept(rest[holder[m]], m)
  BY DEF OrderInv, TypesOK, TypeOK
<1>1. holder[m] \in Threads /\ Covered(rest[holder[m]], 1, m)
  BY DEF OrderInv, TypesOK, InvHeld
<1> QED BY <1>1, CoveredIsKept DEF OrderInv, TypesOK

(***************************************************************************)
(* Manager, Track, Route, LocoBase and Feedback: as long as nobody starts or *)
(* immediately stops all locomotives at once, no train overruns and no track *)
(* is released when it becomes free, no threads wait for each other in a     *)
(* circle, in any layout and with any number of threads.                     *)
(***************************************************************************)
THEOREM NeverStuck == ASSUME InOrder PROVE Spec => []NoCircularWait
<1>1. OrderInv /\ [Next]_vars => OrderInv'
  BY OrderStep
<1> QED BY <1>1, OrderInit, NoCircle, PTL DEF Spec

(***************************************************************************)
(* Under the same condition whoever has a mutex gives it back further on.    *)
(***************************************************************************)
THEOREM HeldIsKept == ASSUME InOrder PROVE Spec => []TypeOK
<1>1. OrderInv /\ [Next]_vars => OrderInv'
  BY OrderStep
<1> QED BY <1>1, OrderInit, OrderTypes, PTL DEF Spec
=============================================================================
