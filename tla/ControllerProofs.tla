--------------------------- MODULE ControllerProofs ---------------------------
(***************************************************************************)
(* Theorems about Controller, for every template, rule set and behaviour   *)
(* rule, and any order of the table's events: the counters agree, events   *)
(* are judged with the table's point, behaviour rules keep their pace, and *)
(* a plan takes the table to what the template and the rules ask for.      *)
(***************************************************************************)
EXTENDS Controller, FiniteSetTheorems, SequenceTheorems, TLAPS

---------------------------------------------------------------------------
(* The counters. *)

\* What handle_event does to what is counted and to the behaviour rules.
Engine(ev, view, i) ==
  /\ i = FirstOpen(Prepared(dsl, ev.type), view)
  /\ dsl' = Armed(Prepared(dsl, ev.type), i)
  /\ out'.intent = IF i = 0 THEN "" ELSE DslRules[i].id
  /\ fired'.dsl = [r \in DslIds |-> IF i # 0 /\ DslRules[i].id = r
                                    THEN [rolls |-> Events(stats'), hands |-> stats'["comeout"]]
                                    ELSE fired.dsl[r]]

\* handle_event, by what each counter becomes of it.
LEMMA HandleFacts ==
  ASSUME NEW ev, NEW bets, Handle(ev, bets)
  PROVE  /\ stats' = [stats EXCEPT ![ev.type] = @ + 1] /\ tracked' = tracked /\ hands' = HandsAfter(ev)
         /\ \E number : tracker' = IF tracked THEN TrackerAfter(ev, Recorded(ev, number)) ELSE tracker
         /\ \E view, i : Engine(ev, view, i)
<1>1. stats' = [stats EXCEPT ![ev.type] = @ + 1] /\ tracked' = tracked /\ hands' = HandsAfter(ev)
  BY DEF Handle
<1>2. \E number : tracker' = IF tracked THEN TrackerAfter(ev, Recorded(ev, number)) ELSE tracker
  <2>1. tracker' = IF tracked THEN TrackerAfter(ev, IF tracked THEN Recorded(ev, Entered(ctl, ev).rolls) ELSE tracker)
                   ELSE tracker
    BY DEF Handle
  <2>2. PICK number : number = Entered(ctl, ev).rolls
    OBVIOUS
  <2>3. tracker' = IF tracked THEN TrackerAfter(ev, Recorded(ev, number)) ELSE tracker
    BY <2>1, <2>2
  <2> QED BY <2>3
<1>3. \E view, i : Engine(ev, view, i)
  <2> DEFINE final == IF tracked
                      THEN TrackerAfter(ev, IF tracked THEN Recorded(ev, Entered(ctl, ev).rolls) ELSE tracker)
                      ELSE tracker
  <2>1. PICK view : view = [on |-> ev.on, drawdown |-> final.peak - final.bank, streak |-> 0]
    OBVIOUS
  <2>2. PICK i : i = FirstOpen(Prepared(dsl, ev.type), view)
    OBVIOUS
  <2>3. /\ dsl' = Armed(Prepared(dsl, ev.type), i)
        /\ out'.intent = IF i = 0 THEN "" ELSE DslRules[i].id
        /\ fired'.dsl = [r \in DslIds |-> IF i # 0 /\ DslRules[i].id = r
                                          THEN [rolls |-> Events(stats'), hands |-> stats'["comeout"]]
                                          ELSE fired.dsl[r]]
    BY <2>1, <2>2 DEF Handle
  <2>4. Engine(ev, view, i)
    BY ONLY <2>2, <2>3 DEF Engine
  <2> QED BY <2>4
<1> QED BY <1>1, <1>2, <1>3

\* An event of this type is handled.
Heeds(type) == \E ev, bets : ev.type = type /\ Handle(ev, bets)

\* A step is an event of a heeded type handled, or leaves the counters alone.
LEMMA StepKinds ==
  ASSUME [Next]_vars
  PROVE  \/ UNCHANGED <<tracker, hands, dsl, stats, tracked, fired>>
         \/ \E type \in Heeded : Heeds(type)
<1>1. ASSUME NEW type \in Heeded, NEW puck, Deal(type, puck)
      PROVE  Heeds(type)
  <2>1. PICK bets, money : Handle([type |-> type, point |-> puck, on |-> puck # 0, money |-> money], bets)
    BY <1>1 DEF Deal
  <2>2. PICK ev : ev = [type |-> type, point |-> puck, on |-> puck # 0, money |-> money]
    OBVIOUS
  <2>3. ev.type = type /\ Handle(ev, bets)
    BY <2>1, <2>2
  <2> QED BY <2>3 DEF Heeds
<1>2. {"comeout", "point_established", "roll", "seven_out"} = Heeded
  BY DEF Heeded
<1>3. CASE MakePoint \/ UNCHANGED vars
  BY <1>3 DEF MakePoint, Unheeded, vars
<1>4. CASE Comeout \/ SetPoint \/ Roll \/ SevenOut
  BY <1>1, <1>2, <1>4 DEF Comeout, SetPoint, Roll, SevenOut
<1> QED BY <1>3, <1>4 DEF Next

\* One more event is one more.
LEMMA Counted ==
  ASSUME stats \in [Heeded -> Nat], NEW type \in Heeded, stats' = [stats EXCEPT ![type] = @ + 1]
  PROVE  /\ stats' \in [Heeded -> Nat] /\ Events(stats) \in Nat /\ Events(stats') = Events(stats) + 1
         /\ stats' # stats
         /\ stats'["comeout"] = stats["comeout"] + IF type = "comeout" THEN 1 ELSE 0
<1>1. Heeded = {"comeout", "point_established", "roll", "seven_out"}
  BY DEF Heeded
<1>2. stats' \in [Heeded -> Nat]
  OBVIOUS
<1>3. /\ stats["comeout"] \in Nat /\ stats["point_established"] \in Nat /\ stats["roll"] \in Nat
      /\ stats["seven_out"] \in Nat
  BY <1>1
<1>4. Events(stats) \in Nat /\ Events(stats') = Events(stats) + 1
  <2>1. CASE type = "comeout"
    BY <1>1, <1>3, <2>1 DEF Events
  <2>2. CASE type = "point_established"
    BY <1>1, <1>3, <2>2 DEF Events
  <2>3. CASE type = "roll"
    BY <1>1, <1>3, <2>3 DEF Events
  <2>4. CASE type = "seven_out"
    BY <1>1, <1>3, <2>4 DEF Events
  <2> QED BY <1>1, <2>1, <2>2, <2>3, <2>4
<1>5. stats' # stats
  BY <1>4
<1>6. stats'["comeout"] = stats["comeout"] + IF type = "comeout" THEN 1 ELSE 0
  BY <1>1, <1>3
<1> QED BY <1>2, <1>4, <1>5, <1>6

\* The tracker is a record, and the hands and the rolls it counts are numbers.
TrackerFields == {"bank", "peak", "low", "draw", "hand", "roll", "hands", "rolls", "made", "pso", "active", "since"}

IsTracker(t) ==
  /\ DOMAIN t = TrackerFields /\ t = [f \in TrackerFields |-> t[f]]
  /\ t.hand \in Nat /\ t.hands \in Nat /\ t.rolls \in Nat

Alike(t, u) == u.hand = t.hand /\ u.hands = t.hands /\ u.rolls = t.rolls

\* Going off the point, the bankroll and the point cycle leave the counts as they are.
LEMMA OffPointAlike ==
  ASSUME NEW t, IsTracker(t)
  PROVE  IsTracker(OffPoint(t)) /\ Alike(t, OffPoint(t))
  BY DEF OffPoint, IsTracker, TrackerFields, Alike

\* The bankroll and its extremes are no counters.
LEMMA BankedAlike ==
  ASSUME NEW t, IsTracker(t), NEW n
  PROVE  IsTracker(Banked(t, n)) /\ Alike(t, Banked(t, n))
  BY DEF Banked, IsTracker, TrackerFields, Alike

\* Neither is the point cycle.
LEMMA CycledAlike ==
  ASSUME NEW t, IsTracker(t), NEW type, NEW point, NEW number
  PROVE  IsTracker(Cycled(t, type, point, number)) /\ Alike(t, Cycled(t, type, point, number))
<1>1. ASSUME NEW u, u \in {[t EXCEPT !.active = point # 0, !.since = 0], [t EXCEPT !.since = Greater(@, number)],
                           [t EXCEPT !.made = IF t.active THEN @ + 1 ELSE @],
                           [t EXCEPT !.pso = IF t.active /\ t.since = 0 /\ number = 0 THEN @ + 1 ELSE @]}
      PROVE  IsTracker(u) /\ Alike(t, u)
  BY <1>1 DEF IsTracker, TrackerFields, Alike
<1>2. ASSUME NEW u, IsTracker(u), Alike(t, u)
      PROVE  IsTracker(OffPoint(u)) /\ Alike(t, OffPoint(u))
  BY <1>2, OffPointAlike DEF Alike
<1>3. IsTracker(t) /\ Alike(t, t)
  BY DEF Alike
<1>4. CASE type = "point_established"
  BY <1>1, <1>4 DEF Cycled
<1>5. CASE type = "roll"
  BY <1>1, <1>3, <1>5 DEF Cycled
<1>6. CASE type = "point_made"
  BY <1>1, <1>2, <1>6 DEF Cycled
<1>7. CASE type = "seven_out"
  BY <1>1, <1>2, <1>7 DEF Cycled
<1>8. CASE type \notin {"point_established", "roll", "point_made", "seven_out"}
  BY <1>2, <1>3, <1>8 DEF Cycled
<1> QED BY <1>4, <1>5, <1>6, <1>7, <1>8

\* What starts a hand and what counts a roll, on any tracker.
LEMMA OneHandMore ==
  ASSUME NEW o, IsTracker(o), NEW h, h = [o EXCEPT !.hand = @ + 1, !.roll = 0, !.hands = @ + 1]
  PROVE  IsTracker(h) /\ h.rolls = o.rolls /\ h.hand = o.hand + 1 /\ h.hands = o.hands + 1
<1>1. DOMAIN h = TrackerFields /\ h = [f \in TrackerFields |-> h[f]]
  BY DEF IsTracker
<1>2. h.hand = o.hand + 1
  BY DEF IsTracker, TrackerFields
<1>3. h.hands = o.hands + 1
  BY DEF IsTracker, TrackerFields
<1>4. h.rolls = o.rolls
  BY DEF IsTracker, TrackerFields
<1>5. h.hand \in Nat /\ h.hands \in Nat /\ h.rolls \in Nat
  BY <1>2, <1>3, <1>4 DEF IsTracker
<1> QED BY <1>1, <1>2, <1>3, <1>4, <1>5 DEF IsTracker

\* What counts a roll counts one, and no hand.
LEMMA OneRollMore ==
  ASSUME NEW o, IsTracker(o)
  PROVE  LET u == [o EXCEPT !.roll = @ + 1, !.rolls = @ + 1]
         IN  IsTracker(u) /\ u.rolls = o.rolls + 1 /\ u.hand = o.hand /\ u.hands = o.hands
<1>1. PICK u : u = [o EXCEPT !.roll = @ + 1, !.rolls = @ + 1]
  OBVIOUS
<1>2. DOMAIN u = TrackerFields /\ u = [f \in TrackerFields |-> u[f]]
  BY <1>1 DEF IsTracker
<1>3. u.rolls = o.rolls + 1
  BY <1>1 DEF IsTracker, TrackerFields
<1>4. u.hand = o.hand /\ u.hands = o.hands
  BY <1>1 DEF IsTracker, TrackerFields
<1>5. u.hand \in Nat /\ u.hands \in Nat /\ u.rolls \in Nat
  BY <1>3, <1>4 DEF IsTracker
<1>6. IsTracker(u)
  BY <1>2, <1>5 DEF IsTracker
<1> QED BY <1>1, <1>3, <1>4, <1>6

\* A recorded event is one roll more, and one hand more when it starts or opens one.
LEMMA RecordedCounts ==
  ASSUME IsTracker(tracker), NEW ev, NEW number
  PROVE  /\ IsTracker(TrackerAfter(ev, Recorded(ev, number)))
         /\ TrackerAfter(ev, Recorded(ev, number)).rolls = tracker.rolls + 1
         /\ \A f \in {"hand", "hands"} :
              TrackerAfter(ev, Recorded(ev, number))[f] =
                IF StartsHand(ev) \/ OpensHand(ev) THEN tracker[f] + 1 ELSE tracker[f]
<1> DEFINE new == StartsHand(ev) \/ OpensHand(ev)
           t == IF new THEN HandStarted(tracker) ELSE tracker
           u == [t EXCEPT !.roll = @ + 1, !.rolls = @ + 1]
<1>1. IsTracker(OffPoint(tracker)) /\ Alike(tracker, OffPoint(tracker))
  BY OffPointAlike
<1>2. /\ IsTracker(HandStarted(tracker)) /\ HandStarted(tracker).rolls = tracker.rolls
      /\ HandStarted(tracker).hand = tracker.hand + 1 /\ HandStarted(tracker).hands = tracker.hands + 1
  <2> HIDE DEF new
  <2>1. PICK o : o = OffPoint(tracker)
    OBVIOUS
  <2>2. HandStarted(tracker) = [o EXCEPT !.hand = @ + 1, !.roll = 0, !.hands = @ + 1]
    BY <2>1 DEF HandStarted
  <2>3. IsTracker(o) /\ o.hand = tracker.hand /\ o.hands = tracker.hands /\ o.rolls = tracker.rolls
    BY <1>1, <2>1 DEF Alike
  <2>4. PICK h : h = [o EXCEPT !.hand = @ + 1, !.roll = 0, !.hands = @ + 1]
    OBVIOUS
  <2>5. IsTracker(h) /\ h.rolls = o.rolls /\ h.hand = o.hand + 1 /\ h.hands = o.hands + 1
    BY <2>3, <2>4, OneHandMore
  <2>6. HandStarted(tracker) = h
    BY <2>2, <2>4
  <2> QED BY <2>3, <2>5, <2>6
<1>3. /\ IsTracker(t) /\ t.rolls = tracker.rolls
      /\ t.hand = IF new THEN tracker.hand + 1 ELSE tracker.hand
      /\ t.hands = IF new THEN tracker.hands + 1 ELSE tracker.hands
  <2> HIDE DEF new
  <2> QED BY <1>2
<1> HIDE DEF t
<1>4. IsTracker(u) /\ u.rolls = t.rolls + 1 /\ u.hand = t.hand /\ u.hands = t.hands
  BY <1>3, OneRollMore
<1> DEFINE c == Cycled(Banked(u, Resolved(t.bank, ev.money)), ev.type, ev.point, number)
<1>5. IsTracker(c) /\ Alike(u, c)
  <2> HIDE DEF u
  <2>1. PICK b : b = Banked(u, Resolved(t.bank, ev.money))
    OBVIOUS
  <2>2. IsTracker(b) /\ Alike(u, b)
    BY <1>4, <2>1, BankedAlike
  <2>3. c = Cycled(b, ev.type, ev.point, number)
    BY <2>1
  <2> QED BY <2>2, <2>3, CycledAlike DEF Alike
<1>6. Recorded(ev, number) = IF ev.on THEN c ELSE OffPoint(c)
  BY DEF Recorded, RollCounted, t
<1> HIDE DEF u, c
<1>7. IsTracker(Recorded(ev, number)) /\ Alike(u, Recorded(ev, number))
  BY <1>5, <1>6, OffPointAlike DEF Alike
<1>8. IsTracker(TrackerAfter(ev, Recorded(ev, number))) /\ Alike(u, TrackerAfter(ev, Recorded(ev, number)))
  BY <1>7, OffPointAlike DEF TrackerAfter, HandEnded, Alike
<1> QED BY <1>3, <1>4, <1>8 DEF Alike

Counts ==
  /\ stats \in [Heeded -> Nat] /\ tracked \in BOOLEAN /\ hands.count \in Nat
  /\ tracked => IsTracker(tracker)
  /\ CountersAgree

\* The counters agree at first.
LEMMA InitCounts == Init => Counts
<1> SUFFICES ASSUME Init PROVE Counts
  OBVIOUS
<1>1. stats = [e \in Heeded |-> 0] /\ dsl.index = 0 /\ tracked \in BOOLEAN /\ hands.count = 0
  BY DEF Init
<1>2. stats \in [Heeded -> Nat] /\ Events(stats) = 0
  BY <1>1 DEF Events, Heeded
<1>3. tracker = NewTracker(StartBankroll)
  BY DEF Init
<1>4. IsTracker(tracker) /\ tracker.hand = 0 /\ tracker.hands = 0 /\ tracker.rolls = 0
  BY <1>3 DEF NewTracker, IsTracker, TrackerFields
<1> QED BY <1>1, <1>2, <1>4 DEF Counts, CountersAgree

\* The counts are kept.
LEMMA CountsKept == Spec => []Counts
<1>1. Init => Counts
  BY InitCounts
<1>2. Counts /\ [Next]_vars => Counts'
  <2> SUFFICES ASSUME Counts, [Next]_vars PROVE Counts'
    OBVIOUS
  <2>1. CASE UNCHANGED <<tracker, hands, dsl, stats, tracked, fired>>
    BY <2>1 DEF Counts, CountersAgree
  <2>2. ASSUME NEW type \in Heeded, Heeds(type)
        PROVE  Counts'
    <3>1. PICK ev, bets : ev.type = type /\ Handle(ev, bets)
      BY <2>2 DEF Heeds
    <3>2. /\ stats' = [stats EXCEPT ![type] = @ + 1] /\ tracked' = tracked /\ hands' = HandsAfter(ev)
          /\ \E number : tracker' = IF tracked THEN TrackerAfter(ev, Recorded(ev, number)) ELSE tracker
          /\ \E view, i : Engine(ev, view, i)
      BY <3>1, HandleFacts
    <3>3. stats' \in [Heeded -> Nat] /\ Events(stats) \in Nat /\ Events(stats') = Events(stats) + 1
      BY <3>2, Counted DEF Counts
    <3>4. dsl'.index = Events(stats')
      <4>1. PICK view, i : Engine(ev, view, i)
        BY <3>2
      <4>2. PICK d : d = Prepared(dsl, ev.type)
        OBVIOUS
      <4>3. d.index = dsl.index + 1
        BY <4>2 DEF Prepared
      <4>4. dsl' = Armed(d, i)
        BY <4>1, <4>2 DEF Engine
      <4>5. Armed(d, i).index = d.index
        BY DEF Armed
      <4> QED BY <3>3, <4>3, <4>4, <4>5 DEF Counts, CountersAgree
    <3>5. hands'.count = (IF StartsHand(ev) \/ OpensHand(ev) THEN hands.count + 1 ELSE hands.count)
      BY <3>2 DEF HandsAfter
    <3>6. ASSUME tracked
          PROVE  /\ IsTracker(tracker') /\ tracker'.rolls = Events(stats')
                 /\ tracker'.hand = hands'.count /\ tracker'.hands = hands'.count /\ tracker'.hand > 0
      <4>1. PICK number : tracker' = TrackerAfter(ev, Recorded(ev, number))
        BY <3>2, <3>6
      <4>2. /\ IsTracker(tracker') /\ tracker'.rolls = tracker.rolls + 1
            /\ tracker'.hand = IF StartsHand(ev) \/ OpensHand(ev) THEN tracker.hand + 1 ELSE tracker.hand
            /\ tracker'.hands = IF StartsHand(ev) \/ OpensHand(ev) THEN tracker.hands + 1 ELSE tracker.hands
        BY <3>6, <4>1, RecordedCounts DEF Counts
      <4>3. tracker.hand = 0 => StartsHand(ev) \/ OpensHand(ev)
        BY <3>6 DEF OpensHand
      <4> QED BY <3>3, <3>5, <3>6, <4>2, <4>3 DEF Counts, CountersAgree, IsTracker
    <3> QED BY <3>2, <3>3, <3>4, <3>5, <3>6 DEF Counts, CountersAgree
  <2> QED BY <2>1, <2>2, StepKinds
<1> QED BY <1>1, <1>2, PTL DEF Spec

\* The counters that are kept apart - the statistics, the behaviour engine's index, the
\* tracker's rolls and hands and the fallback's hands - never disagree.
THEOREM CountersCorrect == Spec => []CountersAgree
<1>1. Counts => CountersAgree
  BY DEF Counts
<1> QED BY <1>1, CountsKept, PTL

---------------------------------------------------------------------------
(* The pace of the behaviour rules. *)

\* parse_rules lets two rules have one id, and the engine keeps its cooldowns by id:
\* rules of one id are paced together only if they ask for the same cooldown.
SameIdSameCool ==
  \A i, j \in DOMAIN DslRules : DslRules[i].id = DslRules[j].id => DslRules[i].cool = DslRules[j].cool

\* A set of numbers that is not empty has a least one.
LEMMA LeastIsIn ==
  ASSUME NEW S \in SUBSET Nat, S # {}
  PROVE  (CHOOSE t \in S : \A u \in S : t <= u) \in S
<1> DEFINE Before(n) == {m \in Nat : m < n}
           All == {Before(n) : n \in S}
<1>1. ASSUME NEW n \in S
      PROVE  Before(n) \in FiniteSubsetsOf(Nat)
  <2>1. Before(n) \in SUBSET Nat /\ \A m \in Before(n) : m <= n
    OBVIOUS
  <2>2. IsFiniteSet(Before(n))
    BY <2>1, FS_BoundedSetOfNaturals
  <2> QED BY <2>1, <2>2 DEF FiniteSubsetsOf
<1>2. All \subseteq FiniteSubsetsOf(Nat) /\ All # {}
  BY <1>1
<1>3. IsWellFoundedOn(StrictSubsetOrdering(Nat), FiniteSubsetsOf(Nat))
  BY FS_StrictSubsetOrderingWellFounded
<1>4. PICK least \in All : \A other \in All : <<other, least>> \notin StrictSubsetOrdering(Nat)
  <2> HIDE DEF All
  <2> QED BY <1>2, <1>3, WFMin
<1>5. PICK x \in S : least = Before(x)
  OBVIOUS
<1>6. ASSUME NEW y \in S, y < x
      PROVE  FALSE
  <2>1. Before(y) \in All /\ y \in Before(x) /\ y \notin Before(y)
    BY <1>6
  <2>2. Before(y) \subseteq Before(x)
    BY <1>6
  <2>3. <<Before(y), Before(x)>> \in StrictSubsetOrdering(Nat)
    BY <2>1, <2>2 DEF StrictSubsetOrdering
  <2> QED BY <1>4, <1>5, <2>1, <2>3
<1>7. \A y \in S : x <= y
  BY <1>6
<1> QED BY <1>7

\* The rules and their cooldowns.
LEMMA RuleFacts ==
  /\ DOMAIN DslRules \in SUBSET (Nat \ {0})
  /\ \A i \in DOMAIN DslRules : /\ DslRules[i].id \in DslIds /\ DslRules[i].id # ""
                                /\ DslRules[i].cool \in [Scopes -> Nat]
<1>1. PICK kinds : DslRules \in Seq(kinds)
  BY ControllerConstants
<1>2. DOMAIN DslRules = 1..Len(DslRules) /\ Len(DslRules) \in Nat
  BY <1>1
<1>3. DOMAIN DslRules \in SUBSET (Nat \ {0})
  BY <1>2
<1>4. ASSUME NEW i \in DOMAIN DslRules
      PROVE  DslRules[i].id \in DslIds /\ DslRules[i].id # "" /\ DslRules[i].cool \in [Scopes -> Nat]
  <2>1. DslRules[i].id # "" /\ DslRules[i].cool \in [Scopes -> Nat]
    BY ControllerConstants
  <2> QED BY <2>1 DEF DslIds
<1> QED BY <1>3, <1>4

\* The rule that fires is one whose cooldowns have run out.
LEMMA FirstOpenIsOpen ==
  ASSUME NEW d, NEW view
  PROVE  \/ FirstOpen(d, view) = 0
         \/ /\ FirstOpen(d, view) \in DOMAIN DslRules
            /\ ~Cooling(d, DslRules[FirstOpen(d, view)])
<1> DEFINE open == {i \in DOMAIN DslRules : ~Cooling(d, DslRules[i]) /\ Holds(DslRules[i].when, view)}
<1>1. FirstOpen(d, view) = IF open = {} THEN 0 ELSE CHOOSE i \in open : \A j \in open : i <= j
  BY DEF FirstOpen
<1>2. open \in SUBSET Nat
  BY RuleFacts
<1>3. CASE open = {}
  BY <1>1, <1>3
<1>4. CASE open # {}
  <2>1. FirstOpen(d, view) = CHOOSE i \in open : \A j \in open : i <= j
    BY <1>1, <1>4
  <2>2. FirstOpen(d, view) \in open
    <3> HIDE DEF open
    <3> QED BY <1>2, <1>4, <2>1, LeastIsIn
  <2> QED BY <2>2
<1> QED BY <1>3, <1>4

IsCooldowns(c) == c \in [DslIds -> [Scopes -> Nat]]

\* The advance of a scope takes one off a cooldown that runs.
LEMMA PreparedCools ==
  ASSUME NEW d, IsCooldowns(d.cool), NEW type
  PROVE  /\ IsCooldowns(Prepared(d, type).cool)
         /\ \A r \in DslIds : \A s \in Scopes :
              Prepared(d, type).cool[r][s] = IF s \in Advances(type) /\ d.cool[r][s] > 0
                                             THEN d.cool[r][s] - 1 ELSE d.cool[r][s]
<1> DEFINE c == [r \in DslIds |-> [s \in Scopes |->
                   IF s \in Advances(type) /\ d.cool[r][s] > 0 THEN d.cool[r][s] - 1
                   ELSE d.cool[r][s]]]
<1>1. Prepared(d, type).cool = c
  BY DEF Prepared
<1>2. ASSUME NEW r \in DslIds, NEW s \in Scopes
      PROVE  (IF s \in Advances(type) /\ d.cool[r][s] > 0 THEN d.cool[r][s] - 1 ELSE d.cool[r][s]) \in Nat
  <2>1. d.cool[r][s] \in Nat
    BY DEF IsCooldowns
  <2> QED BY <2>1
<1>3. IsCooldowns(c)
  BY <1>2 DEF IsCooldowns
<1> QED BY <1>1, <1>3

\* A rule that fires has its cooldowns armed, and no other rule's are touched.
LEMMA ArmedCools ==
  ASSUME NEW d, IsCooldowns(d.cool), d = [cool |-> d.cool, index |-> d.index], NEW i \in DOMAIN DslRules
  PROVE  /\ IsCooldowns(Armed(d, i).cool)
         /\ \A r \in DslIds : r # DslRules[i].id => Armed(d, i).cool[r] = d.cool[r]
         /\ \A s \in Scopes : DslRules[i].cool[s] > 0 =>
              Armed(d, i).cool[DslRules[i].id][s] >= DslRules[i].cool[s] + 1
<1>1. i # 0 /\ DslRules[i].id \in DslIds /\ DslRules[i].cool \in [Scopes -> Nat]
  BY RuleFacts
<1>2. PICK id, cool : id = DslRules[i].id /\ cool = DslRules[i].cool
  OBVIOUS
<1>3. PICK a : a = [s \in Scopes |-> IF cool[s] > 0 THEN Greater(d.cool[id][s], cool[s] + 1) ELSE d.cool[id][s]]
  OBVIOUS
<1>4. Armed(d, i).cool = [d.cool EXCEPT ![id] = a]
  BY <1>1, <1>2, <1>3 DEF Armed
<1>5. ASSUME NEW s \in Scopes
      PROVE  a[s] \in Nat /\ (cool[s] > 0 => a[s] >= cool[s] + 1)
  <2>1. d.cool[id][s] \in Nat /\ cool[s] \in Nat
    BY <1>1, <1>2 DEF IsCooldowns
  <2> QED BY <1>3, <2>1 DEF Greater
<1>6. a \in [Scopes -> Nat]
  BY <1>3, <1>5
<1>7. IsCooldowns(Armed(d, i).cool)
  BY <1>1, <1>2, <1>4, <1>6 DEF IsCooldowns
<1>8. \A r \in DslIds : r # id => Armed(d, i).cool[r] = d.cool[r]
  BY <1>4 DEF IsCooldowns
<1>9. Armed(d, i).cool[id] = a
  BY <1>1, <1>2, <1>4 DEF IsCooldowns
<1> QED BY <1>2, <1>5, <1>7, <1>8, <1>9

\* A rule with a cooldown that has fired waits: what is left of the cooldown and the
\* events since come to more than the cooldown.
Waits(i) ==
  LET r == DslRules[i]
      f == fired.dsl[r.id]
  IN  f.rolls > 0 =>
        /\ f.rolls <= Events(stats) /\ f.hands <= stats["comeout"]
        /\ r.cool["rolls"] > 0 => dsl.cool[r.id]["rolls"] + (Events(stats) - f.rolls) > r.cool["rolls"]
        /\ r.cool["hands"] > 0 => dsl.cool[r.id]["hands"] + (stats["comeout"] - f.hands) > r.cool["hands"]

Paces ==
  /\ stats \in [Heeded -> Nat] /\ IsCooldowns(dsl.cool)
  /\ fired.dsl \in [DslIds -> [rolls : Nat, hands : Nat]]
  /\ \A i \in DOMAIN DslRules : Waits(i)

\* An event leaves the counters, the cooldowns and the record of what fired well-formed.
LEMMA EventTyped ==
  ASSUME Paces, NEW type \in Heeded, Heeds(type)
  PROVE  /\ stats' \in [Heeded -> Nat] /\ IsCooldowns(dsl'.cool)
         /\ fired'.dsl \in [DslIds -> [rolls : Nat, hands : Nat]]
<1>1. PICK ev, bets : ev.type = type /\ Handle(ev, bets)
  BY DEF Heeds
<1>2. stats' = [stats EXCEPT ![type] = @ + 1] /\ \E view, k : Engine(ev, view, k)
  BY <1>1, HandleFacts
<1>3. PICK view, k : Engine(ev, view, k)
  BY <1>2
<1>4. stats' \in [Heeded -> Nat] /\ Events(stats') \in Nat /\ stats'["comeout"] \in Nat
  <2>1. stats' \in [Heeded -> Nat] /\ Events(stats) \in Nat /\ Events(stats') = Events(stats) + 1
    BY <1>2, Counted DEF Paces
  <2> QED BY <2>1 DEF Heeded
<1>5. PICK d : d = Prepared(dsl, type)
  OBVIOUS
<1>6. IsCooldowns(d.cool) /\ d = [cool |-> d.cool, index |-> d.index]
  <2>1. IsCooldowns(d.cool)
    BY <1>5, PreparedCools DEF Paces
  <2> QED BY <1>5, <2>1 DEF Prepared
<1>7. k = FirstOpen(d, view) /\ dsl' = Armed(d, k)
  BY <1>1, <1>3, <1>5 DEF Engine
<1>8. IsCooldowns(dsl'.cool)
  <2>1. CASE k = 0
    BY <1>6, <1>7, <2>1 DEF Armed
  <2>2. CASE k \in DOMAIN DslRules
    BY <1>6, <1>7, <2>2, ArmedCools
  <2> QED BY <1>7, <2>1, <2>2, FirstOpenIsOpen
<1>9. [rolls |-> Events(stats'), hands |-> stats'["comeout"]] \in [rolls : Nat, hands : Nat]
  BY <1>4
<1>10. fired'.dsl \in [DslIds -> [rolls : Nat, hands : Nat]]
  <2>1. PICK now : now = [rolls |-> Events(stats'), hands |-> stats'["comeout"]]
    OBVIOUS
  <2>2. fired'.dsl = [r \in DslIds |-> IF k # 0 /\ DslRules[k].id = r THEN now ELSE fired.dsl[r]]
    BY <1>3, <2>1 DEF Engine
  <2>3. now \in [rolls : Nat, hands : Nat]
    BY <1>9, <2>1
  <2> QED BY <2>2, <2>3 DEF Paces
<1> QED BY <1>4, <1>8, <1>10

\* A cooldown that has just been armed waits.
LEMMA ArmedWaits ==
  ASSUME NEW rest \in Nat, NEW cool \in Nat, NEW n \in Nat, cool > 0 => rest >= cool + 1
  PROVE  n <= n /\ (cool > 0 => rest + (n - n) > cool)
  OBVIOUS

\* What an event does to the cooldowns of one rule, and what it takes to fire it.
LEMMA PaceStep ==
  ASSUME Paces, SameIdSameCool, NEW type \in Heeded, Heeds(type), NEW i \in DOMAIN DslRules
  PROVE  /\ Waits(i)'
         /\ (out'.intent = DslRules[i].id /\ fired.dsl[DslRules[i].id].rolls > 0) =>
              /\ DslRules[i].cool["rolls"] > 0 =>
                   Events(stats') - fired.dsl[DslRules[i].id].rolls > DslRules[i].cool["rolls"]
              /\ DslRules[i].cool["hands"] > 0 =>
                   stats'["comeout"] - fired.dsl[DslRules[i].id].hands > DslRules[i].cool["hands"]
<1>1. PICK ev, bets : ev.type = type /\ Handle(ev, bets)
  BY DEF Heeds
<1>2. stats' = [stats EXCEPT ![type] = @ + 1] /\ \E view, k : Engine(ev, view, k)
  BY <1>1, HandleFacts
<1>3. PICK view, k : Engine(ev, view, k)
  BY <1>2
<1>4. PICK e, ne, c, nc :
        /\ e = Events(stats) /\ ne = Events(stats') /\ c = stats["comeout"] /\ nc = stats'["comeout"]
        /\ e \in Nat /\ ne = e + 1 /\ c \in Nat /\ nc = c + IF type = "comeout" THEN 1 ELSE 0
        /\ ne \in Nat /\ nc \in Nat
  <2>1. /\ Events(stats) \in Nat /\ Events(stats') = Events(stats) + 1
        /\ stats'["comeout"] = stats["comeout"] + IF type = "comeout" THEN 1 ELSE 0
    BY <1>2, Counted DEF Paces
  <2>2. stats["comeout"] \in Nat
    BY DEF Paces, Heeded
  <2> QED BY <2>1, <2>2
<1>5. PICK d, now : d = Prepared(dsl, type) /\ now = [rolls |-> ne, hands |-> nc]
  OBVIOUS
<1>6. /\ d = [cool |-> d.cool, index |-> d.index] /\ k = FirstOpen(d, view) /\ dsl' = Armed(d, k)
      /\ out'.intent = IF k = 0 THEN "" ELSE DslRules[k].id
      /\ fired'.dsl = [r \in DslIds |-> IF k # 0 /\ DslRules[k].id = r THEN now ELSE fired.dsl[r]]
      /\ now.rolls = ne /\ now.hands = nc
  <2>1. d = [cool |-> d.cool, index |-> d.index]
    BY <1>5 DEF Prepared
  <2> QED BY <1>1, <1>3, <1>4, <1>5, <2>1 DEF Engine
<1>7. PICK id, cool, left, was, rest, f, nf :
        /\ id = DslRules[i].id /\ cool = DslRules[i].cool /\ left = dsl.cool[id] /\ was = d.cool[id]
        /\ rest = dsl'.cool[id] /\ f = fired.dsl[id] /\ nf = fired'.dsl[id]
  OBVIOUS
<1>8. id \in DslIds /\ id # "" /\ cool["rolls"] \in Nat /\ cool["hands"] \in Nat
  BY <1>7, RuleFacts DEF Scopes
<1>9. /\ IsCooldowns(d.cool) /\ left["rolls"] \in Nat /\ left["hands"] \in Nat
      /\ was["rolls"] = (IF left["rolls"] > 0 THEN left["rolls"] - 1 ELSE left["rolls"])
      /\ was["hands"] = (IF type = "comeout" /\ left["hands"] > 0 THEN left["hands"] - 1 ELSE left["hands"])
  <2>1. left["rolls"] \in Nat /\ left["hands"] \in Nat
    BY <1>7, <1>8 DEF Paces, IsCooldowns, Scopes
  <2>2. /\ IsCooldowns(d.cool)
        /\ \A r \in DslIds : \A s \in Scopes :
             d.cool[r][s] = IF s \in Advances(type) /\ dsl.cool[r][s] > 0
                            THEN dsl.cool[r][s] - 1 ELSE dsl.cool[r][s]
    BY <1>5, PreparedCools DEF Paces
  <2>3. "rolls" \in Advances(type) /\ ("hands" \in Advances(type) <=> type = "comeout")
    BY DEF Advances
  <2>4. was["rolls"] = (IF left["rolls"] > 0 THEN left["rolls"] - 1 ELSE left["rolls"])
    BY <1>7, <1>8, <2>2, <2>3 DEF Scopes
  <2>5. was["hands"] = (IF type = "comeout" /\ left["hands"] > 0 THEN left["hands"] - 1 ELSE left["hands"])
    BY <1>7, <1>8, <2>2, <2>3 DEF Scopes
  <2> QED BY <2>1, <2>2, <2>4, <2>5
<1>10. f.rolls \in Nat /\ f.hands \in Nat
  BY <1>7, <1>8 DEF Paces
<1>11. ASSUME f.rolls > 0
       PROVE  /\ f.rolls <= ne /\ f.hands <= nc
              /\ cool["rolls"] > 0 => was["rolls"] + (ne - f.rolls) > cool["rolls"]
              /\ cool["hands"] > 0 => was["hands"] + (nc - f.hands) > cool["hands"]
              /\ (cool["rolls"] > 0 /\ ~(was["rolls"] > 0)) => ne - f.rolls > cool["rolls"]
              /\ (cool["hands"] > 0 /\ ~(was["hands"] > 0)) => nc - f.hands > cool["hands"]
  <2>1. /\ f.rolls <= e /\ f.hands <= c
        /\ cool["rolls"] > 0 => left["rolls"] + (e - f.rolls) > cool["rolls"]
        /\ cool["hands"] > 0 => left["hands"] + (c - f.hands) > cool["hands"]
    BY <1>4, <1>7, <1>11 DEF Paces, Waits
  <2>2. /\ f.rolls <= ne
        /\ cool["rolls"] > 0 => was["rolls"] + (ne - f.rolls) > cool["rolls"]
        /\ (cool["rolls"] > 0 /\ ~(was["rolls"] > 0)) => ne - f.rolls > cool["rolls"]
    <3>1. PICK l, w, m, g : l = left["rolls"] /\ w = was["rolls"] /\ m = cool["rolls"] /\ g = f.rolls
      OBVIOUS
    <3>2. /\ l \in Nat /\ m \in Nat /\ g \in Nat /\ e \in Nat /\ g <= e /\ ne = e + 1
          /\ w = (IF l > 0 THEN l - 1 ELSE l) /\ (m > 0 => l + (e - g) > m)
      BY <1>4, <1>8, <1>9, <1>10, <2>1, <3>1
    <3>3. /\ g <= ne /\ (m > 0 => w + (ne - g) > m)
          /\ (m > 0 /\ ~(w > 0)) => ne - g > m
      BY ONLY <3>2
    <3> QED BY <3>1, <3>3
  <2>3. /\ f.hands <= nc
        /\ cool["hands"] > 0 => was["hands"] + (nc - f.hands) > cool["hands"]
        /\ (cool["hands"] > 0 /\ ~(was["hands"] > 0)) => nc - f.hands > cool["hands"]
    <3>1. PICK tick \in {0, 1} : tick = IF type = "comeout" THEN 1 ELSE 0
      OBVIOUS
    <3>2. PICK l, w, m, g : l = left["hands"] /\ w = was["hands"] /\ m = cool["hands"] /\ g = f.hands
      OBVIOUS
    <3>3. nc = c + tick /\ w = (IF tick = 1 /\ l > 0 THEN l - 1 ELSE l)
      BY <1>4, <1>9, <3>1, <3>2
    <3>4. /\ l \in Nat /\ m \in Nat /\ g \in Nat /\ c \in Nat /\ g <= c /\ nc = c + tick
          /\ w = (IF tick = 1 /\ l > 0 THEN l - 1 ELSE l) /\ (m > 0 => l + (c - g) > m)
      BY <1>4, <1>8, <1>9, <1>10, <2>1, <3>2, <3>3
    <3>5. /\ g <= nc /\ (m > 0 => w + (nc - g) > m)
          /\ (m > 0 /\ ~(w > 0)) => nc - g > m
      BY ONLY <3>1, <3>4
    <3> QED BY <3>2, <3>5
  <2> QED BY <2>2, <2>3
<1>12. CASE k # 0 /\ DslRules[k].id = id
  <2>1. k \in DOMAIN DslRules /\ ~Cooling(d, DslRules[k])
    BY <1>6, <1>12, FirstOpenIsOpen
  <2>2. DslRules[k].cool = cool
    BY <1>7, <1>12, <2>1 DEF SameIdSameCool
  <2>3. \A s \in Scopes : ~(cool[s] > 0 /\ was[s] > 0)
    BY <1>7, <1>12, <2>1, <2>2 DEF Cooling
  <2>4. (cool["rolls"] > 0 => ~(was["rolls"] > 0)) /\ (cool["hands"] > 0 => ~(was["hands"] > 0))
    BY <2>3 DEF Scopes
  <2>5. IsCooldowns(dsl'.cool) /\ \A s \in Scopes : cool[s] > 0 => rest[s] >= cool[s] + 1
    BY <1>6, <1>7, <1>9, <1>12, <2>1, <2>2, ArmedCools
  <2>6. (cool["rolls"] > 0 => rest["rolls"] >= cool["rolls"] + 1) /\ (cool["hands"] > 0 => rest["hands"] >= cool["hands"] + 1)
    BY <2>5 DEF Scopes
  <2>7. rest["rolls"] \in Nat /\ rest["hands"] \in Nat
    BY <1>7, <1>8, <2>5 DEF IsCooldowns, Scopes
  <2>8. nf.rolls = ne /\ nf.hands = nc
    <3>1. fired'.dsl[id] = now
      BY <1>6, <1>8, <1>12
    <3> QED BY <1>6, <1>7, <3>1
  <2>9. Waits(i)'
    <3>1. /\ nf.rolls <= ne /\ nf.hands <= nc
          /\ cool["rolls"] > 0 => rest["rolls"] + (ne - nf.rolls) > cool["rolls"]
          /\ cool["hands"] > 0 => rest["hands"] + (nc - nf.hands) > cool["hands"]
      BY <1>4, <1>8, <2>6, <2>7, <2>8, ArmedWaits
    <3> QED BY <1>4, <1>7, <3>1 DEF Waits
  <2>10. f.rolls > 0 =>
           /\ cool["rolls"] > 0 => ne - f.rolls > cool["rolls"]
           /\ cool["hands"] > 0 => nc - f.hands > cool["hands"]
    BY <1>11, <2>4
  <2> QED BY <1>4, <1>7, <2>9, <2>10
<1>13. CASE ~(k # 0 /\ DslRules[k].id = id)
  <2>1. rest = was
    <3>1. CASE k = 0
      BY <1>6, <1>7, <1>9, <3>1 DEF Armed
    <3>2. CASE k # 0
      <4>1. k \in DOMAIN DslRules
        BY <1>6, <3>2, FirstOpenIsOpen
      <4>2. PICK a : a = Armed(d, k).cool
        OBVIOUS
      <4>3. \A r \in DslIds : r # DslRules[k].id => a[r] = d.cool[r]
        BY <1>6, <1>9, <4>1, <4>2, ArmedCools
      <4>4. a[id] = d.cool[id]
        BY <1>8, <1>13, <3>2, <4>3
      <4> QED BY <1>6, <1>7, <4>2, <4>4
    <3> QED BY <3>1, <3>2
  <2>2. nf = f
    BY <1>6, <1>7, <1>8, <1>13
  <2>3. nf.rolls > 0 =>
          /\ nf.rolls <= ne /\ nf.hands <= nc
          /\ cool["rolls"] > 0 => rest["rolls"] + (ne - nf.rolls) > cool["rolls"]
          /\ cool["hands"] > 0 => rest["hands"] + (nc - nf.hands) > cool["hands"]
    BY <1>11, <2>1, <2>2
  <2>4. Waits(i)'
    BY <1>4, <1>7, <2>3 DEF Waits
  <2>5. out'.intent # id
    BY <1>6, <1>8, <1>13
  <2> QED BY <1>7, <2>4, <2>5
<1> QED BY <1>12, <1>13

\* A behaviour rule that has proposed an intent is silent for as many rolls and come-outs
\* as its cooldown says, whichever windows come in between.
THEOREM PacedCorrect ==
  ASSUME SameIdSameCool
  PROVE  Spec => DslPaced
<1>1. Init => Paces
  <2> SUFFICES ASSUME Init PROVE Paces
    OBVIOUS
  <2>1. /\ stats = [e \in Heeded |-> 0] /\ fired.dsl = [r \in DslIds |-> Never]
        /\ dsl.cool = [r \in DslIds |-> [s \in Scopes |-> 0]]
    BY DEF Init
  <2>2. stats \in [Heeded -> Nat] /\ fired.dsl \in [DslIds -> [rolls : Nat, hands : Nat]]
    BY <2>1 DEF Never
  <2>3. IsCooldowns(dsl.cool)
    BY <2>1 DEF IsCooldowns
  <2>4. \A i \in DOMAIN DslRules : fired.dsl[DslRules[i].id].rolls = 0
    <3> TAKE i \in DOMAIN DslRules
    <3>1. DslRules[i].id \in DslIds
      BY RuleFacts
    <3>2. fired.dsl[DslRules[i].id] = Never
      BY <2>1, <3>1
    <3> QED BY <3>2 DEF Never
  <2>5. \A i \in DOMAIN DslRules : Waits(i)
    <3> TAKE i \in DOMAIN DslRules
    <3>1. ~(fired.dsl[DslRules[i].id].rolls > 0)
      BY <2>4
    <3> QED BY <3>1 DEF Waits
  <2> QED BY <2>2, <2>3, <2>5 DEF Paces
<1>2. Paces /\ [Next]_vars => Paces'
  <2> SUFFICES ASSUME Paces, [Next]_vars PROVE Paces'
    OBVIOUS
  <2>1. CASE UNCHANGED <<tracker, hands, dsl, stats, tracked, fired>>
    BY <2>1 DEF Paces, Waits
  <2>2. ASSUME NEW type \in Heeded, Heeds(type)
        PROVE  Paces'
    <3>1. \A i \in DOMAIN DslRules : Waits(i)'
      BY <2>2, PaceStep
    <3>2. /\ stats' \in [Heeded -> Nat] /\ IsCooldowns(dsl'.cool)
          /\ fired'.dsl \in [DslIds -> [rolls : Nat, hands : Nat]]
      BY <2>2, EventTyped
    <3> QED BY <3>1, <3>2 DEF Paces
  <2> QED BY <2>1, <2>2, StepKinds
<1>3. Paces /\ [Next]_vars =>
        [\A i \in DOMAIN DslRules :
           LET r == DslRules[i]
           IN  (stats' # stats /\ out'.intent = r.id /\ fired.dsl[r.id].rolls > 0) =>
                 /\ r.cool["rolls"] > 0 => Events(stats') - fired.dsl[r.id].rolls > r.cool["rolls"]
                 /\ r.cool["hands"] > 0 => stats'["comeout"] - fired.dsl[r.id].hands > r.cool["hands"]]_vars
  <2> SUFFICES ASSUME Paces, [Next]_vars, stats' # stats, NEW i \in DOMAIN DslRules,
                      out'.intent = DslRules[i].id, fired.dsl[DslRules[i].id].rolls > 0
               PROVE  /\ DslRules[i].cool["rolls"] > 0 =>
                           Events(stats') - fired.dsl[DslRules[i].id].rolls > DslRules[i].cool["rolls"]
                      /\ DslRules[i].cool["hands"] > 0 =>
                           stats'["comeout"] - fired.dsl[DslRules[i].id].hands > DslRules[i].cool["hands"]
    OBVIOUS
  <2>1. PICK type \in Heeded : Heeds(type)
    BY StepKinds
  <2> QED BY <2>1, PaceStep
<1> QED BY <1>1, <1>2, <1>3, PTL DEF Spec, DslPaced

---------------------------------------------------------------------------
(* The point. *)

CtlFields == {"point", "rolls", "comeout", "mode", "streak"}

IsCtl(k) == DOMAIN k = CtlFields /\ k = [f \in CtlFields |-> k[f]]

SamePoint(k, l) == l.point = k.point /\ l.rolls = k.rolls /\ l.comeout = k.comeout

\* What the point becomes, and how the tracker hears of it.
LEMMA PointFacts ==
  ASSUME NEW ev, NEW bets, Handle(ev, bets)
  PROVE  /\ \E acts : ctl' = Assigned(Switched(Closed(Entered(ctl, ev), ev), acts), acts)
         /\ tracked => tracker' = TrackerAfter(ev, Recorded(ev, Entered(ctl, ev).rolls))
         /\ out'.type = ev.type
<1>1. \E acts : ctl' = Assigned(Switched(Closed(Entered(ctl, ev), ev), acts), acts)
  <2> DEFINE closed == Closed(Entered(ctl, ev), ev)
  <2>1. PICK acts : acts = RuleActions(Rules, ev.type,
                             [on |-> closed.point # 0, drawdown |-> 0, streak |-> closed.streak])
    OBVIOUS
  <2>2. ctl' = Assigned(Switched(closed, acts), acts)
    BY <2>1 DEF Handle
  <2> QED BY <2>2
<1>2. tracked => tracker' = TrackerAfter(ev, Recorded(ev, Entered(ctl, ev).rolls))
  BY DEF Handle
<1>3. out'.type = ev.type
  BY DEF Handle
<1> QED BY <1>1, <1>2, <1>3

\* Mode switches and variables leave the point alone.
LEMMA ActsLeavePoint ==
  ASSUME NEW k, IsCtl(k), NEW acts
  PROVE  IsCtl(Assigned(Switched(k, acts), acts)) /\ SamePoint(k, Assigned(Switched(k, acts), acts))
<1>1. ASSUME NEW l, IsCtl(l), NEW x
      PROVE  /\ IsCtl([l EXCEPT !.mode = x]) /\ SamePoint(l, [l EXCEPT !.mode = x])
             /\ IsCtl([l EXCEPT !.streak = x]) /\ SamePoint(l, [l EXCEPT !.streak = x])
  BY <1>1 DEF IsCtl, CtlFields, SamePoint
<1>2. \E x : Switched(k, acts) = [k EXCEPT !.mode = x]
  <2> DEFINE named == {i \in DOMAIN acts : acts[i].act = "switch_mode" /\ acts[i].to # ""}
  <2>1. PICK x : x = IF named = {} THEN k.mode ELSE acts[Max(named)].to
    OBVIOUS
  <2>2. Switched(k, acts) = [k EXCEPT !.mode = x]
    BY <2>1 DEF Switched
  <2> QED BY <2>2
<1>3. PICK l : l = Switched(k, acts)
  OBVIOUS
<1>4. IsCtl(l) /\ SamePoint(k, l)
  <2>1. PICK x : l = [k EXCEPT !.mode = x]
    BY <1>2, <1>3
  <2> QED BY <1>1, <2>1
<1>5. PICK x : x = StreakAfter(l.streak, acts)
  OBVIOUS
<1>6. Assigned(l, acts) = [l EXCEPT !.streak = x]
  BY <1>5 DEF Assigned
<1>7. IsCtl(Assigned(l, acts)) /\ SamePoint(l, Assigned(l, acts))
  <2>1. IsCtl([l EXCEPT !.streak = x]) /\ SamePoint(l, [l EXCEPT !.streak = x])
    BY <1>1, <1>4
  <2> QED BY <1>6, <2>1
<1> QED BY <1>3, <1>4, <1>7 DEF SamePoint

\* What the tracker knows of the point and of the seven-outs.
SameCycle(t, u) == u.pso = t.pso /\ u.active = t.active /\ u.since = t.since

\* Going off the point.
LEMMA OffPointCycle ==
  ASSUME NEW t, IsTracker(t)
  PROVE  OffPoint(t).pso = t.pso /\ ~OffPoint(t).active /\ OffPoint(t).since = 0
BY DEF OffPoint, IsTracker, TrackerFields

\* Counting a roll and booking what it won or lost say nothing of the point.
LEMMA CountedCycle ==
  ASSUME NEW t, IsTracker(t), NEW n
  PROVE  LET u == Banked([t EXCEPT !.roll = @ + 1, !.rolls = @ + 1], n)
         IN  IsTracker(u) /\ SameCycle(t, u)
<1>1. PICK o : o = [t EXCEPT !.roll = @ + 1, !.rolls = @ + 1]
  OBVIOUS
<1>2. IsTracker(o)
  BY <1>1, OneRollMore
<1>3. SameCycle(t, o)
  BY <1>1 DEF IsTracker, TrackerFields, SameCycle
<1>4. IsTracker(Banked(o, n)) /\ SameCycle(o, Banked(o, n))
  BY <1>2, BankedAlike DEF Banked, IsTracker, TrackerFields, SameCycle
<1> QED BY <1>1, <1>3, <1>4 DEF SameCycle

\* The tracker as the point cycle finds it.
LEMMA CycleFinds ==
  ASSUME IsTracker(tracker), NEW ev, NEW number
  PROVE  \E b : /\ IsTracker(b) /\ b.pso = tracker.pso
                /\ ~(StartsHand(ev) \/ OpensHand(ev)) => SameCycle(tracker, b)
                /\ Recorded(ev, number) = IF ev.on THEN Cycled(b, ev.type, ev.point, number)
                                          ELSE OffPoint(Cycled(b, ev.type, ev.point, number))
<1> DEFINE new == StartsHand(ev) \/ OpensHand(ev)
<1>1. PICK t : t = IF new THEN HandStarted(tracker) ELSE tracker
  OBVIOUS
<1>2. IsTracker(HandStarted(tracker)) /\ HandStarted(tracker).pso = tracker.pso
  <2>1. PICK o : o = OffPoint(tracker)
    OBVIOUS
  <2>2. IsTracker(o) /\ o.pso = tracker.pso
    BY <2>1, OffPointAlike, OffPointCycle
  <2>3. HandStarted(tracker) = [o EXCEPT !.hand = @ + 1, !.roll = 0, !.hands = @ + 1]
    BY <2>1 DEF HandStarted
  <2>4. IsTracker(HandStarted(tracker))
    BY <2>2, <2>3, OneHandMore
  <2>5. HandStarted(tracker).pso = o.pso
    BY <2>2, <2>3 DEF IsTracker, TrackerFields
  <2> QED BY <2>2, <2>4, <2>5
<1>3. IsTracker(t) /\ t.pso = tracker.pso /\ (~new => t = tracker)
  <2> HIDE DEF new
  <2> QED BY <1>1, <1>2
<1>4. PICK b : b = Banked([t EXCEPT !.roll = @ + 1, !.rolls = @ + 1], Resolved(t.bank, ev.money))
  OBVIOUS
<1>5. IsTracker(b) /\ SameCycle(t, b)
  BY <1>3, <1>4, CountedCycle
<1>6. Recorded(ev, number) = IF ev.on THEN Cycled(b, ev.type, ev.point, number)
                             ELSE OffPoint(Cycled(b, ev.type, ev.point, number))
  BY <1>1, <1>4 DEF Recorded, RollCounted
<1> HIDE DEF new
<1>7. b.pso = tracker.pso /\ (~new => SameCycle(tracker, b))
  BY <1>3, <1>5 DEF SameCycle
<1> QED BY <1>5, <1>6, <1>7 DEF new

\* While the puck is on, the controller and the tracker know the point and the rolls
\* made for it.
Pointed ==
  /\ IsCtl(ctl) /\ table.puck \in {0} \cup Points /\ table.since \in Nat
  /\ Counts /\ (tracked => tracker.pso \in Nat)
  /\ table.puck # 0 =>
       /\ ctl.point = table.puck /\ ctl.rolls = table.since /\ ctl.comeout = FALSE
       /\ tracked => tracker.hand # 0 /\ tracker.active /\ tracker.since = table.since

\* What an event leaves of the point.
Told(type) ==
  /\ ctl'.point = table'.puck
  /\ ctl'.comeout = (table'.puck = 0)
  /\ ctl'.rolls = table'.since
  /\ tracked => /\ tracker'.pso = tracker.pso + IF type = "seven_out" /\ table.since = 0 THEN 1 ELSE 0
                /\ table'.puck # 0 => tracker'.active /\ tracker'.since = table'.since

\* Entering and closing an event with the controller's record.
LEMMA CtlStep ==
  ASSUME IsCtl(ctl), NEW ev, NEW bets, Handle(ev, bets)
  PROVE  IsCtl(ctl') /\ SamePoint(Closed(Entered(ctl, ev), ev), ctl')
<1>1. PICK acts : ctl' = Assigned(Switched(Closed(Entered(ctl, ev), ev), acts), acts)
  BY PointFacts
<1>2. IsCtl(Entered(ctl, ev))
  BY DEF Entered, IsCtl, CtlFields
<1>3. PICK e : e = Entered(ctl, ev)
  OBVIOUS
<1>4. IsCtl(Closed(e, ev))
  BY <1>2, <1>3 DEF Closed, IsCtl, CtlFields
<1> QED BY <1>1, <1>3, <1>4, ActsLeavePoint

\* An event that is dealt, and what it is dealt with.
Dealt(type, puck, ev, bets) ==
  /\ ev.type = type /\ ev.point = puck /\ (ev.on <=> puck # 0)
  /\ Handle(ev, bets)
  /\ table'.puck = puck /\ table'.since = IF type = "roll" THEN table.since + 1 ELSE 0

\* A come-out or a seven-out.
LEMMA OffTold ==
  ASSUME Pointed, NEW type \in {"comeout", "seven_out"}, type = "seven_out" => table.puck # 0,
         NEW ev, NEW bets, Dealt(type, 0, ev, bets)
  PROVE  Told(type) /\ IsCtl(ctl')
<1>1. PICK e : e = Entered(ctl, ev)
  OBVIOUS
<1>2. /\ IsCtl(ctl') /\ SamePoint(Closed(e, ev), ctl')
      /\ tracked => tracker' = TrackerAfter(ev, Recorded(ev, e.rolls))
  BY <1>1, CtlStep, PointFacts DEF Dealt, Pointed
<1>3. Closed(e, ev).point = 0 /\ Closed(e, ev).rolls = 0 /\ Closed(e, ev).comeout = TRUE
  BY <1>1 DEF Dealt, Pointed, Entered, Closed, IsCtl, CtlFields
<1>4. ctl'.point = table'.puck /\ ctl'.rolls = table'.since /\ ctl'.comeout = (table'.puck = 0)
  BY <1>2, <1>3 DEF SamePoint, Dealt
<1>5. ASSUME tracked
      PROVE  tracker'.pso = tracker.pso + IF type = "seven_out" /\ table.since = 0 THEN 1 ELSE 0
  <2>1. IsTracker(tracker)
    BY <1>5 DEF Pointed, Counts
  <2>2. PICK b : /\ IsTracker(b) /\ b.pso = tracker.pso
                 /\ ~(StartsHand(ev) \/ OpensHand(ev)) => SameCycle(tracker, b)
                 /\ Recorded(ev, e.rolls) = IF ev.on THEN Cycled(b, ev.type, ev.point, e.rolls)
                                            ELSE OffPoint(Cycled(b, ev.type, ev.point, e.rolls))
    BY <2>1, CycleFinds
  <2>3. PICK c : c = Cycled(b, ev.type, ev.point, e.rolls)
    OBVIOUS
  <2>4. Recorded(ev, e.rolls) = OffPoint(c) /\ IsTracker(c)
    BY <2>2, <2>3, CycledAlike DEF Dealt
  <2>5. tracker'.pso = c.pso
    <3>1. IsTracker(OffPoint(c)) /\ OffPoint(c).pso = c.pso
      BY <2>4, OffPointAlike, OffPointCycle
    <3>2. PICK o : o = OffPoint(c)
      OBVIOUS
    <3>3. IsTracker(o) /\ o.pso = c.pso /\ (tracker' = o \/ tracker' = OffPoint(o))
      BY <1>2, <1>5, <2>4, <3>1, <3>2 DEF TrackerAfter, HandEnded
    <3> QED BY <3>3, OffPointCycle
  <2>6. CASE type = "comeout"
    <3>1. c = OffPoint(b)
      BY <2>3, <2>6 DEF Cycled, Dealt
    <3> QED BY <1>5, <2>2, <2>5, <2>6, <3>1, OffPointCycle DEF Pointed
  <2>7. CASE type = "seven_out"
    <3>1. /\ ctl.rolls = table.since /\ tracker.hand # 0 /\ tracker.active
          /\ tracker.since = table.since
      BY <1>5, <2>7 DEF Pointed
    <3>2. ~(StartsHand(ev) \/ OpensHand(ev))
      BY <1>5, <2>7, <3>1 DEF StartsHand, OpensHand, Dealt
    <3>3. b.active /\ b.since = table.since
      BY <2>2, <3>1, <3>2 DEF SameCycle
    <3>4. e.rolls = table.since
      BY <1>1, <2>7, <3>1 DEF Entered, Dealt
    <3>5. PICK x : x = [b EXCEPT !.pso = IF b.active /\ b.since = 0 /\ e.rolls = 0 THEN @ + 1 ELSE @]
      OBVIOUS
    <3>6. c = OffPoint(x)
      BY <2>3, <2>7, <3>5 DEF Cycled, Dealt
    <3>7. IsTracker(x) /\ x.pso = IF table.since = 0 THEN b.pso + 1 ELSE b.pso
      BY <2>2, <3>3, <3>4, <3>5 DEF IsTracker, TrackerFields
    <3> QED BY <1>5, <2>2, <2>5, <2>7, <3>6, <3>7, OffPointCycle DEF Pointed
  <2> QED BY <2>6, <2>7
<1>6. table'.puck = 0
  BY DEF Dealt
<1> QED BY <1>2, <1>4, <1>5, <1>6 DEF Told

\* A point set, or a roll for one.
LEMMA OnTold ==
  ASSUME Pointed, NEW type \in {"point_established", "roll"}, NEW puck \in Points,
         type = "roll" => table.puck = puck, NEW ev, NEW bets, Dealt(type, puck, ev, bets)
  PROVE  Told(type) /\ IsCtl(ctl')
<1>1. PICK e : e = Entered(ctl, ev)
  OBVIOUS
<1>2. /\ IsCtl(ctl') /\ SamePoint(Closed(e, ev), ctl')
      /\ tracked => tracker' = TrackerAfter(ev, Recorded(ev, e.rolls))
  BY <1>1, CtlStep, PointFacts DEF Dealt, Pointed
<1>3. puck # 0
  <2>1. Points \subseteq 4..10
    BY ControllerConstants
  <2> QED BY <2>1
<1>4. Closed(e, ev) = e
  BY DEF Closed, Dealt
<1>5. e.point = puck /\ e.rolls = table'.since /\ e.comeout = FALSE
  <2>1. CASE type = "point_established"
    BY <1>1, <1>3, <2>1 DEF Dealt, Pointed, Entered, IsCtl, CtlFields
  <2>2. CASE type = "roll"
    <3>1. ctl.point = puck /\ ctl.rolls = table.since /\ ctl.comeout = FALSE
      BY <1>3, <2>2 DEF Pointed
    <3>2. e = [ctl EXCEPT !.rolls = @ + 1]
      BY <1>1, <1>3, <2>2, <3>1 DEF Entered, Dealt
    <3> QED BY <2>2, <3>1, <3>2 DEF Pointed, IsCtl, CtlFields, Dealt
  <2> QED BY <2>1, <2>2
<1>6. ctl'.point = table'.puck /\ ctl'.rolls = table'.since /\ ctl'.comeout = (table'.puck = 0)
  BY <1>2, <1>3, <1>4, <1>5 DEF SamePoint, Dealt
<1>7. ASSUME tracked
      PROVE  tracker'.pso = tracker.pso /\ tracker'.active /\ tracker'.since = table'.since
  <2>1. IsTracker(tracker)
    BY <1>7 DEF Pointed, Counts
  <2>2. PICK b : /\ IsTracker(b) /\ b.pso = tracker.pso
                 /\ ~(StartsHand(ev) \/ OpensHand(ev)) => SameCycle(tracker, b)
                 /\ Recorded(ev, e.rolls) = IF ev.on THEN Cycled(b, ev.type, ev.point, e.rolls)
                                            ELSE OffPoint(Cycled(b, ev.type, ev.point, e.rolls))
    BY <2>1, CycleFinds
  <2>3. tracker' = Cycled(b, type, puck, e.rolls)
    BY <1>2, <1>3, <1>7, <2>2 DEF TrackerAfter, Dealt
  <2>4. CASE type = "point_established"
    <3>1. tracker' = [b EXCEPT !.active = puck # 0, !.since = 0]
      BY <2>3, <2>4 DEF Cycled
    <3>2. tracker'.pso = b.pso /\ tracker'.since = 0 /\ (tracker'.active <=> puck # 0)
      BY <2>2, <3>1 DEF IsTracker, TrackerFields
    <3> QED BY <1>3, <2>2, <2>4, <3>2 DEF Dealt
  <2>5. CASE type = "roll"
    <3>1. tracker.hand # 0 /\ tracker.active /\ tracker.since = table.since
      BY <1>3, <1>7, <2>5 DEF Pointed
    <3>2. ~(StartsHand(ev) \/ OpensHand(ev))
      BY <1>7, <2>5, <3>1 DEF StartsHand, OpensHand, Dealt
    <3>3. b.active /\ b.since = table.since
      BY <2>2, <3>1, <3>2 DEF SameCycle
    <3>4. e.rolls = table.since + 1 /\ table.since \in Nat
      BY <1>5, <2>5 DEF Dealt, Pointed
    <3>5. tracker' = [b EXCEPT !.since = Greater(@, e.rolls)]
      BY <2>3, <2>5, <3>3 DEF Cycled
    <3>6. Greater(b.since, e.rolls) = e.rolls
      BY <3>3, <3>4 DEF Greater
    <3>7. tracker'.pso = b.pso /\ tracker'.since = e.rolls /\ tracker'.active
      BY <2>2, <3>3, <3>5, <3>6 DEF IsTracker, TrackerFields
    <3> QED BY <1>5, <2>2, <3>7
  <2> QED BY <2>4, <2>5
<1> QED BY <1>2, <1>6, <1>7 DEF Told, Pointed

\* A step of the table deals an event, or leaves what is counted and the point alone.
LEMMA PointStep ==
  ASSUME Pointed, [Next]_vars, Counts'
  PROVE  /\ Pointed'
         /\ stats' # stats => Told(out'.type)
<1>1. ASSUME NEW type \in Heeded, NEW puck \in {0} \cup Points, Deal(type, puck),
             \/ type = "comeout" /\ puck = 0
             \/ type = "seven_out" /\ puck = 0 /\ table.puck # 0
             \/ type = "point_established" /\ puck # 0
             \/ type = "roll" /\ puck # 0 /\ table.puck = puck
      PROVE  Pointed' /\ Told(out'.type)
  <2>1. PICK bets, money : Handle([type |-> type, point |-> puck, on |-> puck # 0, money |-> money], bets)
    BY <1>1 DEF Deal
  <2>2. PICK ev : ev = [type |-> type, point |-> puck, on |-> puck # 0, money |-> money]
    OBVIOUS
  <2>3. table' = [puck |-> puck, since |-> IF type = "roll" THEN table.since + 1 ELSE 0]
    BY <1>1 DEF Deal
  <2>4. Dealt(type, puck, ev, bets)
    BY <2>1, <2>2, <2>3 DEF Dealt
  <2>5. Told(type) /\ IsCtl(ctl')
    <3>1. CASE puck = 0
      BY <1>1, <2>4, <3>1, OffTold
    <3>2. CASE puck # 0
      BY <1>1, <2>4, <3>2, OnTold
    <3> QED BY <3>1, <3>2
  <2>6. out'.type = type /\ tracked' = tracked /\ stats' = [stats EXCEPT ![type] = @ + 1]
    BY <2>4, PointFacts, HandleFacts DEF Dealt
  <2>7. table'.puck \in {0} \cup Points /\ table'.since \in Nat
    BY <1>1, <2>4 DEF Dealt, Pointed
  <2>8. ASSUME tracked
        PROVE  tracker'.pso \in Nat /\ tracker'.hand # 0
    <3>1. tracker'.pso \in Nat
      <4>1. tracker.pso \in Nat
        BY <2>8 DEF Pointed
      <4>2. tracker'.pso = tracker.pso + IF type = "seven_out" /\ table.since = 0 THEN 1 ELSE 0
        BY <2>5, <2>8 DEF Told
      <4> QED BY <4>1, <4>2
    <3>2. tracker'.rolls = Events(stats') /\ (tracker'.rolls > 0 <=> tracker'.hand > 0)
      BY <2>6, <2>8 DEF Counts, CountersAgree
    <3>3. Events(stats') = Events(stats) + 1 /\ Events(stats) \in Nat
      BY <2>6, Counted DEF Pointed, Counts
    <3> QED BY <3>1, <3>2, <3>3
  <2>9. Pointed'
    BY <2>5, <2>6, <2>7, <2>8 DEF Pointed, Told
  <2> QED BY <2>5, <2>6, <2>9
<1>2. 0 \notin Points
  <2>1. Points \subseteq 4..10
    BY ControllerConstants
  <2> QED BY <2>1
<1>3. CASE UNCHANGED vars
  BY <1>3 DEF vars, Pointed, Counts
<1>4. CASE MakePoint
  <2>1. UNCHANGED <<ctl, tracker, stats, tracked>> /\ table' = [puck |-> 0, since |-> 0]
    BY <1>4 DEF MakePoint, Unheeded
  <2> QED BY <2>1 DEF Pointed
<1>5. CASE Comeout
  BY <1>1, <1>5 DEF Comeout, Heeded
<1>6. CASE SetPoint
  BY <1>1, <1>2, <1>6 DEF SetPoint, Heeded
<1>7. CASE Roll
  BY <1>1, <1>7 DEF Roll, Heeded, Pointed
<1>8. CASE SevenOut
  BY <1>1, <1>8 DEF SevenOut, Heeded
<1> QED BY <1>3, <1>4, <1>5, <1>6, <1>7, <1>8 DEF Next

\* Though a point made is not heeded and its point stays in the controller, what is
\* answered with a plan is judged with the table's own point, come-out and rolls; and a
\* point-seven-out is counted exactly when a seven-out is the first roll for a point.
THEOREM PointCorrect == Spec => PointSeen
<1>1. Init => Pointed
  <2> SUFFICES ASSUME Init PROVE Pointed
    OBVIOUS
  <2>1. IsCtl(ctl) /\ table.puck = 0 /\ table.since = 0
    BY DEF Init, IsCtl, CtlFields
  <2>2. tracker.pso = 0
    BY DEF Init, NewTracker
  <2>3. Counts
    BY InitCounts
  <2> QED BY <2>1, <2>2, <2>3 DEF Pointed
<1>2. Pointed /\ [Next]_vars /\ Counts' => Pointed'
  BY PointStep
<1>3. Spec => []Pointed
  BY <1>1, <1>2, CountsKept, PTL DEF Spec
<1>4. Pointed /\ [Next]_vars /\ Counts' =>
        [stats' # stats =>
           /\ ctl'.point = table'.puck
           /\ ctl'.comeout = (table'.puck = 0)
           /\ ctl'.rolls = table'.since
           /\ tracked => tracker'.pso = tracker.pso + IF out'.type = "seven_out" /\ table.since = 0
                                                     THEN 1 ELSE 0]_vars
  BY PointStep DEF Told
<1> QED BY <1>3, <1>4, CountsKept, PTL DEF Spec, PointSeen

---------------------------------------------------------------------------
(* The plan.  What a sequence of envelopes does to a bet is, where no rule *)
(* presses or reduces it, the last word on it.                             *)

\* Induction up to n: a set that holds 0 and, with a number below n, its successor,
\* holds the numbers up to n.
LEMMA Climb ==
  ASSUME NEW n \in Nat, NEW T, 0 \in T, \A k \in 0..(n - 1) : k \in T => k + 1 \in T
  PROVE  \A k \in 0..n : k \in T
<1> SUFFICES ASSUME NEW x \in 0..n, x \notin T PROVE FALSE
  OBVIOUS
<1> DEFINE A == {k \in 1..x : k \notin T}
           B == {k \in 1..(x - 1) : k \notin T}
<1>1. IsFiniteSet(1..x) /\ IsFiniteSet(1..(x - 1))
  BY FS_Interval
<1>2. IsFiniteSet(A) /\ IsFiniteSet(B)
  BY <1>1, FS_Subset
<1>3. A = B \cup {x} /\ x \notin B
  OBVIOUS
<1>4. Cardinality(A) = Cardinality(B) + 1 /\ Cardinality(B) \in Nat
  BY <1>2, <1>3, FS_AddElement, FS_CardinalityType
<1>5. [k \in A |-> k - 1] \in Injection(A, B)
  <2>1. \A k \in A : k - 1 \in B
    OBVIOUS
  <2> QED BY <2>1 DEF Injection, IsInjective
<1>6. Cardinality(A) <= Cardinality(B)
  BY <1>2, <1>5, FS_Injection DEF ExistsInjection
<1> QED BY <1>4, <1>6

\* f is what a recursion makes of base, staying in X, in n steps.
Solves(f, n, X, base, step) ==
  f \in [0..n -> X] /\ f[0] = base /\ \A k \in 1..n : f[k] = step[<<k, f[k - 1]>>]

\* A recursion whose steps stay in X has a solution.
LEMMA StepsExist ==
  ASSUME NEW n \in Nat, NEW X, NEW base \in X, NEW step,
         \A k \in 1..n : \A x \in X : step[<<k, x>>] \in X
  PROVE  \E f : Solves(f, n, X, base, step)
<1> DEFINE T == {m \in 0..n : \E f : Solves(f, m, X, base, step)}
<1>1. 0 \in T
  <2>1. Solves([k \in 0..0 |-> base], 0, X, base, step)
    BY DEF Solves
  <2> QED BY <2>1
<1>2. ASSUME NEW m \in 0..(n - 1), m \in T PROVE m + 1 \in T
  <2>1. PICK f : Solves(f, m, X, base, step)
    BY <1>2
  <2> DEFINE g == [k \in 0..(m + 1) |-> IF k = m + 1 THEN step[<<m + 1, f[m]>>] ELSE f[k]]
  <2>2. f[m] \in X /\ step[<<m + 1, f[m]>>] \in X
    <3>1. f[m] \in X
      BY <2>1 DEF Solves
    <3>2. m + 1 \in 1..n
      OBVIOUS
    <3> QED BY <3>1, <3>2
  <2>3. g \in [0..(m + 1) -> X] /\ g[0] = base
    BY <2>1, <2>2 DEF Solves
  <2>4. ASSUME NEW k \in 1..(m + 1) PROVE g[k] = step[<<k, g[k - 1]>>]
    <3>1. CASE k = m + 1
      BY <3>1
    <3>2. CASE k \in 1..m
      BY <3>2, <2>1 DEF Solves
    <3> QED BY <3>1, <3>2
  <2> HIDE DEF g
  <2>5. Solves(g, m + 1, X, base, step)
    BY <2>3, <2>4 DEF Solves
  <2> QED BY <2>5
<1> HIDE DEF T
<1>3. n \in T
  BY <1>1, <1>2, Climb
<1> QED BY <1>3 DEF T

\* What Picked keeps of the first n entries.
Keeps(f, s, P) ==
  f = [n \in 0..Len(s) |-> IF n = 0 THEN <<>> ELSE IF n \in P THEN Append(f[n - 1], s[n]) ELSE f[n - 1]]

\* Picked is the last of what is kept of longer and longer parts.
LEMMA PickedIs ==
  ASSUME NEW S, NEW s \in Seq(S), NEW P
  PROVE  \E f \in [0..Len(s) -> Seq(S)] :
           /\ Picked(s, P) = f[Len(s)] /\ f[0] = <<>>
           /\ \A n \in 1..Len(s) : f[n] = IF n \in P THEN Append(f[n - 1], s[n]) ELSE f[n - 1]
<1> DEFINE f == CHOOSE h : Keeps(h, s, P)
           X == Seq(S)
           step == [p \in (1..Len(s)) \X X |-> IF p[1] \in P THEN Append(p[2], s[p[1]]) ELSE p[2]]
<1>0. Len(s) \in Nat
  OBVIOUS
<1>1. \A k \in 1..Len(s) : \A x \in X : step[<<k, x>>] = IF k \in P THEN Append(x, s[k]) ELSE x
  OBVIOUS
<1>2. \A k \in 1..Len(s) : \A x \in X : Append(x, s[k]) \in X
  <2> SUFFICES ASSUME NEW k \in 1..Len(s), NEW x \in Seq(S) PROVE Append(x, s[k]) \in Seq(S)
    OBVIOUS
  <2>1. s[k] \in S
    OBVIOUS
  <2> QED BY <2>1
<1>3. <<>> \in X
  OBVIOUS
<1> HIDE DEF X, step
<1>4. PICK g : Solves(g, Len(s), X, <<>>, step)
  <2>1. \A k \in 1..Len(s) : \A x \in X : step[<<k, x>>] \in X
    BY <1>1, <1>2
  <2> QED BY ONLY <1>0, <1>3, <2>1, StepsExist
<1>5. Keeps(g, s, P)
  <2>1. ASSUME NEW k \in 0..Len(s)
        PROVE  g[k] = IF k = 0 THEN <<>> ELSE IF k \in P THEN Append(g[k - 1], s[k]) ELSE g[k - 1]
    <3>1. CASE k = 0
      BY <3>1, <1>4 DEF Solves
    <3>2. CASE k # 0
      <4>1. k \in 1..Len(s) /\ k - 1 \in 0..Len(s)
        BY <3>2, <1>0
      <4>2. g[k - 1] \in X /\ g[k] = step[<<k, g[k - 1]>>]
      BY <4>1, <1>4 DEF Solves
      <4> QED BY <3>2, <4>1, <4>2, <1>1
    <3> QED BY <3>1, <3>2
  <2> QED BY <2>1, <1>4 DEF Keeps, Solves
<1>6. Keeps(f, s, P)
  BY <1>5
<1>7. Picked(s, P) = f[Len(s)]
  BY DEF Picked, Keeps
<1> HIDE DEF f
<1>8. f[0] = <<>> /\ \A n \in 1..Len(s) : f[n] = IF n \in P THEN Append(f[n - 1], s[n]) ELSE f[n - 1]
  <2>1. \A n \in 0..Len(s) :
          f[n] = IF n = 0 THEN <<>> ELSE IF n \in P THEN Append(f[n - 1], s[n]) ELSE f[n - 1]
    BY <1>6 DEF Keeps
  <2> QED BY <1>0, <2>1
<1> DEFINE T == {k \in 0..Len(s) : f[k] \in X}
<1>9. \A k \in 0..Len(s) : k \in T
  <2>1. 0 \in T
    BY <1>0, <1>3, <1>8
  <2>2. ASSUME NEW m \in 0..(Len(s) - 1), m \in T PROVE m + 1 \in T
    <3>1. m + 1 \in 1..Len(s) /\ (m + 1) - 1 = m
      BY <1>0
    <3> QED BY <3>1, <2>2, <1>2, <1>8
  <2> HIDE DEF T
  <2> QED BY <1>0, <2>1, <2>2, Climb
<1>10. f \in [0..Len(s) -> X]
  <2>1. f = [n \in 0..Len(s) |-> f[n]]
    BY <1>6 DEF Keeps
  <2> QED BY <1>9, <2>1
<1> QED BY <1>7, <1>8, <1>10 DEF X

\* What Picked keeps is entries of the sequence, every one at a position of P.
LEMMA PickedFrom ==
  ASSUME NEW S, NEW s \in Seq(S), NEW P
  PROVE  /\ Picked(s, P) \in Seq(S)
         /\ \A j \in 1..Len(Picked(s, P)) : \E i \in P \cap (1..Len(s)) : Picked(s, P)[j] = s[i]
         /\ \A i \in P \cap (1..Len(s)) : \E j \in 1..Len(Picked(s, P)) : Picked(s, P)[j] = s[i]
<1>1. PICK f \in [0..Len(s) -> Seq(S)] :
           /\ Picked(s, P) = f[Len(s)] /\ f[0] = <<>>
           /\ \A n \in 1..Len(s) : f[n] = IF n \in P THEN Append(f[n - 1], s[n]) ELSE f[n - 1]
  BY PickedIs
<1>2. Len(s) \in Nat /\ \A n \in 0..Len(s) : f[n] \in Seq(S)
  OBVIOUS
<1> DEFINE From(n) == \A j \in 1..Len(f[n]) : \E i \in P \cap (1..n) : f[n][j] = s[i]
           Onto(n) == \A i \in P \cap (1..n) : \E j \in 1..Len(f[n]) : f[n][j] = s[i]
           T == {n \in 0..Len(s) : From(n) /\ Onto(n)}
<1>3. 0 \in T
  <2>1. Len(f[0]) = 0
    BY <1>1
  <2>2. From(0)
    BY <2>1
  <2>3. Onto(0)
    OBVIOUS
  <2> QED BY <1>2, <2>2, <2>3
<1>4. ASSUME NEW m \in 0..(Len(s) - 1), m \in T PROVE m + 1 \in T
  <2>1. /\ m + 1 \in 1..Len(s) /\ m \in 0..Len(s) /\ f[m] \in Seq(S)
        /\ f[m + 1] = IF m + 1 \in P THEN Append(f[m], s[m + 1]) ELSE f[m]
    <3>1. m + 1 \in 1..Len(s) /\ m \in 0..Len(s) /\ (m + 1) - 1 = m
      BY <1>2
    <3> QED BY <3>1, <1>1, <1>2
  <2>2. From(m) /\ Onto(m)
    BY <1>4
  <2>3. CASE m + 1 \notin P
    <3>1. f[m + 1] = f[m] /\ P \cap (1..(m + 1)) = P \cap (1..m)
      BY <2>1, <2>3
    <3>2. From(m + 1) /\ Onto(m + 1)
      BY <2>2, <3>1
    <3> HIDE DEF From, Onto
    <3> QED BY <1>2, <2>1, <3>2
  <2>4. CASE m + 1 \in P
    <3>1. s[m + 1] \in S
      BY <2>1
    <3>2. /\ f[m + 1] = Append(f[m], s[m + 1]) /\ P \cap (1..(m + 1)) = (P \cap (1..m)) \cup {m + 1}
          /\ Len(f[m]) \in Nat /\ Len(f[m + 1]) = Len(f[m]) + 1
          /\ f[m + 1][Len(f[m]) + 1] = s[m + 1] /\ \A j \in 1..Len(f[m]) : f[m + 1][j] = f[m][j]
      BY <2>1, <2>4, <3>1
    <3>3. From(m + 1)
      <4> SUFFICES ASSUME NEW j \in 1..Len(f[m + 1]) PROVE \E i \in P \cap (1..(m + 1)) : f[m + 1][j] = s[i]
        OBVIOUS
      <4>1. CASE j = Len(f[m]) + 1
        BY <4>1, <3>2
      <4>2. CASE j # Len(f[m]) + 1
        <5>1. j \in 1..Len(f[m])
          BY <4>2, <3>2
        <5>2. PICK i \in P \cap (1..m) : f[m][j] = s[i]
          BY <5>1, <2>2
        <5> QED BY <5>1, <5>2, <3>2
      <4> QED BY <4>1, <4>2
    <3>4. Onto(m + 1)
      <4> SUFFICES ASSUME NEW i \in P \cap (1..(m + 1)) PROVE \E j \in 1..Len(f[m + 1]) : f[m + 1][j] = s[i]
        OBVIOUS
      <4>1. CASE i = m + 1
        <5>1. Len(f[m]) + 1 \in 1..Len(f[m + 1])
          BY <3>2
        <5> QED BY <4>1, <5>1, <3>2
      <4>2. CASE i # m + 1
        <5>1. i \in P \cap (1..m)
          BY <4>2, <3>2
        <5>2. PICK j \in 1..Len(f[m]) : f[m][j] = s[i]
          BY <5>1, <2>2
        <5>3. j \in 1..Len(f[m + 1]) /\ f[m + 1][j] = f[m][j]
          BY <3>2
        <5> QED BY <5>2, <5>3
      <4> QED BY <4>1, <4>2
    <3> HIDE DEF From, Onto
    <3> QED BY <1>2, <2>1, <3>3, <3>4
  <2> QED BY <2>3, <2>4
<1> HIDE DEF T
<1>5. \A k \in 0..Len(s) : k \in T
  BY <1>2, <1>3, <1>4, Climb
<1>6. Len(s) \in T
  BY <1>2, <1>5
<1> QED BY <1>1, <1>2, <1>6 DEF T

\* Envelope a speaks of bet b.
Speaks(a, b) == OnBet(a) /\ a.bet = b

\* Nothing in s speaks of b.
Silent(s, b) == \A i \in 1..Len(s) : ~Speaks(s[i], b)

\* The entry at i is the last of s to speak of b.
LastWord(s, b, i) == i \in 1..Len(s) /\ Speaks(s[i], b) /\ \A j \in (i + 1)..Len(s) : ~Speaks(s[j], b)

\* a is the last word of s on b.
Says(s, b, a) == \E i \in 1..Len(s) : LastWord(s, b, i) /\ s[i] = a

\* One more entry has the last word if it speaks of the bet and leaves it if not.
LEMMA AppendSays ==
  ASSUME NEW S, NEW s \in Seq(S), NEW e \in S, NEW b
  PROVE  /\ Speaks(e, b) => Says(Append(s, e), b, e)
         /\ \A a : ~Speaks(e, b) /\ Says(s, b, a) => Says(Append(s, e), b, a)
<1> DEFINE t == Append(s, e)
<1>1. /\ Len(s) \in Nat /\ Len(t) = Len(s) + 1 /\ t[Len(s) + 1] = e
      /\ \A j \in 1..Len(s) : t[j] = s[j]
  OBVIOUS
<1> HIDE DEF t
<1>2. ASSUME Speaks(e, b) PROVE Says(t, b, e)
  <2>1. LastWord(t, b, Len(s) + 1)
    BY <1>1, <1>2 DEF LastWord
  <2> QED BY <1>1, <2>1 DEF Says
<1>3. ASSUME NEW a, ~Speaks(e, b), Says(s, b, a) PROVE Says(t, b, a)
  <2>1. PICK i \in 1..Len(s) : LastWord(s, b, i) /\ s[i] = a
    BY <1>3 DEF Says
  <2>2. i \in 1..Len(t) /\ t[i] = a /\ Speaks(t[i], b)
    BY <1>1, <2>1 DEF LastWord
  <2>3. ASSUME NEW j \in (i + 1)..Len(t) PROVE ~Speaks(t[j], b)
    <3>1. CASE j = Len(s) + 1
      BY <3>1, <1>1, <1>3
    <3>2. CASE j # Len(s) + 1
      <4>1. j \in (i + 1)..Len(s) /\ j \in 1..Len(s)
        BY <3>2, <1>1
      <4> QED BY <4>1, <1>1, <2>1 DEF LastWord
    <3> QED BY <3>1, <3>2
  <2>4. LastWord(t, b, i)
    BY <2>2, <2>3 DEF LastWord
  <2> QED BY <2>2, <2>4 DEF Says
<1> QED BY <1>2, <1>3 DEF t

\* A last word that is picked is the last word of what is picked.
LEMMA PickedSays ==
  ASSUME NEW S, NEW s \in Seq(S), NEW P, NEW b, NEW i, LastWord(s, b, i), i \in P
  PROVE  Says(Picked(s, P), b, s[i])
<1>1. PICK f \in [0..Len(s) -> Seq(S)] :
           /\ Picked(s, P) = f[Len(s)] /\ f[0] = <<>>
           /\ \A n \in 1..Len(s) : f[n] = IF n \in P THEN Append(f[n - 1], s[n]) ELSE f[n - 1]
  BY PickedIs
<1>2. Len(s) \in Nat /\ \A n \in 0..Len(s) : f[n] \in Seq(S)
  OBVIOUS
<1>3. i \in 1..Len(s) /\ Speaks(s[i], b) /\ \A j \in (i + 1)..Len(s) : ~Speaks(s[j], b)
  BY DEF LastWord
<1> DEFINE T == {n \in 0..Len(s) : n >= i => Says(f[n], b, s[i])}
<1>4. 0 \in T
  BY <1>2, <1>3
<1>5. ASSUME NEW m \in 0..(Len(s) - 1), m \in T PROVE m + 1 \in T
  <2>1. /\ m + 1 \in 1..Len(s) /\ m \in 0..Len(s) /\ f[m] \in Seq(S) /\ s[m + 1] \in S
        /\ f[m + 1] = IF m + 1 \in P THEN Append(f[m], s[m + 1]) ELSE f[m]
    <3>1. m + 1 \in 1..Len(s) /\ m \in 0..Len(s) /\ (m + 1) - 1 = m
      BY <1>2
    <3>2. s[m + 1] \in S
      BY <3>1
    <3> QED BY <3>1, <3>2, <1>1, <1>2
  <2>2. CASE m + 1 = i
    <3>1. Says(Append(f[m], s[i]), b, s[i])
      BY <2>1, <2>2, <1>3, AppendSays
    <3> QED BY <2>1, <2>2, <3>1
  <2>3. CASE m + 1 > i
    <3>1. Says(f[m], b, s[i]) /\ ~Speaks(s[m + 1], b)
      BY <1>5, <2>1, <2>3, <1>2, <1>3
    <3>2. Says(Append(f[m], s[m + 1]), b, s[i])
      BY <2>1, <3>1, AppendSays
    <3> QED BY <2>1, <3>1, <3>2
  <2>4. CASE m + 1 < i
    BY <2>1, <2>4, <1>3
  <2> QED BY <1>3, <2>1, <2>2, <2>3, <2>4
<1> HIDE DEF T
<1>6. \A k \in 0..Len(s) : k \in T
  BY <1>2, <1>4, <1>5, Climb
<1>7. Len(s) \in T
  BY <1>2, <1>6
<1> QED BY <1>1, <1>2, <1>3, <1>7 DEF T

\* Nothing speaks of b in what is picked where no entry picked does.
LEMMA PickedSilent ==
  ASSUME NEW S, NEW s \in Seq(S), NEW P, NEW b, \A i \in P \cap (1..Len(s)) : ~Speaks(s[i], b)
  PROVE  Silent(Picked(s, P), b)
<1> SUFFICES ASSUME NEW j \in 1..Len(Picked(s, P)) PROVE ~Speaks(Picked(s, P)[j], b)
  BY DEF Silent
<1>1. PICK i \in P \cap (1..Len(s)) : Picked(s, P)[j] = s[i]
  BY PickedFrom
<1> QED BY <1>1

\* Where an entry speaks of b, one does last.
LEMMA LastExists ==
  ASSUME NEW S, NEW s \in Seq(S), NEW b, ~Silent(s, b)
  PROVE  \E i \in 1..Len(s) : LastWord(s, b, i)
<1> DEFINE Mute(n) == \A i \in 1..n : ~Speaks(s[i], b)
           Latest(n) == \E i \in 1..n : Speaks(s[i], b) /\ \A j \in (i + 1)..n : ~Speaks(s[j], b)
           T == {n \in 0..Len(s) : Mute(n) \/ Latest(n)}
<1>1. Len(s) \in Nat
  OBVIOUS
<1>2. 0 \in T
  BY <1>1
<1>3. ASSUME NEW m \in 0..(Len(s) - 1), m \in T PROVE m + 1 \in T
  <2>1. m + 1 \in 0..Len(s)
    BY <1>1
  <2>2. CASE Speaks(s[m + 1], b)
    <3>1. Latest(m + 1)
      BY <2>2
    <3> QED BY <2>1, <3>1
  <2>3. CASE ~Speaks(s[m + 1], b) /\ Mute(m)
    <3>1. Mute(m + 1)
      BY <2>3
    <3> QED BY <2>1, <3>1
  <2>4. CASE ~Speaks(s[m + 1], b) /\ Latest(m)
    <3>1. PICK i \in 1..m : Speaks(s[i], b) /\ \A j \in (i + 1)..m : ~Speaks(s[j], b)
      BY <2>4
    <3>2. i \in 1..(m + 1) /\ \A j \in (i + 1)..(m + 1) : ~Speaks(s[j], b)
      BY <2>4, <3>1
    <3>3. Latest(m + 1)
      BY <3>1, <3>2
    <3> QED BY <2>1, <3>3
  <2> HIDE DEF Mute, Latest
  <2> QED BY <1>3, <2>2, <2>3, <2>4
<1> HIDE DEF T
<1>4. \A k \in 0..Len(s) : k \in T
  BY <1>1, <1>2, <1>3, Climb
<1>5. Len(s) \in T
  BY <1>1, <1>4
<1> QED BY <1>5 DEF T, Silent, LastWord

\* Where an entry speaks of b, one does first.
LEMMA FirstExists ==
  ASSUME NEW S, NEW s \in Seq(S), NEW b, ~Silent(s, b)
  PROVE  \E i \in 1..Len(s) : Speaks(s[i], b) /\ \A j \in 1..(i - 1) : ~Speaks(s[j], b)
<1> DEFINE Mute(n) == \A i \in 1..n : ~Speaks(s[i], b)
           Earliest(n) == \E i \in 1..n : Speaks(s[i], b) /\ \A j \in 1..(i - 1) : ~Speaks(s[j], b)
           T == {n \in 0..Len(s) : Mute(n) \/ Earliest(n)}
<1>1. Len(s) \in Nat
  OBVIOUS
<1>2. 0 \in T
  BY <1>1
<1>3. ASSUME NEW m \in 0..(Len(s) - 1), m \in T PROVE m + 1 \in T
  <2>1. m + 1 \in 0..Len(s)
    BY <1>1
  <2>2. CASE Earliest(m)
    <3>1. Earliest(m + 1)
      BY <2>2
    <3> QED BY <2>1, <3>1
  <2>3. CASE Mute(m) /\ Speaks(s[m + 1], b)
    <3>1. m + 1 \in 1..(m + 1) /\ (m + 1) - 1 = m
      OBVIOUS
    <3>2. Earliest(m + 1)
      BY <2>3, <3>1
    <3> QED BY <2>1, <3>2
  <2>4. CASE Mute(m) /\ ~Speaks(s[m + 1], b)
    <3>1. Mute(m + 1)
      BY <2>4
    <3> QED BY <2>1, <3>1
  <2> HIDE DEF Mute, Earliest
  <2> QED BY <1>3, <2>2, <2>3, <2>4
<1> HIDE DEF T
<1>4. \A k \in 0..Len(s) : k \in T
  BY <1>1, <1>2, <1>3, Climb
<1>5. Len(s) \in T
  BY <1>1, <1>4
<1> QED BY <1>5 DEF T, Silent

\* The second of two sequences has the last word, if it says anything.
LEMMA ConcatSays ==
  ASSUME NEW S, NEW s \in Seq(S), NEW t \in Seq(S), NEW b
  PROVE  /\ \A a : Says(t, b, a) => Says(s \o t, b, a)
         /\ \A a : Silent(t, b) /\ Says(s, b, a) => Says(s \o t, b, a)
         /\ Silent(s, b) /\ Silent(t, b) => Silent(s \o t, b)
<1> DEFINE u == s \o t
           m == Len(s)
           n == Len(t)
<1>1. /\ m \in Nat /\ n \in Nat /\ Len(u) = m + n
      /\ \A j \in 1..m : u[j] = s[j]
      /\ \A j \in 1..n : u[m + j] = t[j]
  OBVIOUS
<1>2. u \in Seq(S)
  OBVIOUS
<1> HIDE DEF u, m, n
<1>3. \A j \in 1..Len(u) : j \in 1..m \/ (j - m \in 1..n /\ u[j] = t[j - m])
  <2> SUFFICES ASSUME NEW j \in 1..Len(u), j \notin 1..m PROVE j - m \in 1..n /\ u[j] = t[j - m]
    OBVIOUS
  <2>1. j - m \in 1..n /\ m + (j - m) = j
    BY <1>1
  <2> QED BY <1>1, <2>1
<1>4. ASSUME NEW a, Says(t, b, a) PROVE Says(u, b, a)
  <2>1. PICK i \in 1..n : LastWord(t, b, i) /\ t[i] = a
    BY <1>4 DEF Says, n
  <2>2. m + i \in 1..Len(u) /\ u[m + i] = a /\ Speaks(u[m + i], b)
    BY <1>1, <2>1 DEF LastWord
  <2>3. ASSUME NEW j \in (m + i + 1)..Len(u) PROVE ~Speaks(u[j], b)
    <3>1. j \in 1..Len(u) /\ j \notin 1..m /\ j - m \in (i + 1)..n
      BY <1>1
    <3>2. u[j] = t[j - m]
      BY <3>1, <1>3
    <3> QED BY <2>1, <3>1, <3>2 DEF LastWord, n
  <2>4. LastWord(u, b, m + i)
    BY <2>2, <2>3 DEF LastWord
  <2> QED BY <2>2, <2>4 DEF Says
<1>5. ASSUME NEW a, Silent(t, b), Says(s, b, a) PROVE Says(u, b, a)
  <2>1. PICK i \in 1..m : LastWord(s, b, i) /\ s[i] = a
    BY <1>5 DEF Says, m
  <2>2. i \in 1..Len(u) /\ u[i] = a /\ Speaks(u[i], b)
    BY <1>1, <2>1 DEF LastWord
  <2>3. ASSUME NEW j \in (i + 1)..Len(u) PROVE ~Speaks(u[j], b)
    <3>1. j \in 1..Len(u)
      BY <1>1
    <3>2. CASE j \in 1..m
      <4>1. j \in (i + 1)..m
        BY <3>2, <1>1
      <4> QED BY <3>2, <4>1, <1>1, <2>1 DEF LastWord, m
    <3>3. CASE j - m \in 1..n /\ u[j] = t[j - m]
      BY <3>3, <1>5 DEF Silent, n
    <3> QED BY <3>1, <3>2, <3>3, <1>3
  <2>4. LastWord(u, b, i)
    BY <2>2, <2>3 DEF LastWord
  <2> QED BY <2>2, <2>4 DEF Says
<1>6. ASSUME Silent(s, b), Silent(t, b) PROVE Silent(u, b)
  <2> SUFFICES ASSUME NEW j \in 1..Len(u) PROVE ~Speaks(u[j], b)
    BY DEF Silent
  <2>1. CASE j \in 1..m
    BY <2>1, <1>1, <1>6 DEF Silent, m
  <2>2. CASE j - m \in 1..n /\ u[j] = t[j - m]
    BY <2>2, <1>6 DEF Silent, n
  <2> QED BY <2>1, <2>2, <1>3
<1> QED BY <1>4, <1>5, <1>6 DEF u

\* The merge keeps one word on a bet, the last.
LEMMA MergedSays ==
  ASSUME NEW S, NEW acts \in Seq(S), NEW b
  PROVE  /\ Ordered(acts) \in Seq(S) /\ Merged(acts) \in Seq(S)
         /\ Silent(Ordered(acts), b) => Silent(Merged(acts), b)
         /\ \A a : Says(Ordered(acts), b, a) => Says(Merged(acts), b, a)
<1> DEFINE o == Ordered(acts)
           P == {i \in DOMAIN o : \A j \in 1..(i - 1) : ~SameBet(o[i], o[j])}
           ids == [i \in DOMAIN o |-> i]
           heads == Picked(ids, P)
           Ends(i, j) == /\ j = i \/ SameBet(o[i], o[j])
                         /\ \A k \in (j + 1)..Len(o) : ~SameBet(o[i], o[k])
           lastWord(i) == CHOOSE j \in i..Len(o) : Ends(i, j)
           m == Merged(acts)
<1>1. o \in Seq(S)
  <2>1. FromTemplate(acts) \in Seq(S) /\ FromRules(acts) \in Seq(S)
    BY PickedFrom DEF FromTemplate, FromRules
  <2> QED BY <2>1 DEF Ordered
<1>2. m = [n \in DOMAIN heads |-> o[lastWord(heads[n])]]
  BY DEF Merged
<1> HIDE DEF o, m
<1>3. Len(o) \in Nat /\ DOMAIN o = 1..Len(o) /\ \A i \in 1..Len(o) : o[i] \in S
  BY <1>1
<1>4. /\ heads \in Seq(Nat)
      /\ \A n \in 1..Len(heads) : heads[n] \in P \cap (1..Len(o))
      /\ \A i \in P \cap (1..Len(o)) : \E n \in 1..Len(heads) : heads[n] = i
  <2>1. ids \in Seq(Nat) /\ Len(ids) = Len(o) /\ \A i \in 1..Len(o) : ids[i] = i
    BY <1>3
  <2> HIDE DEF ids, P
  <2>2. ids \in Seq(Nat)
    BY <2>1
  <2>3. /\ Picked(ids, P) \in Seq(Nat)
        /\ \A j \in 1..Len(Picked(ids, P)) : \E i \in P \cap (1..Len(ids)) : Picked(ids, P)[j] = ids[i]
        /\ \A i \in P \cap (1..Len(ids)) : \E j \in 1..Len(Picked(ids, P)) : Picked(ids, P)[j] = ids[i]
    BY ONLY <2>2, PickedFrom
  <2> HIDE DEF heads
  <2>4. /\ \A j \in 1..Len(heads) : \E i \in P \cap (1..Len(ids)) : heads[j] = ids[i]
        /\ \A i \in P \cap (1..Len(ids)) : \E j \in 1..Len(heads) : heads[j] = ids[i]
    BY ONLY <2>3 DEF heads
  <2>5. ASSUME NEW n \in 1..Len(heads) PROVE heads[n] \in P \cap (1..Len(o))
    <3>1. PICK i \in P \cap (1..Len(ids)) : heads[n] = ids[i]
      BY <2>4
    <3>2. i \in 1..Len(o) /\ ids[i] = i
      BY <2>1
    <3> QED BY <3>1, <3>2
  <2>6. ASSUME NEW i \in P \cap (1..Len(o)) PROVE \E n \in 1..Len(heads) : heads[n] = i
    BY <2>1, <2>4
  <2> QED BY <2>3, <2>5, <2>6 DEF heads
<1> HIDE DEF heads
<1>5. ASSUME NEW i \in 1..Len(o) PROVE lastWord(i) \in i..Len(o) /\ Ends(i, lastWord(i))
  <2>1. \E j \in i..Len(o) : Ends(i, j)
    <3>1. CASE ~OnBet(o[i])
      <4>1. i \in i..Len(o) /\ Ends(i, i)
        BY <3>1, <1>3 DEF SameBet
      <4> QED BY <4>1
    <3>2. CASE OnBet(o[i])
      <4> DEFINE c == o[i].bet
      <4>1. Speaks(o[i], c)
        BY <3>2 DEF Speaks
      <4> HIDE DEF c
      <4>2. PICK l \in 1..Len(o) : LastWord(o, c, l)
        BY <4>1, <1>1, LastExists DEF Silent
      <4>3. l \in i..Len(o)
        BY <4>1, <4>2, <1>3 DEF LastWord
      <4>4. Ends(i, l)
        BY <4>1, <4>2 DEF LastWord, SameBet, Speaks, c
      <4> QED BY <4>3, <4>4
    <3> QED BY <3>1, <3>2
  <2> HIDE DEF Ends
  <2> QED BY <2>1
<1> HIDE DEF lastWord
<1>6. Len(heads) \in Nat /\ DOMAIN heads = 1..Len(heads)
  BY <1>4
<1>7. \A n \in 1..Len(heads) : heads[n] \in 1..Len(o) /\ lastWord(heads[n]) \in 1..Len(o)
  <2> SUFFICES ASSUME NEW n \in 1..Len(heads) PROVE heads[n] \in 1..Len(o) /\ lastWord(heads[n]) \in 1..Len(o)
    OBVIOUS
  <2>1. heads[n] \in 1..Len(o)
    BY <1>4
  <2>2. lastWord(heads[n]) \in heads[n]..Len(o)
    BY <2>1, <1>5
  <2> QED BY <2>1, <2>2, <1>3
<1>8. m \in Seq(S) /\ Len(m) = Len(heads) /\ \A n \in 1..Len(heads) : m[n] = o[lastWord(heads[n])]
  BY <1>2, <1>3, <1>6, <1>7
<1>9. ASSUME NEW n \in 1..Len(m), Speaks(m[n], b)
      PROVE  LastWord(o, b, lastWord(heads[n]))
  <2> DEFINE i == heads[n]
             j == lastWord(i)
  <2>1. i \in 1..Len(o) /\ j \in 1..Len(o) /\ Speaks(o[j], b) /\ Ends(i, j)
    BY <1>5, <1>7, <1>8, <1>9
  <2> HIDE DEF i, j
  <2>2. Speaks(o[i], b)
    BY <2>1 DEF SameBet, Speaks
  <2>3. \A k \in (j + 1)..Len(o) : ~Speaks(o[k], b)
    BY <2>1, <2>2 DEF SameBet, Speaks
  <2>4. LastWord(o, b, j)
    BY <2>1, <2>3 DEF LastWord
  <2> QED BY <2>4 DEF i, j
<1>10. ASSUME Silent(o, b) PROVE Silent(m, b)
  BY <1>9, <1>10 DEF Silent, LastWord
<1>11. ASSUME NEW a, Says(o, b, a) PROVE Says(m, b, a)
  <2>1. PICK l \in 1..Len(o) : LastWord(o, b, l) /\ o[l] = a
    BY <1>11 DEF Says
  <2>2. \A n \in 1..Len(m) : Speaks(m[n], b) => m[n] = a
    <3> SUFFICES ASSUME NEW n \in 1..Len(m), Speaks(m[n], b) PROVE m[n] = a
      OBVIOUS
    <3>1. LastWord(o, b, lastWord(heads[n])) /\ m[n] = o[lastWord(heads[n])]
      BY <1>8, <1>9
    <3>2. lastWord(heads[n]) = l
      BY <2>1, <3>1, <1>3 DEF LastWord
    <3> QED BY <2>1, <3>1, <3>2
  <2>3. ~Silent(m, b)
    <3>1. PICK i \in 1..Len(o) : Speaks(o[i], b) /\ \A j \in 1..(i - 1) : ~Speaks(o[j], b)
      BY <1>1, <2>1, FirstExists DEF Silent, LastWord
    <3>2. i \in P
      BY <1>3, <3>1 DEF SameBet, Speaks
    <3>3. PICK n \in 1..Len(heads) : heads[n] = i
      BY <3>2, <1>4
    <3>4. Ends(i, lastWord(i))
      BY <1>5
    <3>5. Speaks(o[lastWord(i)], b)
      BY <3>1, <3>4 DEF SameBet, Speaks
    <3>6. n \in 1..Len(m) /\ Speaks(m[n], b)
      BY <3>3, <3>5, <1>8
    <3> QED BY <3>6 DEF Silent
  <2>4. PICK n \in 1..Len(m) : LastWord(m, b, n)
    BY <1>8, <2>3, LastExists
  <2> QED BY <2>2, <2>4 DEF Says, LastWord
<1> QED BY <1>1, <1>8, <1>10, <1>11 DEF o, m

\* What is on bet b, and what an envelope makes of the amount n.
Worth(bets, b) == IF b \in DOMAIN bets THEN bets[b] ELSE 0
Applied(n, a) ==
  CASE a.act = "set" -> a.amt [] a.act = "clear" -> 0 [] a.act = "press" -> n + a.amt
    [] OTHER -> IF n > a.amt THEN n - a.amt ELSE 0

\* What the first k envelopes make of the bets.
Landing(f, bets, acts, k) ==
  IF k = 0 THEN [b \in BetKeys |-> Worth(bets, b)]
  ELSE [b \in BetKeys |-> IF OnBet(acts[k]) /\ acts[k].bet = b THEN Applied(f[k - 1][b], acts[k])
                          ELSE f[k - 1][b]]

Lands(f, bets, acts, n) == f = [k \in 0..n |-> Landing(f, bets, acts, k)]

\* Envelopes land.
LEMMA LandsExist ==
  ASSUME NEW n \in Nat, NEW bets, NEW acts PROVE \E f : Lands(f, bets, acts, n)
<1> DEFINE T == {k \in 0..n : \E f : Lands(f, bets, acts, k)}
<1>1. 0 \in T
  <2> DEFINE g == [k \in 0..0 |-> [b \in BetKeys |-> Worth(bets, b)]]
  <2>1. Lands(g, bets, acts, 0)
    BY DEF Lands, Landing
  <2> HIDE DEF g
  <2> QED BY <2>1
<1>2. ASSUME NEW m \in 0..(n - 1), m \in T PROVE m + 1 \in T
  <2>1. PICK f : Lands(f, bets, acts, m)
    BY <1>2
  <2> DEFINE g == [k \in 0..(m + 1) |-> IF k = m + 1 THEN Landing(f, bets, acts, m + 1) ELSE f[k]]
  <2>2. \A k \in 0..m : f[k] = Landing(f, bets, acts, k)
    BY <2>1 DEF Lands
  <2>3. \A k \in 0..m : g[k] = f[k]
    OBVIOUS
  <2>4. g[m + 1] = Landing(f, bets, acts, m + 1)
    OBVIOUS
  <2>5. g = [k \in 0..(m + 1) |-> g[k]]
    OBVIOUS
  <2> HIDE DEF g
  <2>6. ASSUME NEW k \in 0..(m + 1) PROVE g[k] = Landing(g, bets, acts, k)
    <3>1. CASE k = 0
      <4>1. g[0] = f[0] /\ f[0] = Landing(f, bets, acts, 0)
        BY <2>2, <2>3
      <4> QED BY <3>1, <4>1 DEF Landing
    <3>2. CASE k # 0
      <4>1. k - 1 \in 0..m
        BY <3>2
      <4>2. g[k - 1] = f[k - 1]
        BY <4>1, <2>3
      <4>3. Landing(g, bets, acts, k) = Landing(f, bets, acts, k)
        BY <3>2, <4>2 DEF Landing
      <4>4. g[k] = Landing(f, bets, acts, k)
        <5>1. CASE k = m + 1
          BY <5>1, <2>4
        <5>2. CASE k \in 0..m
          BY <5>2, <2>2, <2>3
        <5> QED BY <5>1, <5>2
      <4> QED BY <4>3, <4>4
    <3> QED BY <3>1, <3>2
  <2>7. Lands(g, bets, acts, m + 1)
    BY ONLY <2>5, <2>6 DEF Lands
  <2> QED BY <2>7
<1> HIDE DEF T
<1>3. n \in T
  BY <1>1, <1>2, Climb
<1> QED BY <1>3 DEF T

\* The amount an envelope that sets or clears leaves.
Leaves(a) == IF a.act = "set" THEN a.amt ELSE 0

\* What lands on a bet: what was on it, or what the last word sets it to.
LEMMA LandedIs ==
  ASSUME NEW S, NEW acts \in Seq(S), NEW bets, NEW b \in BetKeys
  PROVE  /\ Silent(acts, b) => Landed(bets, acts)[b] = Worth(bets, b)
         /\ \A a : Says(acts, b, a) /\ a.act \in {"set", "clear"} => Landed(bets, acts)[b] = Leaves(a)
<1> DEFINE f == CHOOSE h : Lands(h, bets, acts, Len(acts))
<1>0. Len(acts) \in Nat
  OBVIOUS
<1>1. Landed(bets, acts) = f[Len(acts)]
  BY DEF Landed, Lands, Landing, Worth, Applied
<1>2. Lands(f, bets, acts, Len(acts))
  BY <1>0, LandsExist
<1> HIDE DEF f
<1>3. \A k \in 0..Len(acts) : f[k] = Landing(f, bets, acts, k)
  BY <1>2 DEF Lands
<1>4. f[0][b] = Worth(bets, b)
  <2>1. 0 \in 0..Len(acts)
    BY <1>0
  <2>2. f[0] = [c \in BetKeys |-> Worth(bets, c)]
    BY <2>1, <1>3 DEF Landing
  <2> QED BY <2>2
<1>5. \A k \in 1..Len(acts) : f[k][b] = IF Speaks(acts[k], b) THEN Applied(f[k - 1][b], acts[k]) ELSE f[k - 1][b]
  <2> SUFFICES ASSUME NEW k \in 1..Len(acts)
               PROVE  f[k][b] = IF Speaks(acts[k], b) THEN Applied(f[k - 1][b], acts[k]) ELSE f[k - 1][b]
    OBVIOUS
  <2>1. k \in 0..Len(acts) /\ k # 0
    BY <1>0
  <2>2. f[k] = [c \in BetKeys |-> IF OnBet(acts[k]) /\ acts[k].bet = c THEN Applied(f[k - 1][c], acts[k])
                                  ELSE f[k - 1][c]]
    <3>1. f[k] = Landing(f, bets, acts, k)
      BY ONLY <2>1, <1>3
    <3> QED BY ONLY <2>1, <3>1 DEF Landing
  <2> QED BY ONLY <2>2, b \in BetKeys DEF Speaks
<1>6. ASSUME Silent(acts, b) PROVE f[Len(acts)][b] = Worth(bets, b)
  <2> DEFINE T == {k \in 0..Len(acts) : f[k][b] = Worth(bets, b)}
  <2>1. 0 \in T
    BY <1>0, <1>4
  <2>2. ASSUME NEW m \in 0..(Len(acts) - 1), m \in T PROVE m + 1 \in T
    <3>1. m + 1 \in 1..Len(acts) /\ (m + 1) - 1 = m
      BY <1>0
    <3> QED BY <3>1, <2>2, <1>5, <1>6 DEF Silent
  <2> HIDE DEF T
  <2>3. \A k \in 0..Len(acts) : k \in T
    BY <1>0, <2>1, <2>2, Climb
  <2>4. Len(acts) \in T
    BY <1>0, <2>3
  <2> QED BY <2>4 DEF T
<1>7. ASSUME NEW a, Says(acts, b, a), a.act \in {"set", "clear"} PROVE f[Len(acts)][b] = Leaves(a)
  <2>1. PICK i \in 1..Len(acts) : LastWord(acts, b, i) /\ acts[i] = a
    BY <1>7 DEF Says
  <2> DEFINE T == {k \in 0..Len(acts) : k >= i => f[k][b] = Leaves(a)}
  <2>2. 0 \in T
    BY <1>0
  <2>3. ASSUME NEW m \in 0..(Len(acts) - 1), m \in T PROVE m + 1 \in T
    <3>1. m + 1 \in 1..Len(acts) /\ (m + 1) - 1 = m /\ m + 1 \in 0..Len(acts)
      BY <1>0
    <3>2. CASE m + 1 = i
      <4>1. Speaks(acts[i], b) /\ acts[i] = a
        BY <2>1 DEF LastWord
      <4>2. f[i][b] = Applied(f[m][b], a)
        BY <3>1, <3>2, <4>1, <1>5
      <4>3. f[i][b] = Leaves(a)
        BY <4>2, <1>7 DEF Applied, Leaves
      <4> QED BY <3>1, <3>2, <4>3
    <3>3. CASE m + 1 > i
      <4>1. ~Speaks(acts[m + 1], b)
        BY <3>1, <3>3, <2>1, <1>0 DEF LastWord
      <4>2. f[m][b] = Leaves(a)
        BY <3>3, <2>3
      <4>3. f[m + 1][b] = f[m][b]
        BY <3>1, <4>1, <1>5
      <4> QED BY <3>1, <4>2, <4>3
    <3>4. CASE m + 1 < i
      BY <3>1, <3>4
    <3> QED BY <3>1, <3>2, <3>3, <3>4
  <2> HIDE DEF T
  <2>4. \A k \in 0..Len(acts) : k \in T
    BY <1>0, <2>2, <2>3, Climb
  <2>5. Len(acts) \in T /\ Len(acts) >= i
    BY <1>0, <2>4
  <2> QED BY <2>5 DEF T
<1> QED BY <1>1, <1>6, <1>7

\* The template of a mode, and what it wants when the point is p.
TemplateOf(mode) == IF mode \in DOMAIN Template THEN Template[mode] ELSE <<>>
Wanted(mode, p) == [b \in BetKeys |-> Desired(TemplateOf(mode), p, b)]

\* A template wants amounts that are numbers.
LEMMA WantedNat ==
  ASSUME NEW mode, NEW p PROVE Wanted(mode, p) \in [BetKeys -> Nat]
<1> DEFINE t == TemplateOf(mode)
<1> SUFFICES ASSUME NEW b \in BetKeys PROVE Desired(t, p, b) \in Nat
  BY DEF Wanted
<1>1. \A m \in DOMAIN Template : \A c \in DOMAIN Template[m] : Template[m][c] \in Nat
  BY ControllerConstants
<1>2. \A c \in DOMAIN t : t[c] \in Nat
  <2>1. CASE mode \in DOMAIN Template
    BY <2>1, <1>1 DEF TemplateOf
  <2>2. CASE mode \notin DOMAIN Template
    BY <2>2 DEF TemplateOf
  <2> QED BY <2>1, <2>2
<1> HIDE DEF t
<1>3. \A c : Asked(t, c) \in Nat
  BY <1>2 DEF Asked
<1>4. \A c : LineLegal(Asked(t, c)) \in Nat
  BY <1>3 DEF LineLegal, Level
<1>5. \A x, y \in Nat : Lesser(x, y) \in Nat
  BY DEF Lesser
<1>6. \A c, d : Lesser(Asked(t, c), MaxOddsMultiple * LineLegal(Asked(t, d))) \in Nat
  <2>1. \A y \in Nat : MaxOddsMultiple * y \in Nat
    BY DEF MaxOddsMultiple
  <2> QED BY <1>3, <1>4, <1>5, <2>1
<1>7. \A c : (Asked(t, c) \div PlaceStep(c[2])) * PlaceStep(c[2]) \in Nat
  <2> SUFFICES ASSUME NEW c PROVE (Asked(t, c) \div PlaceStep(c[2])) * PlaceStep(c[2]) \in Nat
    OBVIOUS
  <2>1. PlaceStep(c[2]) \in {5, 6}
    BY DEF PlaceStep
  <2>2. \A x \in Nat : (x \div 5) * 5 \in Nat /\ (x \div 6) * 6 \in Nat
    OBVIOUS
  <2> QED BY <1>3, <2>1, <2>2
<1> QED BY <1>3, <1>4, <1>6, <1>7 DEF Desired

\* The plan's envelopes.
PlanActs ==
  {BetAct("template", "clear", c, NoAmount) : c \in BetKeys}
  \cup {BetAct("template", "set", c, n) : c \in BetKeys, n \in Nat}

\* They speak of the bet they are made for.
LEMMA PlanActFields ==
  ASSUME NEW c \in BetKeys, NEW n \in Nat
  PROVE  LET x == BetAct("template", "clear", c, NoAmount)
             y == BetAct("template", "set", c, n)
         IN  /\ x \in PlanActs /\ OnBet(x) /\ x.bet = c /\ Leaves(x) = 0
             /\ y \in PlanActs /\ OnBet(y) /\ y.bet = c /\ Leaves(y) = n
<1> DEFINE x == BetAct("template", "clear", c, NoAmount)
           y == BetAct("template", "set", c, n)
<1>1. x \in PlanActs /\ y \in PlanActs
  BY DEF PlanActs
<1>2. x.bet = c /\ x.act = "clear" /\ y.bet = c /\ y.act = "set" /\ y.amt = n
  BY DEF BetAct
<1> HIDE DEF x, y
<1>3. c # NoBet
  BY PlanConstants
<1>4. OnBet(x) /\ OnBet(y)
  BY <1>2, <1>3 DEF OnBet
<1>5. Leaves(x) = 0 /\ Leaves(y) = n
  BY <1>2 DEF Leaves
<1> QED BY <1>1, <1>2, <1>4, <1>5 DEF x, y

\* diff_bets's two tests.
Changed(current, want, c) == c \in DOMAIN current /\ (want[c] = 0 \/ current[c] # want[c])
Comes(current, want, c) == want[c] > 0 /\ (c \in DOMAIN current => Changed(current, want, c))

\* The envelopes e makes of the bets of s.
Mapped(s, e) == [i \in DOMAIN s |-> e[s[i]]]

\* The bets of BetOrder that pass a test, made envelopes, speak of those bets alone.
LEMMA MappedSays ==
  ASSUME NEW K, NEW s \in Seq(BetKeys), NEW A, NEW e, NEW b \in BetKeys,
         \A c \in BetKeys : e[c] \in A /\ OnBet(e[c]) /\ e[c].bet = c,
         \A j \in 1..Len(s) : s[j] \in K,
         b \in K => \E j \in 1..Len(s) : s[j] = b
  PROVE  /\ Mapped(s, e) \in Seq(A)
         /\ b \notin K => Silent(Mapped(s, e), b)
         /\ b \in K => Says(Mapped(s, e), b, e[b])
<1> DEFINE m == Mapped(s, e)
<1>1. Len(s) \in Nat /\ DOMAIN s = 1..Len(s) /\ \A j \in 1..Len(s) : s[j] \in BetKeys
  OBVIOUS
<1>2. m \in Seq(A) /\ Len(m) = Len(s) /\ \A j \in 1..Len(s) : m[j] = e[s[j]]
  BY <1>1 DEF Mapped
<1> HIDE DEF m
<1>3. \A j \in 1..Len(m) : Speaks(m[j], b) => s[j] = b
  BY <1>1, <1>2 DEF Speaks
<1>4. ASSUME b \notin K PROVE Silent(m, b)
  BY <1>2, <1>3, <1>4 DEF Silent
<1>5. ASSUME b \in K PROVE Says(m, b, e[b])
  <2>1. PICK j \in 1..Len(s) : s[j] = b
    BY <1>5
  <2>2. ~Silent(m, b)
    BY <1>2, <2>1 DEF Silent, Speaks
  <2>3. PICK i \in 1..Len(m) : LastWord(m, b, i)
    BY <1>2, <2>2, LastExists
  <2>4. m[i] = e[b]
    BY <1>2, <1>3, <2>3 DEF LastWord
  <2> QED BY <2>3, <2>4 DEF Says
<1> QED BY <1>2, <1>4, <1>5 DEF m

\* What is picked from BetOrder by a test on its bets.
LEMMA OrderPicked ==
  ASSUME NEW K
  PROVE  LET s == Picked(BetOrder, {i \in DOMAIN BetOrder : BetOrder[i] \in K})
         IN  /\ s \in Seq(BetKeys)
             /\ \A j \in 1..Len(s) : s[j] \in K
             /\ \A b \in BetKeys : b \in K => \E j \in 1..Len(s) : s[j] = b
<1> DEFINE P == {i \in DOMAIN BetOrder : BetOrder[i] \in K}
           s == Picked(BetOrder, P)
<1>1. BetOrder \in Seq(BetKeys)
  BY PlanConstants
<1>2. DOMAIN BetOrder = 1..Len(BetOrder)
  BY <1>1
<1>3. /\ s \in Seq(BetKeys)
      /\ \A j \in 1..Len(s) : \E i \in P \cap (1..Len(BetOrder)) : s[j] = BetOrder[i]
      /\ \A i \in P \cap (1..Len(BetOrder)) : \E j \in 1..Len(s) : s[j] = BetOrder[i]
  <2> HIDE DEF P
  <2> QED BY ONLY <1>1, PickedFrom
<1> HIDE DEF s
<1>4. \A j \in 1..Len(s) : s[j] \in K
  BY <1>3
<1>5. ASSUME NEW b \in BetKeys, b \in K PROVE \E j \in 1..Len(s) : s[j] = b
  <2>1. PICK i \in DOMAIN BetOrder : BetOrder[i] = b
    BY DEF BetKeys, Range
  <2>2. i \in P \cap (1..Len(BetOrder))
    BY <2>1, <1>2, <1>5
  <2> QED BY <2>1, <2>2, <1>3
<1> QED BY <1>3, <1>4, <1>5 DEF s

\* s leaves on b what is wanted: it is there already, or an envelope of the plan
\* has the last word.
Reaches(s, bets, b, want) ==
  \/ Silent(s, b) /\ Worth(bets, b) = want[b]
  \/ \E a \in PlanActs : Says(s, b, a) /\ Leaves(a) = want[b]

\* The plan takes every bet to what is wanted on it.
LEMMA DiffSays ==
  ASSUME NEW current, NEW want \in [BetKeys -> Nat], NEW b \in BetKeys
  PROVE  Diff(current, want) \in Seq(PlanActs) /\ Reaches(Diff(current, want), current, b, want)
<1> DEFINE Kc == {c \in BetKeys : Changed(current, want, c)}
           Ks == {c \in BetKeys : Comes(current, want, c)}
           clears == Picked(BetOrder, {i \in DOMAIN BetOrder : BetOrder[i] \in Kc})
           sets == Picked(BetOrder, {i \in DOMAIN BetOrder : BetOrder[i] \in Ks})
           ec == [c \in BetKeys |-> BetAct("template", "clear", c, NoAmount)]
           es == [c \in BetKeys |-> BetAct("template", "set", c, want[c])]
           dc == Mapped(clears, ec)
           ds == Mapped(sets, es)
<1>1. /\ clears \in Seq(BetKeys) /\ \A j \in 1..Len(clears) : clears[j] \in Kc
      /\ \A c \in BetKeys : c \in Kc => \E j \in 1..Len(clears) : clears[j] = c
  <2> HIDE DEF Kc
  <2> QED BY OrderPicked
<1>2. /\ sets \in Seq(BetKeys) /\ \A j \in 1..Len(sets) : sets[j] \in Ks
      /\ \A c \in BetKeys : c \in Ks => \E j \in 1..Len(sets) : sets[j] = c
  <2> HIDE DEF Ks
  <2> QED BY OrderPicked
<1>3. Diff(current, want) = dc \o ds
  <2>1. \A i \in DOMAIN BetOrder : BetOrder[i] \in BetKeys
    BY DEF BetKeys, Range
  <2>2. /\ {i \in DOMAIN BetOrder : BetOrder[i] \in Kc} = {i \in DOMAIN BetOrder : Changed(current, want, BetOrder[i])}
        /\ {i \in DOMAIN BetOrder : BetOrder[i] \in Ks} = {i \in DOMAIN BetOrder : Comes(current, want, BetOrder[i])}
    BY <2>1
  <2>3. /\ clears = Picked(BetOrder, {i \in DOMAIN BetOrder : Changed(current, want, BetOrder[i])})
        /\ sets = Picked(BetOrder, {i \in DOMAIN BetOrder : Comes(current, want, BetOrder[i])})
    BY <2>2
  <2> HIDE DEF clears, sets
  <2>4. DOMAIN clears = 1..Len(clears) /\ DOMAIN sets = 1..Len(sets)
    BY <1>1, <1>2
  <2>5. /\ dc = [i \in DOMAIN clears |-> BetAct("template", "clear", clears[i], NoAmount)]
        /\ ds = [i \in DOMAIN sets |-> BetAct("template", "set", sets[i], want[sets[i]])]
    BY <1>1, <1>2, <2>4 DEF Mapped
  <2> QED BY <2>3, <2>5 DEF Diff, Changed, Comes
<1>4. /\ \A c \in BetKeys : ec[c] \in PlanActs /\ OnBet(ec[c]) /\ ec[c].bet = c /\ Leaves(ec[c]) = 0
      /\ \A c \in BetKeys : es[c] \in PlanActs /\ OnBet(es[c]) /\ es[c].bet = c /\ Leaves(es[c]) = want[c]
  <2> SUFFICES ASSUME NEW c \in BetKeys
               PROVE  /\ ec[c] \in PlanActs /\ OnBet(ec[c]) /\ ec[c].bet = c /\ Leaves(ec[c]) = 0
                      /\ es[c] \in PlanActs /\ OnBet(es[c]) /\ es[c].bet = c /\ Leaves(es[c]) = want[c]
    OBVIOUS
  <2>1. /\ ec[c] = BetAct("template", "clear", c, NoAmount)
        /\ es[c] = BetAct("template", "set", c, want[c]) /\ want[c] \in Nat
    OBVIOUS
  <2> QED BY <2>1, PlanActFields
<1>5. /\ dc \in Seq(PlanActs) /\ (b \notin Kc => Silent(dc, b)) /\ (b \in Kc => Says(dc, b, ec[b]))
  <2> HIDE DEF clears, ec, Kc
  <2>1. \A c \in BetKeys : ec[c] \in PlanActs /\ OnBet(ec[c]) /\ ec[c].bet = c
    BY <1>4
  <2>2. /\ clears \in Seq(BetKeys) /\ \A j \in 1..Len(clears) : clears[j] \in Kc
        /\ b \in Kc => \E j \in 1..Len(clears) : clears[j] = b
    BY <1>1
  <2> QED BY ONLY <2>1, <2>2, b \in BetKeys, MappedSays
<1>6. /\ ds \in Seq(PlanActs) /\ (b \notin Ks => Silent(ds, b)) /\ (b \in Ks => Says(ds, b, es[b]))
  <2> HIDE DEF sets, es, Ks
  <2>1. \A c \in BetKeys : es[c] \in PlanActs /\ OnBet(es[c]) /\ es[c].bet = c
    BY <1>4
  <2>2. /\ sets \in Seq(BetKeys) /\ \A j \in 1..Len(sets) : sets[j] \in Ks
        /\ b \in Ks => \E j \in 1..Len(sets) : sets[j] = b
    BY <1>2
  <2> QED BY ONLY <2>1, <2>2, b \in BetKeys, MappedSays
<1> HIDE DEF dc, ds
<1>7. want[b] \in Nat
  OBVIOUS
<1>8. dc \o ds \in Seq(PlanActs)
  BY <1>5, <1>6
<1>9. CASE b \in Ks
  <2>1. Says(dc \o ds, b, es[b])
    BY <1>5, <1>6, <1>9, ConcatSays
  <2>2. es[b] \in PlanActs /\ Leaves(es[b]) = want[b]
    BY <1>4
  <2> QED BY <1>3, <1>8, <2>1, <2>2 DEF Reaches
<1>10. CASE b \notin Ks /\ b \in Kc
  <2>1. Says(dc \o ds, b, ec[b])
    BY <1>5, <1>6, <1>10, ConcatSays
  <2>2. want[b] = 0
    BY <1>7, <1>10 DEF Comes
  <2>3. ec[b] \in PlanActs /\ Leaves(ec[b]) = want[b]
    BY <1>4, <2>2
  <2> QED BY <1>3, <1>8, <2>1, <2>3 DEF Reaches
<1>11. CASE b \notin Ks /\ b \notin Kc
  <2>1. Silent(dc \o ds, b)
    BY <1>5, <1>6, <1>11, ConcatSays
  <2>2. Worth(current, b) = want[b]
    BY <1>7, <1>11 DEF Comes, Changed, Worth
  <2> QED BY <1>3, <1>8, <2>1, <2>2 DEF Reaches
<1> QED BY <1>9, <1>10, <1>11

\* The envelopes the spec's rules can make.
RuleActs == {Envelope(step) : step \in UNION {Range(Rules[i].do) : i \in DOMAIN Rules}}

\* The envelopes of a rule are such envelopes.
LEMMA EnvelopesTyped ==
  ASSUME NEW i \in DOMAIN Rules PROVE Envelopes(Rules[i]) \in Seq(RuleActs)
<1> DEFINE do == Rules[i].do
           P == {j \in DOMAIN do : WellFormed(do[j])}
           steps == Picked(do, P)
<1>1. do \in Seq(Range(do))
  <2>1. \A j \in DOMAIN Rules : Rules[j].do \in Seq(Range(Rules[j].do))
    BY ONLY ControllerConstants
  <2> QED BY ONLY <2>1, i \in DOMAIN Rules
<1>2. Envelopes(Rules[i]) = [j \in DOMAIN steps |-> Envelope(steps[j])]
  BY DEF Envelopes
<1>3. \A x \in Range(do) : Envelope(x) \in RuleActs
  BY DEF RuleActs
<1> HIDE DEF do, P
<1>4. steps \in Seq(Range(do))
  BY <1>1, PickedFrom
<1> HIDE DEF steps
<1>5. Len(steps) \in Nat /\ DOMAIN steps = 1..Len(steps) /\ \A j \in 1..Len(steps) : steps[j] \in Range(do)
  BY <1>4
<1>6. [j \in 1..Len(steps) |-> Envelope(steps[j])] \in Seq(RuleActs)
  <2>1. [j \in 1..Len(steps) |-> Envelope(steps[j])] \in [1..Len(steps) -> RuleActs]
    BY <1>3, <1>5
  <2> QED BY <2>1, <1>5
<1> QED BY <1>2, <1>5, <1>6

\* A rule is one of the event and its condition holds.
Fires(r, event, view) == r.event = event /\ Holds(r.when, view)

\* What the rules answer is a sequence of such envelopes.
LEMMA RuleActionsTyped ==
  ASSUME NEW event, NEW view PROVE RuleActions(Rules, event, view) \in Seq(RuleActs)
<1> DEFINE Adds(h) == h = [n \in 0..Len(Rules) |->
                             IF n = 0 THEN <<>>
                             ELSE IF Fires(Rules[n], event, view) THEN h[n - 1] \o Envelopes(Rules[n])
                             ELSE h[n - 1]]
           f == CHOOSE h : Adds(h)
           X == Seq(RuleActs)
           step == [p \in (1..Len(Rules)) \X X |->
                      IF Fires(Rules[p[1]], event, view) THEN p[2] \o Envelopes(Rules[p[1]]) ELSE p[2]]
<1>0. Len(Rules) \in Nat /\ DOMAIN Rules = 1..Len(Rules)
  <2>1. Rules \in Seq(Range(Rules))
    BY ONLY ControllerConstants
  <2> QED BY ONLY <2>1
<1>1. RuleActions(Rules, event, view) = f[Len(Rules)]
  BY DEF RuleActions, Fires
<1>2. \A k \in 1..Len(Rules) : \A x \in X :
        /\ step[<<k, x>>] = IF Fires(Rules[k], event, view) THEN x \o Envelopes(Rules[k]) ELSE x
        /\ x \o Envelopes(Rules[k]) \in X
  <2> SUFFICES ASSUME NEW k \in 1..Len(Rules), NEW x \in X
               PROVE  /\ step[<<k, x>>] = IF Fires(Rules[k], event, view) THEN x \o Envelopes(Rules[k]) ELSE x
                      /\ x \o Envelopes(Rules[k]) \in X
    OBVIOUS
  <2>1. Envelopes(Rules[k]) \in X
    BY <1>0, EnvelopesTyped
  <2>2. x \o Envelopes(Rules[k]) \in X
    BY <2>1
  <2> QED BY <2>2
<1>3. <<>> \in X
  OBVIOUS
<1> HIDE DEF X, step
<1>4. PICK g : Solves(g, Len(Rules), X, <<>>, step)
  <2>1. \A k \in 1..Len(Rules) : \A x \in X : step[<<k, x>>] \in X
    BY <1>2
  <2> QED BY ONLY <1>0, <1>3, <2>1, StepsExist
<1>5. Adds(g)
  <2>1. ASSUME NEW k \in 0..Len(Rules)
        PROVE  g[k] = IF k = 0 THEN <<>>
                      ELSE IF Fires(Rules[k], event, view) THEN g[k - 1] \o Envelopes(Rules[k]) ELSE g[k - 1]
    <3>1. CASE k = 0
      BY <3>1, <1>4 DEF Solves
    <3>2. CASE k # 0
      <4>1. k \in 1..Len(Rules) /\ k - 1 \in 0..Len(Rules)
        BY <3>2, <1>0
      <4>2. g[k - 1] \in X /\ g[k] = step[<<k, g[k - 1]>>]
        BY <4>1, <1>4 DEF Solves
      <4> QED BY <3>2, <4>1, <4>2, <1>2
    <3> QED BY <3>1, <3>2
  <2> QED BY <2>1, <1>4 DEF Solves
<1>6. Adds(f)
  BY <1>5
<1> HIDE DEF f
<1>7. \A n \in 0..Len(Rules) :
        f[n] = IF n = 0 THEN <<>>
               ELSE IF Fires(Rules[n], event, view) THEN f[n - 1] \o Envelopes(Rules[n]) ELSE f[n - 1]
  BY <1>6
<1> DEFINE T == {k \in 0..Len(Rules) : f[k] \in X}
<1>8. \A k \in 0..Len(Rules) : k \in T
  <2>1. 0 \in T
    BY <1>0, <1>3, <1>7
  <2>2. ASSUME NEW m \in 0..(Len(Rules) - 1), m \in T PROVE m + 1 \in T
    <3>1. m + 1 \in 0..Len(Rules) /\ m + 1 # 0 /\ m + 1 \in 1..Len(Rules) /\ (m + 1) - 1 = m
      BY <1>0
    <3>2. f[m] \in X /\ f[m] \o Envelopes(Rules[m + 1]) \in X
      BY <3>1, <2>2, <1>2
    <3> QED BY <3>1, <3>2, <1>7
  <2> HIDE DEF T
  <2> QED BY <1>0, <2>1, <2>2, Climb
<1>9. Len(Rules) \in T
  BY <1>0, <1>8
<1> QED BY <1>1, <1>9 DEF X

DemoAct == BetAct("rule", "set", <<"place", 6>>, DemoAmount)
AllActs == RuleActs \cup PlanActs \cup {DemoAct}

\* When a point is set, what is planned for a bet leaves what its mode's template
\* wants, but for the demonstration's bet.
LEMMA PlannedSays ==
  ASSUME NEW k, NEW ev, ev.type = "point_established", NEW bets, NEW b \in BetKeys,
         ~(Demo /\ k.point = 6 /\ b = <<"place", 6>>)
  PROVE  /\ Planned(k, ev, bets) \in Seq(AllActs)
         /\ \A i \in 1..Len(Planned(k, ev, bets)) :
              Speaks(Planned(k, ev, bets)[i], b) => Planned(k, ev, bets)[i].src = "template"
         /\ Reaches(Planned(k, ev, bets), bets, b, Wanted(k.mode, k.point))
<1> DEFINE p == Planned(k, ev, bets)
           want == Wanted(k.mode, k.point)
           plan == Diff(bets, want)
<1>1. Plan(k, bets) = plan
  BY DEF Plan, Wanted, TemplateOf
<1>2. p = IF Demo /\ plan = <<>> /\ k.point = 6 THEN <<DemoAct>> ELSE plan
  BY <1>1 DEF Planned, DemoAct
<1>3. want \in [BetKeys -> Nat]
  BY WantedNat
<1> HIDE DEF p, want
<1>4. plan \in Seq(PlanActs) /\ Reaches(plan, bets, b, want)
  BY <1>3, DiffSays
<1> HIDE DEF plan
<1>5. CASE Demo /\ plan = <<>> /\ k.point = 6
  <2>1. p = <<DemoAct>> /\ DemoAct.bet # b
    BY <1>2, <1>5 DEF DemoAct, BetAct
  <2>2. p \in Seq(AllActs) /\ Len(p) = 1 /\ p[1] = DemoAct
    BY <2>1 DEF AllActs
  <2>3. \A i \in 1..Len(p) : ~Speaks(p[i], b)
    BY <2>1, <2>2 DEF Speaks
  <2>4. Len(plan) = 0
    BY <1>5
  <2>5. \A a : ~Says(plan, b, a)
    BY <2>4 DEF Says
  <2> QED BY <1>4, <2>2, <2>3, <2>5 DEF Silent, Reaches, p, want
<1>6. CASE ~(Demo /\ plan = <<>> /\ k.point = 6)
  <2>1. p = plan
    BY <1>2, <1>6
  <2>2. ASSUME NEW a \in PlanActs PROVE a.src = "template"
    <3>1. \/ \E c \in BetKeys : a = BetAct("template", "clear", c, NoAmount)
          \/ \E c \in BetKeys, n \in Nat : a = BetAct("template", "set", c, n)
      BY DEF PlanActs
    <3>2. \A c, n : BetAct("template", "clear", c, n).src = "template" /\ BetAct("template", "set", c, n).src = "template"
      BY DEF BetAct
    <3> QED BY <3>1, <3>2
  <2>3. \A i \in 1..Len(plan) : plan[i] \in PlanActs
    BY <1>4
  <2>4. plan \in Seq(AllActs)
    BY <1>4 DEF AllActs
  <2> QED BY <1>4, <2>1, <2>2, <2>3, <2>4 DEF p, want
<1> QED BY <1>5, <1>6

\* Every entry of s that speaks of b is in Q.
Only(s, b, Q) == \A i \in 1..Len(s) : Speaks(s[i], b) => s[i] \in Q

\* So it is with two such sequences one after the other.
LEMMA ConcatOnly ==
  ASSUME NEW S, NEW s \in Seq(S), NEW t \in Seq(S), NEW b, NEW Q, Only(s, b, Q), Only(t, b, Q)
  PROVE  Only(s \o t, b, Q)
<1> SUFFICES ASSUME NEW j \in 1..Len(s \o t), Speaks((s \o t)[j], b) PROVE (s \o t)[j] \in Q
  BY DEF Only
<1>1. Len(s) \in Nat /\ Len(t) \in Nat /\ Len(s \o t) = Len(s) + Len(t)
  OBVIOUS
<1>2. CASE j <= Len(s)
  <2>1. j \in 1..Len(s) /\ (s \o t)[j] = s[j]
    BY <1>1, <1>2
  <2> QED BY <2>1 DEF Only
<1>3. CASE j > Len(s)
  <2>1. j - Len(s) \in 1..Len(t) /\ (s \o t)[j] = t[j - Len(s)]
    BY <1>1, <1>3
  <2> QED BY <2>1 DEF Only
<1> QED BY <1>1, <1>2, <1>3

\* When a point is set, the answer says on a bet what the rules say; where they say
\* nothing, it takes the bet to what the mode's template wants.
LEMMA AnswerSays ==
  ASSUME NEW k, NEW ev, ev.type = "point_established", NEW bets, NEW acts \in Seq(RuleActs),
         NEW b \in BetKeys, ~(Demo /\ k.point = 6 /\ b = <<"place", 6>>)
  PROVE  LET answer == Answer(k, ev, bets, acts)
             want == Wanted(k.mode, k.point)
         IN  /\ answer \in Seq(AllActs)
             /\ \A a : Says(acts, b, a) => Says(answer, b, a)
             /\ Silent(acts, b) => Reaches(answer, bets, b, want)
<1> DEFINE want == Wanted(k.mode, k.point)
           sw == Switches(acts)
           p == Planned(k, ev, bets)
           oth == Others(acts)
           x == (sw \o p) \o oth
           ft == FromTemplate(x)
           fr == FromRules(x)
           answer == Answer(k, ev, bets, acts)
           Templated == {a \in AllActs : a.src = "template"}
<1>0. acts \in Seq(AllActs) /\ DOMAIN acts = 1..Len(acts)
  BY DEF AllActs
<1>1. \A i \in 1..Len(acts) : acts[i].src = "rule" /\ acts[i] \in RuleActs
  <2> SUFFICES ASSUME NEW i \in 1..Len(acts) PROVE acts[i].src = "rule" /\ acts[i] \in RuleActs
    OBVIOUS
  <2>1. acts[i] \in RuleActs
    OBVIOUS
  <2> QED BY <2>1 DEF RuleActs, Envelope
<1>2. /\ p \in Seq(AllActs) /\ \A i \in 1..Len(p) : Speaks(p[i], b) => p[i].src = "template"
      /\ Reaches(p, bets, b, want)
  BY PlannedSays
<1> HIDE DEF p, want
<1>3. /\ sw \in Seq(AllActs) /\ Silent(sw, b)
  <2> DEFINE P == {i \in DOMAIN acts : acts[i].act = "switch_mode"}
  <2>1. \A i \in P \cap (1..Len(acts)) : ~Speaks(acts[i], b)
    BY DEF Speaks, OnBet
  <2>2. sw = Picked(acts, P)
    BY DEF Switches
  <2> HIDE DEF P, sw
  <2> QED BY <1>0, <2>1, <2>2, PickedFrom, PickedSilent
<1>4. /\ oth \in Seq(AllActs) /\ (Silent(acts, b) => Silent(oth, b))
      /\ \A a : Says(acts, b, a) => Says(oth, b, a)
  <2> DEFINE P == {i \in DOMAIN acts : acts[i].act \notin {"switch_mode", "setvar"}}
  <2>1. oth = Picked(acts, P)
    BY DEF Others
  <2>2. \A i \in 1..Len(acts) : Speaks(acts[i], b) => i \in P
    BY <1>0 DEF Speaks, OnBet
  <2> HIDE DEF P, oth
  <2>3. oth \in Seq(AllActs)
    BY <1>0, <2>1, PickedFrom
  <2>4. ASSUME Silent(acts, b) PROVE Silent(oth, b)
    <3>1. \A i \in P \cap (1..Len(acts)) : ~Speaks(acts[i], b)
      BY <2>4 DEF Silent
    <3> QED BY <1>0, <2>1, <3>1, PickedSilent
  <2>5. ASSUME NEW a, Says(acts, b, a) PROVE Says(oth, b, a)
    <3>1. PICK i \in 1..Len(acts) : LastWord(acts, b, i) /\ acts[i] = a
      BY <2>5 DEF Says
    <3>2. i \in P
      BY <2>2, <3>1 DEF LastWord
    <3> QED BY <1>0, <2>1, <3>1, <3>2, PickedSays
  <2> QED BY <2>3, <2>4, <2>5
<1> HIDE DEF sw, oth
<1>5. x \in Seq(AllActs) /\ sw \o p \in Seq(AllActs)
  BY <1>2, <1>3, <1>4
<1>6. answer = Merged(x)
  BY DEF Answer, sw, p, oth
<1>7. ASSUME NEW a, Says(oth, b, a) PROVE Says(x, b, a)
  BY <1>4, <1>5, <1>7, ConcatSays
<1>8. ASSUME NEW a, Silent(oth, b), Says(p, b, a) PROVE Says(x, b, a)
  <2>1. Says(sw \o p, b, a)
    BY <1>2, <1>3, <1>8, ConcatSays
  <2> QED BY <1>4, <1>5, <1>8, <2>1, ConcatSays
<1>9. ASSUME Silent(oth, b), Silent(p, b) PROVE Silent(x, b)
  <2>1. Silent(sw \o p, b)
    BY <1>2, <1>3, <1>9, ConcatSays
  <2> QED BY <1>4, <1>5, <1>9, <2>1, ConcatSays
<1>10. ASSUME Silent(oth, b) PROVE Only(x, b, Templated)
  <2>1. \A i \in 1..Len(p) : p[i] \in AllActs
    BY <1>2
  <2>2. Only(sw, b, Templated) /\ Only(p, b, Templated) /\ Only(oth, b, Templated)
    BY <1>2, <1>3, <1>10, <2>1 DEF Only, Silent
  <2> HIDE DEF Templated
  <2>3. Only(sw \o p, b, Templated)
    BY <1>2, <1>3, <2>2, ConcatOnly
  <2> QED BY <1>4, <1>5, <2>2, <2>3, ConcatOnly
<1> HIDE DEF x
<1>11. DOMAIN x = 1..Len(x)
  BY <1>5
<1>12. ft \in Seq(AllActs) /\ fr \in Seq(AllActs) /\ Ordered(x) = ft \o fr
  BY <1>5, PickedFrom DEF FromTemplate, FromRules, Ordered
<1>13. ASSUME NEW a, Says(x, b, a), a.src = "rule" PROVE Says(fr, b, a)
  <2> DEFINE P == {i \in DOMAIN x : x[i].src # "template"}
  <2>1. PICK i \in 1..Len(x) : LastWord(x, b, i) /\ x[i] = a
    BY <1>13 DEF Says
  <2>2. i \in P
    BY <1>11, <1>13, <2>1
  <2>3. fr = Picked(x, P)
    BY DEF FromRules
  <2> HIDE DEF P, fr
  <2> QED BY <1>5, <2>1, <2>2, <2>3, PickedSays
<1>14. ASSUME NEW a, Says(x, b, a), a.src = "template" PROVE Says(ft, b, a)
  <2> DEFINE P == {i \in DOMAIN x : x[i].src = "template"}
  <2>1. PICK i \in 1..Len(x) : LastWord(x, b, i) /\ x[i] = a
    BY <1>14 DEF Says
  <2>2. i \in P
    BY <1>11, <1>14, <2>1
  <2>3. ft = Picked(x, P)
    BY DEF FromTemplate
  <2> HIDE DEF P, ft
  <2> QED BY <1>5, <2>1, <2>2, <2>3, PickedSays
<1>15. ASSUME Only(x, b, Templated) PROVE Silent(fr, b)
  <2> DEFINE P == {i \in DOMAIN x : x[i].src # "template"}
  <2>1. \A i \in P \cap (1..Len(x)) : ~Speaks(x[i], b)
    BY <1>15 DEF Only
  <2>2. fr = Picked(x, P)
    BY DEF FromRules
  <2> HIDE DEF P, fr
  <2> QED BY <1>5, <2>1, <2>2, PickedSilent
<1>16. ASSUME Silent(x, b) PROVE Silent(ft, b)
  <2> DEFINE P == {i \in DOMAIN x : x[i].src = "template"}
  <2>1. \A i \in P \cap (1..Len(x)) : ~Speaks(x[i], b)
    BY <1>16 DEF Silent
  <2>2. ft = Picked(x, P)
    BY DEF FromTemplate
  <2> HIDE DEF P, ft
  <2> QED BY <1>5, <2>1, <2>2, PickedSilent
<1> HIDE DEF ft, fr, answer, Templated
<1>17. /\ answer \in Seq(AllActs) /\ (Silent(ft \o fr, b) => Silent(answer, b))
       /\ \A a : Says(ft \o fr, b, a) => Says(answer, b, a)
  BY <1>5, <1>6, <1>12, MergedSays
<1>18. ASSUME NEW a, Says(acts, b, a) PROVE Says(answer, b, a)
  <2>1. a.src = "rule"
    BY <1>1, <1>18 DEF Says
  <2>2. Says(fr, b, a)
    BY <1>4, <1>7, <1>13, <1>18, <2>1
  <2>3. Says(ft \o fr, b, a)
    BY <1>12, <2>2, ConcatSays
  <2> QED BY <1>17, <2>3
<1>19. ASSUME Silent(acts, b) PROVE Reaches(answer, bets, b, want)
  <2>1. Silent(oth, b) /\ Silent(fr, b)
    BY <1>4, <1>10, <1>15, <1>19
  <2>2. CASE Silent(p, b) /\ Worth(bets, b) = want[b]
    <3>1. Silent(ft, b)
      BY <1>9, <1>16, <2>1, <2>2
    <3>2. Silent(ft \o fr, b)
      BY <1>12, <2>1, <3>1, ConcatSays
    <3> QED BY <1>17, <2>2, <3>2 DEF Reaches
  <2>3. CASE \E a \in PlanActs : Says(p, b, a) /\ Leaves(a) = want[b]
    <3>1. PICK a \in PlanActs : Says(p, b, a) /\ Leaves(a) = want[b]
      BY <2>3
    <3>2. a.src = "template"
      BY <1>2, <3>1 DEF Says, LastWord
    <3>3. Says(ft, b, a)
      BY <1>8, <1>14, <2>1, <3>1, <3>2
    <3>4. Says(ft \o fr, b, a)
      BY <1>12, <2>1, <3>3, ConcatSays
    <3> QED BY <1>17, <3>1, <3>4 DEF Reaches
  <2> QED BY <1>2, <2>2, <2>3 DEF Reaches
<1> QED BY <1>17, <1>18, <1>19 DEF answer, want

\* An event handled leaves the plan of its kind reached.
LEMMA PlanStep ==
  ASSUME NEW ev, NEW bets, Handle(ev, bets) PROVE PlanReached'
<1>1. PICK k, event, view :
        /\ out'.type = ev.type /\ out'.bets = bets /\ ctl' = k
        /\ out'.rules = RuleActions(Rules, event, view)
        /\ out'.final = Answer(k, ev, bets, RuleActions(Rules, event, view))
  <2>1. PICK k : k = ctl'
    OBVIOUS
  <2> DEFINE view == [on |-> Closed(Entered(ctl, ev), ev).point # 0, drawdown |-> 0,
                      streak |-> Closed(Entered(ctl, ev), ev).streak]
  <2>2. /\ out'.type = ev.type /\ out'.bets = bets
        /\ out'.rules = RuleActions(Rules, ev.type, view)
        /\ out'.final = Answer(ctl', ev, bets, RuleActions(Rules, ev.type, view))
    BY DEF Handle
  <2> HIDE DEF view
  <2> QED BY <2>1, <2>2
<1> DEFINE acts == RuleActions(Rules, event, view)
           final == Answer(k, ev, bets, acts)
<1>2. acts \in Seq(RuleActs)
  BY RuleActionsTyped
<1>3. /\ out'.type = ev.type /\ out'.bets = bets /\ ctl' = k
      /\ out'.rules = acts /\ out'.final = final
  BY <1>1
<1> HIDE DEF acts
<1>4. ASSUME NEW b \in BetKeys, ev.type = "point_established",
             \A i \in DOMAIN acts : ~(acts[i].act \in {"press", "reduce"} /\ acts[i].bet = b),
             ~(Demo /\ k.point = 6 /\ b = <<"place", 6>>)
      PROVE  Landed(bets, final)[b] =
               IF \E i \in DOMAIN acts : OnBet(acts[i]) /\ acts[i].bet = b THEN Landed(<<>>, acts)[b]
               ELSE Desired(TemplateOf(k.mode), k.point, b)
  <2> DEFINE want == Wanted(k.mode, k.point)
             ruled == \E i \in DOMAIN acts : OnBet(acts[i]) /\ acts[i].bet = b
  <2>1. /\ final \in Seq(AllActs)
        /\ \A a : Says(acts, b, a) => Says(final, b, a)
        /\ Silent(acts, b) => Reaches(final, bets, b, want)
    BY <1>2, <1>4, AnswerSays
  <2>2. want[b] = Desired(TemplateOf(k.mode), k.point, b)
    BY DEF Wanted
  <2>3. DOMAIN acts = 1..Len(acts)
    BY <1>2
  <2> HIDE DEF final, want
  <2>4. CASE ruled
    <3>1. ~Silent(acts, b)
      BY <2>3, <2>4 DEF Silent, Speaks
    <3>2. PICK i \in 1..Len(acts) : LastWord(acts, b, i)
      BY <1>2, <3>1, LastExists
    <3> DEFINE a == acts[i]
    <3>3. Says(acts, b, a)
      BY <3>2 DEF Says
    <3>4. a.act \in {"set", "clear"}
      <4>1. OnBet(a) /\ a.bet = b
        BY <3>2 DEF LastWord, Speaks
      <4> QED BY <1>4, <2>3, <4>1 DEF OnBet
    <3> HIDE DEF a
    <3>5. Landed(<<>>, acts)[b] = Leaves(a)
      BY <1>2, <3>3, <3>4, LandedIs
    <3>6. Landed(bets, final)[b] = Leaves(a)
      BY <2>1, <3>3, <3>4, LandedIs
    <3> QED BY <2>4, <3>5, <3>6
  <2>5. CASE ~ruled
    <3>1. Silent(acts, b)
      BY <2>3, <2>5 DEF Silent, Speaks
    <3>2. CASE Silent(final, b) /\ Worth(bets, b) = want[b]
      <4>1. Landed(bets, final)[b] = Worth(bets, b)
        BY <2>1, <3>2, LandedIs
      <4> QED BY <2>2, <2>5, <3>2, <4>1
    <3>3. CASE \E a \in PlanActs : Says(final, b, a) /\ Leaves(a) = want[b]
      <4>1. PICK a \in PlanActs : Says(final, b, a) /\ Leaves(a) = want[b]
        BY <3>3
      <4>2. a.act \in {"set", "clear"}
        <5>1. \/ \E c \in BetKeys : a = BetAct("template", "clear", c, NoAmount)
              \/ \E c \in BetKeys, n \in Nat : a = BetAct("template", "set", c, n)
          BY DEF PlanActs
        <5>2. \A c, n : BetAct("template", "clear", c, n).act = "clear" /\ BetAct("template", "set", c, n).act = "set"
          BY DEF BetAct
        <5> QED BY <5>1, <5>2
      <4>3. Landed(bets, final)[b] = Leaves(a)
        BY <2>1, <4>1, <4>2, LandedIs
      <4> QED BY <2>2, <2>5, <4>1, <4>3
    <3> QED BY <2>1, <3>1, <3>2, <3>3 DEF Reaches
  <2> QED BY <2>4, <2>5
<1> HIDE DEF final
<1> QED BY <1>3, <1>4 DEF PlanReached, TemplateOf

\* PlanReached: when a point is set, the answer merged from the plan and the rules
\* takes the table to the template of the mode the rules switched to, and to what
\* the rules set or clear where they speak of a bet.
THEOREM PlanCorrect == Spec => []PlanReached
<1>1. Init => PlanReached
  <2>1. Init => out = NoAnswer
    BY DEF Init
  <2>2. NoAnswer.type = ""
    BY DEF NoAnswer
  <2>3. out.type = "" => PlanReached
    BY DEF PlanReached
  <2> QED BY <2>1, <2>2, <2>3
<1>2. PlanReached /\ [Next]_vars => PlanReached'
  <2> SUFFICES ASSUME PlanReached, [Next]_vars PROVE PlanReached'
    OBVIOUS
  <2>1. CASE \E ev, bets : Handle(ev, bets)
    BY <2>1, PlanStep
  <2>2. CASE Comeout \/ SetPoint \/ Roll \/ SevenOut
    <3>1. \E ev, bets : Handle(ev, bets)
      BY <2>2 DEF Comeout, SetPoint, Roll, SevenOut, Deal
    <3> QED BY <3>1, <2>1
  <2>3. CASE MakePoint
    BY <2>3 DEF MakePoint, Unheeded, PlanReached, NoAnswer
  <2>4. CASE UNCHANGED vars
    BY <2>4 DEF vars, PlanReached
  <2> QED BY <2>2, <2>3, <2>4 DEF Next
<1> QED BY <1>1, <1>2, PTL DEF Spec
===============================================================================
