-------------------------- MODULE RunSurfaceProofs --------------------------
(***************************************************************************)
(* Theorems about RunSurface and the EventBus it publishes on, for every   *)
(* number of callers, launches, subscriptions and events, and every size   *)
(* of the history and the queues.  The bus comes first: nothing falls      *)
(* between a subscriber's backlog and its live feed; then the threads, and *)
(* what they make of the bus.                                              *)
(***************************************************************************)
EXTENDS RunSurface, FiniteSetTheorems, SequenceTheorems, TLAPS

---------------------------------------------------------------------------
(* Events and their numbers in sequences. *)

Types == {"RUN_STARTED", "RUN_STOP_SIGNAL", "TICK", "RUN_FINISHED"}
Hows == {"", "stopping"} \cup Terminal
Payloads == {Event(t, l, h) : t \in Types, l \in Launches, h \in Hows}

\* An event of the bus is a number and what the surface publishes.
LEMMA BusEvents == Bus!Event = [no : Nat \ {0}, load : Payloads]
<1>1. ASSUME NEW e PROVE e \in Bus!Event <=> e \in [no : Nat \ {0}, load : Payloads]
  BY PTL DEF Bus!Event, Payloads, Types, Hows
<1> QED BY <1>1

Distinct(seq) == \A i, j \in 1..Len(seq) : seq[i].no = seq[j].no => i = j

\* The numbers, by position.
LEMMA NumbersByPlace ==
  ASSUME NEW seq \in Seq(Bus!Event)
  PROVE  /\ \A n : n \in Bus!Numbers(seq) <=> \E i \in 1..Len(seq) : seq[i].no = n
         /\ Bus!Numbers(seq) \subseteq Nat \ {0}
         /\ seq = <<>> => Bus!Numbers(seq) = {}
<1>1. DOMAIN seq = 1..Len(seq)
  OBVIOUS
<1>2. \A i \in 1..Len(seq) : seq[i].no \in Nat \ {0}
  <2> TAKE i \in 1..Len(seq)
  <2>1. seq[i] \in Bus!Event
    OBVIOUS
  <2> QED BY <2>1, BusEvents
<1> QED BY <1>1, <1>2 DEF Bus!Numbers

\* An event that is put at the end adds its number.
LEMMA NumbersAppended ==
  ASSUME NEW seq \in Seq(Bus!Event), NEW e \in Bus!Event
  PROVE  /\ Append(seq, e) \in Seq(Bus!Event) /\ Len(Append(seq, e)) = Len(seq) + 1
         /\ Bus!Numbers(Append(seq, e)) = Bus!Numbers(seq) \cup {e.no}
<1> DEFINE t == Append(seq, e)
<1>1. /\ t \in Seq(Bus!Event) /\ Len(t) = Len(seq) + 1 /\ t[Len(seq) + 1] = e
      /\ \A i \in 1..Len(seq) : t[i] = seq[i]
  BY AppendProperties
<1>2. Len(seq) \in Nat
  OBVIOUS
<1> HIDE DEF t
<1>3. \A n : (\E i \in 1..Len(t) : t[i].no = n) <=> (n = e.no \/ \E i \in 1..Len(seq) : seq[i].no = n)
  <2> TAKE n
  <2>1. \A i : i \in 1..Len(t) <=> i \in 1..Len(seq) \/ i = Len(seq) + 1
    BY <1>1, <1>2
  <2> QED BY <1>1, <1>2, <2>1
<1>4. \A n : n \in Bus!Numbers(t) <=> n \in Bus!Numbers(seq) \cup {e.no}
  BY <1>1, <1>3, NumbersByPlace
<1> QED BY <1>1, <1>4 DEF t

\* An event put into the queue is put at the end of what was received and is queued.
LEMMA NumbersPut ==
  ASSUME NEW g \in Seq(Bus!Event), NEW q \in Seq(Bus!Event), NEW e \in Bus!Event
  PROVE  /\ Bus!Numbers(g \o Append(q, e)) = Bus!Numbers(g \o q) \cup {e.no}
         /\ Len(g \o Append(q, e)) = Len(g \o q) + 1
<1>1. Append(q, e) = q \o <<e>> /\ <<e>> \in Seq(Bus!Event) /\ g \o q \in Seq(Bus!Event)
  BY AppendIsConcat, ConcatProperties
<1>2. g \o (q \o <<e>>) = (g \o q) \o <<e>>
  BY <1>1, ConcatAssociative
<1>3. (g \o q) \o <<e>> = Append(g \o q, e)
  BY <1>1, AppendIsConcat
<1>4. g \o Append(q, e) = Append(g \o q, e)
  BY <1>1, <1>2, <1>3
<1> QED BY <1>1, <1>4, NumbersAppended

\* A subscriber that takes an event has the same events after it.
LEMMA TakenIsKept ==
  ASSUME NEW g \in Seq(Bus!Event), NEW q \in Seq(Bus!Event), q # <<>>
  PROVE  /\ Append(g, Head(q)) \o Tail(q) = g \o q
         /\ Append(g, Head(q)) \in Seq(Bus!Event) /\ Tail(q) \in Seq(Bus!Event) /\ Len(Tail(q)) = Len(q) - 1
<1>1. Head(q) \in Bus!Event /\ Tail(q) \in Seq(Bus!Event) /\ <<Head(q)>> \in Seq(Bus!Event) /\ Len(Tail(q)) = Len(q) - 1
  BY HeadTailProperties
<1>2. Append(g, Head(q)) = g \o <<Head(q)>> /\ Append(g, Head(q)) \in Seq(Bus!Event)
  BY <1>1, AppendIsConcat, AppendProperties
<1>3. (g \o <<Head(q)>>) \o Tail(q) = g \o (<<Head(q)>> \o Tail(q))
  BY <1>1, ConcatAssociative
<1>4. <<Head(q)>> \o Tail(q) = q
  OBVIOUS
<1> QED BY <1>1, <1>2, <1>3, <1>4

\* The backlog without its first event.
LEMMA NumbersOfTail ==
  ASSUME NEW seq \in Seq(Bus!Event), seq # <<>>, Distinct(seq)
  PROVE  /\ Head(seq) \in Bus!Event /\ Tail(seq) \in Seq(Bus!Event) /\ Distinct(Tail(seq))
         /\ Head(seq).no \in Bus!Numbers(seq) /\ Bus!Numbers(Tail(seq)) = Bus!Numbers(seq) \ {Head(seq).no}
<1> DEFINE t == Tail(seq)
<1>1. /\ Head(seq) \in Bus!Event /\ t \in Seq(Bus!Event) /\ Len(t) = Len(seq) - 1 /\ Len(seq) \in Nat /\ Len(seq) > 0
      /\ Head(seq) = seq[1] /\ \A i \in 1..Len(t) : t[i] = seq[i + 1]
  BY HeadTailProperties
<1> HIDE DEF t
<1>2. Distinct(t)
  <2> SUFFICES ASSUME NEW i \in 1..Len(t), NEW j \in 1..Len(t), t[i].no = t[j].no
               PROVE  i = j
    BY DEF Distinct
  <2>1. i + 1 \in 1..Len(seq) /\ j + 1 \in 1..Len(seq)
    BY <1>1
  <2>2. i + 1 = j + 1
    BY <1>1, <2>1 DEF Distinct
  <2> QED BY <2>2
<1>3. Head(seq).no \in Bus!Numbers(seq)
  <2>1. 1 \in 1..Len(seq)
    BY <1>1
  <2> QED BY <1>1, <2>1, NumbersByPlace
<1>4. \A n : n \in Bus!Numbers(t) <=> n \in Bus!Numbers(seq) /\ n # seq[1].no
  <2> TAKE n
  <2>1. ASSUME n \in Bus!Numbers(t)
        PROVE  n \in Bus!Numbers(seq) /\ n # seq[1].no
    <3>1. PICK i \in 1..Len(t) : t[i].no = n
      BY <1>1, <2>1, NumbersByPlace
    <3>2. i + 1 \in 1..Len(seq) /\ 1 \in 1..Len(seq) /\ i + 1 # 1 /\ seq[i + 1].no = n
      BY <1>1, <3>1
    <3> QED BY <3>2, NumbersByPlace DEF Distinct
  <2>2. ASSUME n \in Bus!Numbers(seq), n # seq[1].no
        PROVE  n \in Bus!Numbers(t)
    <3>1. PICK i \in 1..Len(seq) : seq[i].no = n
      BY <2>2, NumbersByPlace
    <3>2. i # 1
      BY <2>2, <3>1
    <3>3. i - 1 \in 1..Len(t) /\ (i - 1) + 1 = i
      BY <1>1, <3>2
    <3>4. t[i - 1].no = n
      BY <1>1, <3>1, <3>3
    <3> QED BY <1>1, <3>3, <3>4, NumbersByPlace
  <2> QED BY <2>1, <2>2
<1> QED BY <1>1, <1>2, <1>3, <1>4 DEF t

---------------------------------------------------------------------------
(* The places of a subscriber's events: a sequence of those it has, a set  *)
(* of those under way and a set of those dropped.                          *)

Whole(have, way, dropped, first, last) ==
  /\ Bus!Numbers(have) \cup way \cup dropped = first..last
  /\ Len(have) + Cardinality(way) + Cardinality(dropped) = last + 1 - first

\* Sets of numbers up to the last event are finite.
LEMMA UpToIsFinite ==
  ASSUME NEW n \in Nat, NEW S \in SUBSET (1..n)
  PROVE  IsFiniteSet(S) /\ Cardinality(S) \in Nat
<1>1. IsFiniteSet(1..n)
  BY FS_Interval
<1> QED BY <1>1, FS_Subset, FS_CardinalityType

\* An event is published: it is under way.
LEMMA OneMoreUnderWay ==
  ASSUME NEW have \in Seq(Bus!Event), NEW n \in Nat, NEW way \in SUBSET (1..n), NEW dropped \in SUBSET (1..n),
         NEW first \in 1..(n + 1), Whole(have, way, dropped, first, n)
  PROVE  Whole(have, way \cup {n + 1}, dropped, first, n + 1)
<1>1. n + 1 \notin way
  OBVIOUS
<1>2. IsFiniteSet(way) /\ Cardinality(way) \in Nat /\ Cardinality(dropped) \in Nat
  BY UpToIsFinite
<1>3. Cardinality(way \cup {n + 1}) = Cardinality(way) + 1
  BY <1>1, <1>2, FS_AddElement
<1>4. first..(n + 1) = (first..n) \cup {n + 1}
  OBVIOUS
<1>5. Len(have) \in Nat
  OBVIOUS
<1>6. Bus!Numbers(have) \cup (way \cup {n + 1}) \cup dropped = first..(n + 1)
  BY <1>4 DEF Whole
<1>7. Len(have) + Cardinality(way \cup {n + 1}) + Cardinality(dropped) = (n + 1) + 1 - first
  BY <1>2, <1>3, <1>5 DEF Whole
<1> QED BY <1>6, <1>7 DEF Whole

\* An event under way is put into the queue.
LEMMA OneIsQueued ==
  ASSUME NEW g \in Seq(Bus!Event), NEW q \in Seq(Bus!Event), NEW e \in Bus!Event,
         NEW n \in Nat, NEW way \in SUBSET (1..n), NEW dropped \in SUBSET (1..n),
         NEW first \in 1..(n + 1), Whole(g \o q, way, dropped, first, n), e.no \in way
  PROVE  Whole(g \o Append(q, e), way \ {e.no}, dropped, first, n)
<1>1. IsFiniteSet(way) /\ Cardinality(way) \in Nat /\ Cardinality(dropped) \in Nat
  BY UpToIsFinite
<1>2. Cardinality(way \ {e.no}) = Cardinality(way) - 1
  BY <1>1, FS_RemoveElement
<1>3. Bus!Numbers(g \o Append(q, e)) = Bus!Numbers(g \o q) \cup {e.no} /\ Len(g \o Append(q, e)) = Len(g \o q) + 1
  BY NumbersPut
<1>4. g \o q \in Seq(Bus!Event) /\ Len(g \o q) \in Nat
  BY ConcatProperties
<1>5. (Bus!Numbers(g \o q) \cup {e.no}) \cup (way \ {e.no}) \cup dropped = Bus!Numbers(g \o q) \cup way \cup dropped
  OBVIOUS
<1>6. Bus!Numbers(g \o Append(q, e)) \cup (way \ {e.no}) \cup dropped = first..n
  BY <1>3, <1>5 DEF Whole
<1>7. Len(g \o Append(q, e)) + Cardinality(way \ {e.no}) + Cardinality(dropped) = n + 1 - first
  BY <1>1, <1>2, <1>3, <1>4 DEF Whole
<1> QED BY <1>6, <1>7 DEF Whole

\* Events under way are dropped.
LEMMA SomeAreDropped ==
  ASSUME NEW have \in Seq(Bus!Event), NEW n \in Nat, NEW way \in SUBSET (1..n), NEW dropped \in SUBSET (1..n),
         NEW first \in 1..(n + 1), Whole(have, way, dropped, first, n),
         way \cap dropped = {}, NEW B \in SUBSET way
  PROVE  Whole(have, way \ B, dropped \cup B, first, n)
<1>1. /\ IsFiniteSet(way) /\ Cardinality(way) \in Nat /\ IsFiniteSet(dropped) /\ Cardinality(dropped) \in Nat
      /\ IsFiniteSet(B) /\ Cardinality(B) \in Nat
  BY UpToIsFinite
<1>2. dropped \cap B = {} /\ way \cap B = B
  OBVIOUS
<1>3. Cardinality(dropped \cup B) = Cardinality(dropped) + Cardinality(B)
  <2>1. Cardinality(dropped \cap B) = 0
    BY <1>2, FS_EmptySet
  <2>2. Cardinality(dropped \cup B) = Cardinality(dropped) + Cardinality(B) - Cardinality(dropped \cap B)
    BY <1>1, FS_Union
  <2> QED BY <1>1, <2>1, <2>2
<1>4. Cardinality(way \ B) = Cardinality(way) - Cardinality(B)
  BY <1>1, <1>2, FS_Difference
<1>5. (Bus!Numbers(have) \cup (way \ B)) \cup (dropped \cup B) = (Bus!Numbers(have) \cup way) \cup dropped
  OBVIOUS
<1>6. Len(have) \in Nat
  OBVIOUS
<1>7. Bus!Numbers(have) \cup (way \ B) \cup (dropped \cup B) = first..n
  BY <1>5 DEF Whole
<1>8. Len(have) + Cardinality(way \ B) + Cardinality(dropped \cup B) = n + 1 - first
  BY <1>1, <1>3, <1>4, <1>6 DEF Whole
<1> QED BY <1>7, <1>8 DEF Whole

---------------------------------------------------------------------------
(* The invariant. *)

Outbox == [event : Bus!Event \cup {Bus!NoEvent}, to : SUBSET Bus!Sids]

Shapes ==
  /\ history \in Seq(Bus!Event) /\ Len(history) <= HistoryMax
  /\ nextId \in 1..(MaxSids + 1)
  /\ subs \subseteq 1..(nextId - 1)
  /\ queue \in [Bus!Sids -> Seq(Bus!Event)]
  /\ \A s \in Bus!Sids : Len(queue[s]) <= QueueMax
  /\ backlog \in [Bus!Sids -> Seq(Bus!Event)]
  /\ outbox \in [Callers \cup Launches -> Outbox]
  /\ \A p \in Callers \cup Launches : outbox[p].to # {} => outbox[p].event \in Bus!Event
  /\ published \in Seq(Bus!Event)
  /\ joined \in [Bus!Sids -> Seq(Bus!Event)]
  /\ got \in [Bus!Sids -> Seq(Bus!Event)]
  /\ lost \in [Bus!Sids -> SUBSET (Nat \ {0})]

\* The history is the last part of what was published, and of at least one event.
Remembers ==
  /\ Len(history) <= Len(published)
  /\ published # <<>> => history # <<>>
  /\ \A i \in 1..Len(history) : history[i].no = Len(published) - Len(history) + i

\* What the publishers have in their hands for s.
InHands(s) == {outbox[p].event.no : p \in {r \in Callers \cup Launches : s \in outbox[r].to}}

\* Two publishers never hold the same event, nor one that is also in a backlog.
HandsApart ==
  /\ \A p \in Callers \cup Launches : outbox[p].to # {} => outbox[p].event.no \in 1..Len(published)
  /\ \A p, q \in Callers \cup Launches :
       outbox[p].to # {} /\ outbox[q].to # {} /\ outbox[p].event.no = outbox[q].event.no => p = q

BacklogsApart ==
  \A s \in Bus!Sids :
    /\ Distinct(backlog[s]) /\ Bus!Numbers(backlog[s]) \subseteq 1..Len(published)
    /\ Bus!Numbers(backlog[s]) \cap InHands(s) = {}
    /\ lost[s] \subseteq 1..Len(published) /\ lost[s] \cap Bus!UnderWay(s) = {}

\* A subscription that is still to be made has nothing.
Unmade ==
  \A s \in Bus!Sids : s >= nextId =>
    /\ queue[s] = <<>> /\ got[s] = <<>> /\ backlog[s] = <<>> /\ lost[s] = {}
    /\ \A p \in Callers \cup Launches : s \notin outbox[p].to

Complete ==
  \A s \in subs :
    /\ joined[s] # <<>> => joined[s][1].no \in 1..Len(published)
    /\ Whole(got[s] \o queue[s], Bus!UnderWay(s), lost[s], Bus!FirstFor(s), Len(published))

\* What a subscriber has, it has once, and is not under way to it as well.
Once ==
  \A s \in subs : Distinct(got[s] \o queue[s]) /\ Bus!Numbers(got[s] \o queue[s]) \cap Bus!UnderWay(s) = {}

\* A backlog is of what the subscription joined with, whose last event is the newest.
JoinedFirst ==
  \A s \in Bus!Sids :
    /\ joined[s] = <<>> => Bus!Numbers(backlog[s]) = {}
    /\ joined[s] # <<>> => /\ joined[s][1].no <= joined[s][Len(joined[s])].no
                          /\ \A x \in Bus!Numbers(backlog[s]) : x <= joined[s][Len(joined[s])].no

BusInv ==
  Shapes /\ Remembers /\ HandsApart /\ BacklogsApart /\ Unmade /\ Complete /\ Once /\ JoinedFirst

\* An event that was still under way is a new one.
LEMMA OnceMore ==
  ASSUME NEW g \in Seq(Bus!Event), NEW q \in Seq(Bus!Event), NEW e \in Bus!Event,
         Distinct(g \o q), e.no \notin Bus!Numbers(g \o q)
  PROVE  Distinct(g \o Append(q, e))
<1> DEFINE h == g \o q
           t == Append(h, e)
<1>1. Append(q, e) = q \o <<e>> /\ <<e>> \in Seq(Bus!Event) /\ h \in Seq(Bus!Event)
  BY AppendIsConcat, ConcatProperties
<1>2. g \o (q \o <<e>>) = h \o <<e>> /\ h \o <<e>> = t
  BY <1>1, ConcatAssociative, AppendIsConcat
<1>3. g \o Append(q, e) = t
  BY <1>1, <1>2
<1>4. Distinct(h) /\ e.no \notin Bus!Numbers(h) /\ Len(h) \in Nat
  BY <1>1
<1> HIDE DEF h
<1>5. Len(t) = Len(h) + 1 /\ t[Len(h) + 1] = e /\ \A i \in 1..Len(h) : t[i] = h[i]
  BY <1>1, AppendProperties
<1> HIDE DEF t
<1>6. \A i \in 1..Len(h) : h[i].no # e.no
  BY <1>1, <1>4, NumbersByPlace
<1>7. Distinct(t)
  <2> SUFFICES ASSUME NEW i \in 1..Len(t), NEW j \in 1..Len(t), t[i].no = t[j].no
               PROVE  i = j
    BY DEF Distinct
  <2>1. (i \in 1..Len(h) \/ i = Len(h) + 1) /\ (j \in 1..Len(h) \/ j = Len(h) + 1)
    BY <1>4, <1>5
  <2> QED BY <1>4, <1>5, <1>6, <2>1 DEF Distinct
<1> QED BY <1>3, <1>7

\* A set of numbers that is not empty has a least one.
LEMMA LeastIsIn ==
  ASSUME NEW S \in SUBSET Nat, S # {}
  PROVE  (CHOOSE t \in S : \A u \in S : t <= u) \in S
<1> DEFINE Before(n) == {m \in Nat : m < n}
           All == {Before(n) : n \in S}
<1>1. ASSUME NEW n \in S
      PROVE  Before(n) \in FiniteSubsetsOf(Nat)
  <2>1. Before(n) \in SUBSET Nat /\ \A m \in Before(n) : m <= n
    OBVIOUS
  <2>2. IsFiniteSet(Before(n))
    BY <2>1, FS_BoundedSetOfNaturals
  <2> QED BY <2>1, <2>2 DEF FiniteSubsetsOf
<1>2. All \subseteq FiniteSubsetsOf(Nat) /\ All # {}
  BY <1>1
<1>3. IsWellFoundedOn(StrictSubsetOrdering(Nat), FiniteSubsetsOf(Nat))
  BY FS_StrictSubsetOrderingWellFounded
<1>4. PICK least \in All : \A other \in All : <<other, least>> \notin StrictSubsetOrdering(Nat)
  <2> HIDE DEF All
  <2> QED BY <1>2, <1>3, WFMin
<1>5. PICK x \in S : least = Before(x)
  OBVIOUS
<1>6. ASSUME NEW y \in S, y < x
      PROVE  FALSE
  <2>1. Before(y) \in All /\ y \in Before(x) /\ y \notin Before(y)
    BY <1>6
  <2>2. Before(y) \subseteq Before(x)
    BY <1>6
  <2>3. <<Before(y), Before(x)>> \in StrictSubsetOrdering(Nat)
    BY <2>1, <2>2 DEF StrictSubsetOrdering
  <2> QED BY <1>4, <1>5, <2>1, <2>3
<1>7. \A y \in S : x <= y
  BY <1>6
<1> QED BY <1>7

\* Facts about the state that every step's proof starts from.
LEMMA BusFacts ==
  ASSUME Bus!EventBusConstants, BusInv
  PROVE  /\ Len(published) \in Nat /\ HistoryMax \in Nat \ {0} /\ QueueMax \in Nat \ {0} /\ MaxSids \in Nat
         /\ \A s \in Bus!Sids : /\ queue[s] \in Seq(Bus!Event) /\ backlog[s] \in Seq(Bus!Event) /\ got[s] \in Seq(Bus!Event)
                            /\ joined[s] \in Seq(Bus!Event) /\ lost[s] \in SUBSET (1..Len(published))
                            /\ got[s] \o queue[s] \in Seq(Bus!Event)
                            /\ Bus!UnderWay(s) = Bus!Numbers(backlog[s]) \cup InHands(s)
                            /\ InHands(s) \subseteq 1..Len(published)
                            /\ Bus!UnderWay(s) \in SUBSET (1..Len(published))
         /\ subs \subseteq Bus!Sids
         /\ \A s \in subs : /\ Bus!FirstFor(s) \in 1..(Len(published) + 1)
                            /\ Bus!Numbers(got[s] \o queue[s]) \subseteq 1..Len(published)
<1>1. Len(published) \in Nat /\ HistoryMax \in Nat \ {0} /\ QueueMax \in Nat \ {0} /\ MaxSids \in Nat
  BY DEF Bus!EventBusConstants, BusInv, Shapes
<1>2. ASSUME NEW s \in Bus!Sids
      PROVE  /\ queue[s] \in Seq(Bus!Event) /\ backlog[s] \in Seq(Bus!Event) /\ got[s] \in Seq(Bus!Event)
             /\ joined[s] \in Seq(Bus!Event) /\ lost[s] \in SUBSET (1..Len(published))
             /\ Bus!UnderWay(s) = Bus!Numbers(backlog[s]) \cup InHands(s)
             /\ InHands(s) \subseteq 1..Len(published)
             /\ Bus!Numbers(backlog[s]) \subseteq 1..Len(published)
  BY DEF BusInv, Shapes, BacklogsApart, HandsApart, InHands, Bus!UnderWay
<1>3. ASSUME NEW s \in Bus!Sids
      PROVE  got[s] \o queue[s] \in Seq(Bus!Event) /\ Bus!UnderWay(s) \in SUBSET (1..Len(published))
  BY <1>2, ConcatProperties
<1>4. subs \subseteq Bus!Sids
  <2>1. subs \subseteq 1..(nextId - 1) /\ nextId \in 1..(MaxSids + 1)
    BY DEF BusInv, Shapes
  <2> QED BY <1>1, <2>1 DEF Bus!Sids
<1>5. ASSUME NEW s \in subs
      PROVE  Bus!FirstFor(s) \in 1..(Len(published) + 1)
  <2>1. joined[s] # <<>> => joined[s][1].no \in 1..Len(published)
    BY DEF BusInv, Complete
  <2> QED BY <1>1, <2>1 DEF Bus!FirstFor
<1>6. ASSUME NEW s \in subs
      PROVE  Bus!Numbers(got[s] \o queue[s]) \subseteq 1..Len(published)
  <2>1. Bus!Numbers(got[s] \o queue[s]) \subseteq Bus!FirstFor(s)..Len(published)
    BY DEF BusInv, Complete, Whole
  <2> QED BY <1>1, <1>5, <2>1
<1> QED BY <1>1, <1>2, <1>3, <1>4, <1>5, <1>6

\* The initial bus satisfies the invariant.
LEMMA BusAtFirst == ASSUME Bus!EventBusConstants, Bus!Init PROVE BusInv
<1>1. <<>> \in Seq(Bus!Event) /\ Bus!Idle \in Outbox /\ Bus!Idle.to = {}
  BY DEF Bus!Idle, Outbox
<1>2. Shapes
  BY <1>1 DEF Bus!EventBusConstants, Bus!Init, Shapes, Bus!Sids
<1>3. Remembers
  BY DEF Bus!Init, Remembers
<1>4. HandsApart
  BY <1>1 DEF Bus!Init, HandsApart
<1>5. \A s \in Bus!Sids : InHands(s) = {} /\ Bus!Numbers(backlog[s]) = {} /\ Distinct(backlog[s]) /\ lost[s] = {}
  BY <1>1 DEF Bus!Init, InHands, Bus!Numbers, Distinct
<1>6. BacklogsApart
  BY <1>5 DEF BacklogsApart
<1>7. Unmade
  BY <1>1 DEF Bus!Init, Unmade
<1>8. Complete /\ Once
  BY DEF Bus!Init, Complete, Once
<1>9. JoinedFirst
  BY <1>5 DEF Bus!Init, JoinedFirst
<1> QED BY <1>2, <1>3, <1>4, <1>6, <1>7, <1>8, <1>9 DEF BusInv

---------------------------------------------------------------------------
(* publish *)

\* publish: numbering, the history and the targets chosen under the lock.
LEMMA PublishKeeps ==
  ASSUME Bus!EventBusConstants, BusInv, NEW p \in Callers \cup Launches, NEW load \in Payloads, Bus!Publish(p, load)
  PROVE  BusInv'
<1> DEFINE n == Len(published)
           e == [no |-> n + 1, load |-> load]
           o == [event |-> e, to |-> subs]
<1>0. /\ n \in Nat /\ HistoryMax \in Nat \ {0} /\ MaxSids \in Nat /\ subs \subseteq Bus!Sids
      /\ Shapes /\ Remembers /\ HandsApart /\ BacklogsApart /\ Unmade /\ Complete
  BY BusFacts DEF BusInv
<1>1. /\ outbox[p].to = {} /\ history' = Bus!Remembered(history, e) /\ outbox' = [outbox EXCEPT ![p] = o]
      /\ published' = Append(published, e)
      /\ UNCHANGED <<nextId, subs, queue, backlog, joined, got, lost>>
  BY DEF Bus!Publish, Bus!Registered
<1>2. e \in Bus!Event /\ e.no = n + 1 /\ o \in Outbox /\ o.event = e /\ o.to = subs
  BY <1>0, BusEvents DEF Outbox
<1> HIDE DEF e, o
<1>3. /\ published' \in Seq(Bus!Event) /\ Len(published') = n + 1
      /\ outbox' \in [Callers \cup Launches -> Outbox] /\ outbox'[p] = o
      /\ \A q \in Callers \cup Launches : q # p => outbox'[q] = outbox[q]
  BY <1>0, <1>1, <1>2, AppendProperties DEF Shapes
<1> HIDE DEF n
<1>4. /\ history' \in Seq(Bus!Event) /\ Len(history') <= HistoryMax /\ Len(history') <= n + 1 /\ history' # <<>>
      /\ \A i \in 1..Len(history') : history'[i].no = (n + 1) - Len(history') + i
  <2>0. /\ history \in Seq(Bus!Event) /\ Len(history) <= HistoryMax /\ Len(history) <= n /\ Len(history) \in Nat
        /\ \A i \in 1..Len(history) : history[i].no = n - Len(history) + i
    BY <1>0 DEF Shapes, Remembers, n
  <2>1. CASE Len(history) < HistoryMax
    <3>1. history' = Append(history, e)
      BY <1>1, <2>1 DEF Bus!Remembered
    <3>2. /\ history' \in Seq(Bus!Event) /\ Len(history') = Len(history) + 1 /\ history'[Len(history) + 1] = e
          /\ \A i \in 1..Len(history) : history'[i] = history[i]
      BY <1>2, <2>0, <3>1, AppendProperties
    <3>3. ASSUME NEW i \in 1..Len(history')
          PROVE  history'[i].no = (n + 1) - Len(history') + i
      <4>1. i \in 1..Len(history) \/ i = Len(history) + 1
        BY <2>0, <3>2
      <4>2. CASE i \in 1..Len(history)
        <5>1. history'[i].no = n - Len(history) + i
          BY <2>0, <3>2, <4>2
        <5> QED BY <1>0, <2>0, <3>2, <4>2, <5>1
      <4>3. CASE i = Len(history) + 1
        <5>1. history'[i].no = n + 1
          BY <1>2, <3>2, <4>3
        <5> QED BY <1>0, <2>0, <3>2, <4>3, <5>1
      <4> QED BY <4>1, <4>2, <4>3
    <3>4. Len(history') <= HistoryMax /\ Len(history') <= n + 1
      BY <1>0, <2>0, <2>1, <3>2
    <3>5. history' # <<>>
      BY <2>0, <3>2
    <3> QED BY <3>2, <3>3, <3>4, <3>5
  <2>2. CASE ~(Len(history) < HistoryMax)
    <3>1. history' = Append(Tail(history), e) /\ history # <<>> /\ Len(history) > 0
      BY <1>0, <1>1, <2>0, <2>2 DEF Bus!Remembered
    <3>2. /\ Tail(history) \in Seq(Bus!Event) /\ Len(Tail(history)) = Len(history) - 1
          /\ \A i \in 1..Len(Tail(history)) : Tail(history)[i] = history[i + 1]
      BY <2>0, <3>1, HeadTailProperties
    <3>3. /\ history' \in Seq(Bus!Event) /\ Len(history') = Len(history) /\ history'[Len(history)] = e
          /\ \A i \in 1..(Len(history) - 1) : history'[i] = history[i + 1]
      BY <1>2, <2>0, <3>1, <3>2, AppendProperties
    <3>4. ASSUME NEW i \in 1..Len(history')
          PROVE  history'[i].no = (n + 1) - Len(history') + i
      <4>1. i \in 1..(Len(history) - 1) \/ i = Len(history)
        BY <2>0, <3>3
      <4>2. CASE i = Len(history)
        BY <1>0, <1>2, <2>0, <3>3, <4>2
      <4>3. CASE i \in 1..(Len(history) - 1)
        <5>1. i + 1 \in 1..Len(history)
          BY <2>0, <4>3
        <5>2. history[i + 1].no = n - Len(history) + (i + 1)
          BY <2>0, <5>1
        <5> QED BY <1>0, <2>0, <3>3, <4>3, <5>2
      <4> QED BY <4>1, <4>2, <4>3
    <3>5. Len(history') <= HistoryMax /\ Len(history') <= n + 1
      BY <1>0, <2>0, <3>3
    <3>6. history' # <<>>
      BY <3>1, <3>3
    <3> QED BY <3>3, <3>4, <3>5, <3>6
  <2> QED BY <2>1, <2>2
<1>5. Shapes'
  <2>1. \A q \in Callers \cup Launches : outbox'[q].to # {} => outbox'[q].event \in Bus!Event
    BY <1>0, <1>2, <1>3 DEF Shapes
  <2> QED BY <1>0, <1>1, <1>3, <1>4, <2>1 DEF Shapes
<1>6. Remembers'
  BY <1>3, <1>4 DEF Remembers
<1>7. HandsApart'
  <2>1. \A q \in Callers \cup Launches : q # p /\ outbox[q].to # {} => outbox[q].event.no \in 1..n
    BY <1>0 DEF HandsApart, n
  <2>2. \A q \in Callers \cup Launches : q # p /\ outbox[q].to # {} => outbox[q].event.no # n + 1
    BY <1>0, <2>1
  <2>3. ASSUME NEW q \in Callers \cup Launches, outbox'[q].to # {}
        PROVE  outbox'[q].event.no \in 1..(n + 1)
    BY <1>0, <1>2, <1>3, <2>1, <2>3
  <2>4. ASSUME NEW q \in (Callers \cup Launches), NEW r \in Callers \cup Launches, outbox'[q].to # {}, outbox'[r].to # {},
               outbox'[q].event.no = outbox'[r].event.no
        PROVE  q = r
    <3>1. CASE q = p
      BY <1>2, <1>3, <2>2, <2>4, <3>1
    <3>2. CASE r = p
      BY <1>2, <1>3, <2>2, <2>4, <3>2
    <3>3. CASE q # p /\ r # p
      BY <1>0, <1>3, <2>4, <3>3 DEF HandsApart
    <3> QED BY <3>1, <3>2, <3>3
  <2> QED BY <1>3, <2>3, <2>4 DEF HandsApart
<1>8. ASSUME NEW s \in Bus!Sids
      PROVE  /\ s \in subs => InHands(s)' = InHands(s) \cup {n + 1}
             /\ s \notin subs => InHands(s)' = InHands(s)
  <2>1. \A q \in Callers \cup Launches : s \in outbox'[q].to <=> s \in outbox[q].to \/ (q = p /\ s \in subs)
    BY <1>1, <1>2, <1>3
  <2>2. \A x : x \in InHands(s)' <=> x \in InHands(s) \/ (s \in subs /\ x = n + 1)
    <3> TAKE x
    <3>1. ASSUME x \in InHands(s)'
          PROVE  x \in InHands(s) \/ (s \in subs /\ x = n + 1)
      <4>1. PICK q \in Callers \cup Launches : s \in outbox'[q].to /\ x = outbox'[q].event.no
        BY <3>1 DEF InHands
      <4>2. CASE q = p
        BY <1>2, <1>3, <4>1, <4>2
      <4>3. CASE q # p
        BY <1>3, <4>1, <4>3 DEF InHands
      <4> QED BY <4>2, <4>3
    <3>2. ASSUME x \in InHands(s)
          PROVE  x \in InHands(s)'
      <4>1. PICK q \in Callers \cup Launches : s \in outbox[q].to /\ x = outbox[q].event.no
        BY <3>2 DEF InHands
      <4>2. outbox'[q] = outbox[q]
        BY <1>1, <1>3, <4>1
      <4> QED BY <4>1, <4>2 DEF InHands
    <3>3. ASSUME s \in subs, x = n + 1
          PROVE  x \in InHands(s)'
      BY <1>2, <1>3, <3>3 DEF InHands
    <3> QED BY <3>1, <3>2, <3>3
  <2> QED BY <2>2
<1>9. BacklogsApart'
  <2> SUFFICES ASSUME NEW s \in Bus!Sids
               PROVE  /\ Distinct(backlog[s]) /\ Bus!Numbers(backlog[s]) \subseteq 1..(n + 1)
                      /\ Bus!Numbers(backlog[s]) \cap InHands(s)' = {}
                      /\ lost[s] \subseteq 1..(n + 1) /\ lost[s] \cap Bus!UnderWay(s)' = {}
    BY <1>1, <1>3 DEF BacklogsApart
  <2>1. /\ Distinct(backlog[s]) /\ Bus!Numbers(backlog[s]) \subseteq 1..n
        /\ Bus!Numbers(backlog[s]) \cap InHands(s) = {}
        /\ lost[s] \subseteq 1..n /\ lost[s] \cap Bus!UnderWay(s) = {}
    BY <1>0 DEF BacklogsApart, n
  <2>2. 1..n \subseteq 1..(n + 1) /\ n + 1 \notin 1..n
    BY <1>0
  <2>3. Bus!UnderWay(s) = Bus!Numbers(backlog[s]) \cup InHands(s) /\ Bus!UnderWay(s)' = Bus!Numbers(backlog[s]) \cup InHands(s)'
    BY <1>1 DEF Bus!UnderWay, InHands
  <2>4. InHands(s)' \subseteq InHands(s) \cup {n + 1}
    BY <1>8
  <2> QED BY <2>1, <2>2, <2>3, <2>4
<1>10. Unmade'
  <2>1. \A s \in Bus!Sids : s >= nextId => s \notin subs
    <3>1. subs \subseteq 1..(nextId - 1) /\ nextId \in Nat
      BY <1>0 DEF Shapes
    <3> QED BY <3>1 DEF Bus!Sids
  <2> QED BY <1>0, <1>1, <1>2, <1>3, <2>1 DEF Unmade
<1>12. Once' /\ JoinedFirst'
  <2>1. ASSUME NEW s \in subs
        PROVE  Distinct(got[s] \o queue[s]) /\ Bus!Numbers(got[s] \o queue[s]) \cap Bus!UnderWay(s)' = {}
    <3>1. s \in Bus!Sids /\ Bus!Numbers(got[s] \o queue[s]) \subseteq 1..n
      BY BusFacts DEF n
    <3>2. Distinct(got[s] \o queue[s]) /\ Bus!Numbers(got[s] \o queue[s]) \cap Bus!UnderWay(s) = {}
      BY DEF BusInv, Once
    <3>3. Bus!UnderWay(s) = Bus!Numbers(backlog[s]) \cup InHands(s) /\ Bus!UnderWay(s)' = Bus!Numbers(backlog[s]) \cup InHands(s)'
      BY <1>1 DEF Bus!UnderWay, InHands
    <3>4. n + 1 \notin 1..n
      BY <1>0
    <3> QED BY <1>8, <3>1, <3>2, <3>3, <3>4
  <2> QED BY <1>1, <2>1 DEF BusInv, Once, JoinedFirst
<1>11. Complete'
  <2> SUFFICES ASSUME NEW s \in subs
               PROVE  /\ joined[s] # <<>> => joined[s][1].no \in 1..(n + 1)
                      /\ Whole(got[s] \o queue[s], Bus!UnderWay(s)', lost[s], Bus!FirstFor(s), n + 1)
    BY <1>1, <1>3 DEF Complete, Bus!FirstFor
  <2>1. /\ joined[s] # <<>> => joined[s][1].no \in 1..n
        /\ Whole(got[s] \o queue[s], Bus!UnderWay(s), lost[s], Bus!FirstFor(s), n)
    BY <1>0 DEF Complete, n
  <2>2. s \in Bus!Sids
    BY <1>0
  <2>3. /\ got[s] \o queue[s] \in Seq(Bus!Event) /\ lost[s] \in SUBSET (1..n) /\ Bus!UnderWay(s) \in SUBSET (1..n)
        /\ Bus!FirstFor(s) \in 1..(n + 1)
    BY <2>2, BusFacts DEF n
  <2>4. Bus!UnderWay(s)' = Bus!UnderWay(s) \cup {n + 1}
    <3>1. Bus!UnderWay(s) = Bus!Numbers(backlog[s]) \cup InHands(s) /\ Bus!UnderWay(s)' = Bus!Numbers(backlog[s]) \cup InHands(s)'
      BY <1>1 DEF Bus!UnderWay, InHands
    <3> QED BY <1>8, <2>2, <3>1
  <2>5. Whole(got[s] \o queue[s], Bus!UnderWay(s)', lost[s], Bus!FirstFor(s), n + 1)
    <3>1. Whole(got[s] \o queue[s], Bus!UnderWay(s) \cup {n + 1}, lost[s], Bus!FirstFor(s), n + 1)
      BY <1>0, <2>1, <2>3, OneMoreUnderWay
    <3> QED BY <2>4, <3>1
  <2> QED BY <1>0, <2>1, <2>5
<1> QED BY <1>5, <1>6, <1>7, <1>9, <1>10, <1>11, <1>12 DEF BusInv

---------------------------------------------------------------------------
(* The put of publish, one queue of its snapshot after the other. *)

\* publish: one subscriber's put, outside the lock.
LEMMA DeliverKeeps ==
  ASSUME Bus!EventBusConstants, BusInv, NEW p \in Callers \cup Launches, Bus!Deliver(p)
  PROVE  BusInv'
<1> DEFINE n == Len(published)
           first == CHOOSE t \in outbox[p].to : \A u \in outbox[p].to : t <= u
<1>0. /\ n \in Nat /\ HistoryMax \in Nat \ {0} /\ MaxSids \in Nat /\ QueueMax \in Nat \ {0}
      /\ Shapes /\ Remembers /\ HandsApart /\ BacklogsApart /\ Unmade /\ Complete
  BY BusFacts DEF BusInv
<1>1. outbox[p] \in Outbox /\ outbox[p].to # {} /\ outbox[p].to \subseteq Bus!Sids /\ outbox[p].to \subseteq Nat
  <2>1. outbox[p] \in Outbox /\ outbox[p].to # {}
    BY <1>0 DEF Shapes, Bus!Deliver
  <2>2. outbox[p].to \subseteq Bus!Sids
    BY <2>1 DEF Outbox
  <2> QED BY <1>0, <2>1, <2>2 DEF Bus!Sids
<1>a. first \in outbox[p].to
  BY <1>1, LeastIsIn
<1>b. PICK s : s = first
  OBVIOUS
<1>c. PICK e : e = outbox[p].event
  OBVIOUS
<1>2. s \in outbox[p].to /\ s \in Bus!Sids
  BY <1>1, <1>a, <1>b
<1>3. e \in Bus!Event /\ e.no \in 1..n
  BY <1>0, <1>1, <1>c DEF Shapes, HandsApart
<1> DEFINE o == [outbox[p] EXCEPT !.to = @ \ {s}]
<1>4. outbox' = [outbox EXCEPT ![p] = o] /\ UNCHANGED <<history, nextId, subs, backlog, published, joined, got>>
      /\ Bus!Put(s, e)
  BY <1>b, <1>c DEF Bus!Deliver
<1> HIDE DEF first
<1>5. o \in Outbox /\ o.event = e /\ o.to = outbox[p].to \ {s}
  BY <1>1, <1>c DEF Outbox
<1> HIDE DEF o
<1>6. /\ outbox' \in [Callers \cup Launches -> Outbox] /\ outbox'[p] = o
      /\ \A q \in Callers \cup Launches : q # p => outbox'[q] = outbox[q]
  BY <1>0, <1>4, <1>5 DEF Shapes
<1>7. \A q \in Callers \cup Launches : /\ outbox'[q].to # {} => outbox[q].to # {}
                            /\ outbox'[q].event = outbox[q].event
                            /\ outbox'[q].to \subseteq outbox[q].to
  BY <1>1, <1>5, <1>6, <1>c
<1>8. \/ /\ Len(queue[s]) < QueueMax
         /\ queue' = [queue EXCEPT ![s] = Append(queue[s], e)] /\ lost' = lost
      \/ queue' = queue /\ lost' = [lost EXCEPT ![s] = lost[s] \cup {e.no}]
  BY <1>4 DEF Bus!Put
<1>9. /\ queue[s] \in Seq(Bus!Event) /\ got[s] \in Seq(Bus!Event) /\ Append(queue[s], e) \in Seq(Bus!Event)
      /\ Len(Append(queue[s], e)) = Len(queue[s]) + 1 /\ Len(queue[s]) \in Nat
  BY <1>0, <1>2, <1>3, AppendProperties DEF Shapes
<1>10. Shapes'
  <2>1. queue' \in [Bus!Sids -> Seq(Bus!Event)] /\ \A t \in Bus!Sids : Len(queue'[t]) <= QueueMax
    <3>1. CASE queue' = queue
      BY <1>0, <3>1 DEF Shapes
    <3>2. CASE Len(queue[s]) < QueueMax /\ queue' = [queue EXCEPT ![s] = Append(queue[s], e)]
      <4>1. Len(Append(queue[s], e)) <= QueueMax
        BY <1>0, <1>9, <3>2
      <4> QED BY <1>0, <1>2, <1>9, <3>2, <4>1 DEF Shapes
    <3> QED BY <1>8, <3>1, <3>2
  <2>2. lost' \in [Bus!Sids -> SUBSET (Nat \ {0})]
    <3>1. e.no \in Nat \ {0} /\ lost[s] \in SUBSET (Nat \ {0})
      BY <1>0, <1>2, <1>3, BusEvents DEF Shapes
    <3>2. lost[s] \cup {e.no} \in SUBSET (Nat \ {0}) /\ lost \in [Bus!Sids -> SUBSET (Nat \ {0})]
      BY <1>0, <3>1 DEF Shapes
    <3> QED BY <1>2, <1>8, <3>2
  <2>3. \A q \in Callers \cup Launches : outbox'[q].to # {} => outbox'[q].event \in Bus!Event
    BY <1>0, <1>7 DEF Shapes
  <2> QED BY <1>0, <1>4, <1>6, <2>1, <2>2, <2>3 DEF Shapes
<1>11. Remembers'
  BY <1>0, <1>4 DEF Remembers
<1>12. HandsApart'
  BY <1>0, <1>4, <1>7 DEF HandsApart
<1>13. e.no \in InHands(s)
  BY <1>2, <1>c DEF InHands
<1>14. InHands(s)' = InHands(s) \ {e.no}
  <2>1. ASSUME NEW x, x \in InHands(s)'
        PROVE  x \in InHands(s) /\ x # e.no
    <3>1. PICK q \in Callers \cup Launches : s \in outbox'[q].to /\ x = outbox'[q].event.no
      BY <2>1 DEF InHands
    <3>2. q # p
      BY <1>5, <1>6, <3>1
    <3>3. outbox'[q] = outbox[q]
      BY <1>6, <3>2
    <3>4. x \in InHands(s)
      BY <3>1, <3>3 DEF InHands
    <3>5. x # e.no
      BY <1>0, <1>1, <3>1, <3>2, <3>3, <1>c DEF HandsApart
    <3> QED BY <3>4, <3>5
  <2>2. ASSUME NEW x, x \in InHands(s), x # e.no
        PROVE  x \in InHands(s)'
    <3>1. PICK q \in Callers \cup Launches : s \in outbox[q].to /\ x = outbox[q].event.no
      BY <2>2 DEF InHands
    <3>2. q # p
      BY <2>2, <3>1, <1>c
    <3>3. outbox'[q] = outbox[q]
      BY <1>6, <3>2
    <3> QED BY <3>1, <3>3 DEF InHands
  <2> QED BY <2>1, <2>2
<1>15. ASSUME NEW t \in Bus!Sids, t # s
       PROVE  InHands(t)' = InHands(t)
  <2>1. \A q \in Callers \cup Launches : t \in outbox'[q].to <=> t \in outbox[q].to
    BY <1>5, <1>6, <1>15
  <2> QED BY <1>7, <2>1 DEF InHands
<1>16. ASSUME NEW t \in Bus!Sids
       PROVE  /\ Bus!UnderWay(t) = Bus!Numbers(backlog[t]) \cup InHands(t)
              /\ Bus!UnderWay(t)' = Bus!Numbers(backlog[t]) \cup InHands(t)'
              /\ Distinct(backlog[t]) /\ Bus!Numbers(backlog[t]) \subseteq 1..n
              /\ Bus!Numbers(backlog[t]) \cap InHands(t) = {}
              /\ lost[t] \subseteq 1..n /\ lost[t] \cap Bus!UnderWay(t) = {}
  BY <1>0, <1>4 DEF Bus!UnderWay, InHands, BacklogsApart, n
<1>17. Bus!UnderWay(s)' = Bus!UnderWay(s) \ {e.no} /\ e.no \in Bus!UnderWay(s)
  BY <1>2, <1>13, <1>14, <1>16
<1>18. ASSUME NEW t \in Bus!Sids, t # s
       PROVE  Bus!UnderWay(t)' = Bus!UnderWay(t) /\ queue'[t] = queue[t] /\ lost'[t] = lost[t]
  BY <1>0, <1>8, <1>15, <1>16, <1>18 DEF Shapes
<1>19. lost'[s] \in {lost[s], lost[s] \cup {e.no}}
  BY <1>0, <1>2, <1>8 DEF Shapes
<1>20. BacklogsApart'
  <2> SUFFICES ASSUME NEW t \in Bus!Sids
               PROVE  /\ Distinct(backlog[t]) /\ Bus!Numbers(backlog[t]) \subseteq 1..n
                      /\ Bus!Numbers(backlog[t]) \cap InHands(t)' = {}
                      /\ lost'[t] \subseteq 1..n /\ lost'[t] \cap Bus!UnderWay(t)' = {}
    BY <1>4 DEF BacklogsApart, n
  <2>1. CASE t = s
    BY <1>3, <1>14, <1>16, <1>17, <1>19, <2>1
  <2>2. CASE t # s
    BY <1>15, <1>16, <1>18, <2>2
  <2> QED BY <2>1, <2>2
<1>21. Unmade'
  <2>1. \A t \in Bus!Sids : t >= nextId => t # s
    BY <1>0, <1>2 DEF Unmade
  <2> QED BY <1>0, <1>4, <1>7, <1>18, <2>1 DEF Unmade
<1>22. Complete'
  <2> SUFFICES ASSUME NEW t \in subs
               PROVE  /\ joined[t] # <<>> => joined[t][1].no \in 1..n
                      /\ Whole(got[t] \o queue'[t], Bus!UnderWay(t)', lost'[t], Bus!FirstFor(t), n)
    BY <1>4 DEF Complete, Bus!FirstFor, n
  <2>1. /\ joined[t] # <<>> => joined[t][1].no \in 1..n
        /\ Whole(got[t] \o queue[t], Bus!UnderWay(t), lost[t], Bus!FirstFor(t), n)
    BY <1>0 DEF Complete, n
  <2>2. t \in Bus!Sids /\ Bus!FirstFor(t) \in 1..(n + 1)
    BY BusFacts DEF n
  <2>3. CASE t # s
    BY <1>18, <2>1, <2>2, <2>3
  <2>4. CASE t = s
    <3>1. /\ got[s] \o queue[s] \in Seq(Bus!Event) /\ lost[s] \in SUBSET (1..n) /\ Bus!UnderWay(s) \in SUBSET (1..n)
          /\ Bus!UnderWay(s) \cap lost[s] = {} /\ {e.no} \in SUBSET Bus!UnderWay(s)
      BY <1>2, <1>16, <1>17, BusFacts DEF n
    <3>2. CASE queue' = [queue EXCEPT ![s] = Append(queue[s], e)] /\ lost' = lost
      <4>1. queue'[s] = Append(queue[s], e)
        BY <1>0, <1>2, <3>2 DEF Shapes
      <4>2. Whole(got[s] \o Append(queue[s], e), Bus!UnderWay(s) \ {e.no}, lost[s], Bus!FirstFor(s), n)
        BY <1>0, <1>3, <1>9, <1>17, <2>1, <2>2, <2>4, <3>1, OneIsQueued
      <4> QED BY <1>17, <2>1, <2>4, <3>2, <4>1, <4>2
    <3>3. CASE queue' = queue /\ lost' = [lost EXCEPT ![s] = lost[s] \cup {e.no}]
      <4>1. lost'[s] = lost[s] \cup {e.no}
        BY <1>0, <1>2, <3>3 DEF Shapes
      <4>2. Whole(got[s] \o queue[s], Bus!UnderWay(s) \ {e.no}, lost[s] \cup {e.no}, Bus!FirstFor(s), n)
        BY <1>0, <2>1, <2>2, <2>4, <3>1, SomeAreDropped
      <4> QED BY <1>17, <2>1, <2>4, <3>3, <4>1, <4>2
    <3> QED BY <1>8, <3>2, <3>3
  <2> QED BY <2>3, <2>4
<1>23. Once'
  <2> SUFFICES ASSUME NEW t \in subs
               PROVE  Distinct(got[t] \o queue'[t]) /\ Bus!Numbers(got[t] \o queue'[t]) \cap Bus!UnderWay(t)' = {}
    BY <1>4 DEF Once
  <2>1. t \in Bus!Sids /\ Distinct(got[t] \o queue[t]) /\ Bus!Numbers(got[t] \o queue[t]) \cap Bus!UnderWay(t) = {}
    BY BusFacts DEF BusInv, Once
  <2>2. CASE t # s
    BY <1>18, <2>1, <2>2
  <2>3. CASE t = s
    <3>1. queue'[s] = Append(queue[s], e) \/ queue'[s] = queue[s]
      BY <1>0, <1>2, <1>8 DEF Shapes
    <3>2. Distinct(got[s] \o Append(queue[s], e))
      BY <1>3, <1>9, <1>17, <2>1, <2>3, OnceMore
    <3>3. Bus!Numbers(got[s] \o Append(queue[s], e)) = Bus!Numbers(got[s] \o queue[s]) \cup {e.no}
      BY <1>3, <1>9, NumbersPut
    <3> QED BY <1>17, <2>1, <2>3, <3>1, <3>2, <3>3
  <2> QED BY <2>2, <2>3
<1>24. JoinedFirst'
  BY <1>4 DEF BusInv, JoinedFirst
<1> QED BY <1>10, <1>11, <1>12, <1>20, <1>21, <1>22, <1>23, <1>24 DEF BusInv

---------------------------------------------------------------------------
(* subscribe, its backlog, and what a subscriber does after it *)

\* subscribe: one event of the backlog put into the new queue.
LEMMA PutBacklogKeeps ==
  ASSUME Bus!EventBusConstants, BusInv, NEW s \in Bus!Sids, Bus!PutBacklog(s)
  PROVE  BusInv'
<1> DEFINE n == Len(published)
           b == backlog[s]
           h == Head(b)
<1>0. /\ n \in Nat /\ HistoryMax \in Nat \ {0} /\ MaxSids \in Nat /\ QueueMax \in Nat \ {0}
      /\ Shapes /\ Remembers /\ HandsApart /\ BacklogsApart /\ Unmade /\ Complete
  BY BusFacts DEF BusInv
<1>1. /\ b # <<>> /\ b \in Seq(Bus!Event) /\ Distinct(b) /\ Bus!Numbers(b) \subseteq 1..n
      /\ Bus!Numbers(b) \cap InHands(s) = {} /\ lost[s] \subseteq 1..n /\ lost[s] \cap Bus!UnderWay(s) = {}
  BY <1>0 DEF Bus!PutBacklog, Shapes, BacklogsApart
<1>2. UNCHANGED <<history, nextId, subs, outbox, published, joined, got>>
  BY DEF Bus!PutBacklog
<1>3. \A t \in Bus!Sids : InHands(t)' = InHands(t)
  BY <1>2 DEF InHands
<1>4. ASSUME NEW t \in Bus!Sids
      PROVE  Bus!UnderWay(t) = Bus!Numbers(backlog[t]) \cup InHands(t) /\ Bus!UnderWay(t)' = Bus!Numbers(backlog'[t]) \cup InHands(t)
  BY <1>2 DEF Bus!UnderWay, InHands
<1>5. \/ /\ Len(queue[s]) < QueueMax /\ lost' = lost
         /\ queue' = [queue EXCEPT ![s] = Append(queue[s], h)] /\ backlog' = [backlog EXCEPT ![s] = Tail(b)]
      \/ /\ queue' = queue /\ backlog' = [backlog EXCEPT ![s] = <<>>]
         /\ lost' = [lost EXCEPT ![s] = lost[s] \cup Bus!Numbers(b)]
  BY DEF Bus!PutBacklog, Bus!Put, Bus!Numbers
<1>6. /\ h \in Bus!Event /\ Tail(b) \in Seq(Bus!Event) /\ Distinct(Tail(b)) /\ h.no \in Bus!Numbers(b)
      /\ Bus!Numbers(Tail(b)) = Bus!Numbers(b) \ {h.no} /\ Bus!Numbers(<<>>) = {} /\ Distinct(<<>>) /\ <<>> \in Seq(Bus!Event)
  <2>1. Bus!Numbers(<<>>) = {} /\ Distinct(<<>>) /\ <<>> \in Seq(Bus!Event)
    BY DEF Bus!Numbers, Distinct
  <2> QED BY <1>1, <2>1, NumbersOfTail
<1>7. /\ queue[s] \in Seq(Bus!Event) /\ got[s] \in Seq(Bus!Event) /\ Append(queue[s], h) \in Seq(Bus!Event)
      /\ Len(Append(queue[s], h)) = Len(queue[s]) + 1 /\ Len(queue[s]) \in Nat
  BY <1>0, <1>6, AppendProperties DEF Shapes
<1> HIDE DEF n, b, h
<1>8. Shapes'
  <2>1. queue' \in [Bus!Sids -> Seq(Bus!Event)] /\ \A t \in Bus!Sids : Len(queue'[t]) <= QueueMax
    <3>1. CASE queue' = queue
      BY <1>0, <3>1 DEF Shapes
    <3>2. CASE Len(queue[s]) < QueueMax /\ queue' = [queue EXCEPT ![s] = Append(queue[s], h)]
      <4>1. Len(Append(queue[s], h)) <= QueueMax
        BY <1>0, <1>7, <3>2
      <4> QED BY <1>0, <1>7, <3>2, <4>1 DEF Shapes
    <3> QED BY <1>5, <3>1, <3>2
  <2>2. backlog' \in [Bus!Sids -> Seq(Bus!Event)]
    BY <1>0, <1>5, <1>6 DEF Shapes
  <2>3. lost' \in [Bus!Sids -> SUBSET (Nat \ {0})]
    <3>1. Bus!Numbers(b) \subseteq Nat \ {0}
      BY <1>0, <1>1
    <3> QED BY <1>0, <1>5, <3>1 DEF Shapes
  <2> QED BY <1>0, <1>2, <2>1, <2>2, <2>3 DEF Shapes
<1>9. Remembers' /\ HandsApart'
  BY <1>0, <1>2 DEF Remembers, HandsApart
<1>10. ASSUME NEW t \in Bus!Sids, t # s
       PROVE  Bus!UnderWay(t)' = Bus!UnderWay(t) /\ queue'[t] = queue[t] /\ lost'[t] = lost[t] /\ backlog'[t] = backlog[t]
  <2>1. queue'[t] = queue[t] /\ lost'[t] = lost[t] /\ backlog'[t] = backlog[t]
    BY <1>0, <1>5, <1>10 DEF Shapes
  <2> QED BY <1>4, <2>1
<1>11. \/ /\ lost'[s] = lost[s] /\ queue'[s] = Append(queue[s], h) /\ backlog'[s] = Tail(b)
          /\ Bus!UnderWay(s)' = Bus!UnderWay(s) \ {h.no}
       \/ /\ queue'[s] = queue[s] /\ backlog'[s] = <<>> /\ lost'[s] = lost[s] \cup Bus!Numbers(b)
          /\ Bus!UnderWay(s)' = Bus!UnderWay(s) \ Bus!Numbers(b)
  <2>1. \/ lost'[s] = lost[s] /\ queue'[s] = Append(queue[s], h) /\ backlog'[s] = Tail(b)
        \/ queue'[s] = queue[s] /\ backlog'[s] = <<>> /\ lost'[s] = lost[s] \cup Bus!Numbers(b)
    BY <1>0, <1>5 DEF Shapes
  <2> QED BY <1>1, <1>4, <1>6, <2>1 DEF b
<1>12. Bus!Numbers(b) \in SUBSET Bus!UnderWay(s)
  BY <1>4 DEF b
<1>13. BacklogsApart'
  <2> SUFFICES ASSUME NEW t \in Bus!Sids
               PROVE  /\ Distinct(backlog'[t]) /\ Bus!Numbers(backlog'[t]) \subseteq 1..n
                      /\ Bus!Numbers(backlog'[t]) \cap InHands(t) = {}
                      /\ lost'[t] \subseteq 1..n /\ lost'[t] \cap Bus!UnderWay(t)' = {}
    BY <1>2, <1>3 DEF BacklogsApart, n
  <2>1. CASE t = s
    BY <1>1, <1>6, <1>11, <2>1
  <2>2. CASE t # s
    BY <1>0, <1>10, <2>2 DEF BacklogsApart, n
  <2> QED BY <2>1, <2>2
<1>14. Unmade'
  <2>1. \A t \in Bus!Sids : t >= nextId => t # s
    BY <1>0, <1>1 DEF Unmade, b
  <2> QED BY <1>0, <1>2, <1>10, <2>1 DEF Unmade
<1>15. Complete'
  <2> SUFFICES ASSUME NEW t \in subs
               PROVE  /\ joined[t] # <<>> => joined[t][1].no \in 1..n
                      /\ Whole(got[t] \o queue'[t], Bus!UnderWay(t)', lost'[t], Bus!FirstFor(t), n)
    BY <1>2 DEF Complete, Bus!FirstFor, n
  <2>1. /\ joined[t] # <<>> => joined[t][1].no \in 1..n
        /\ Whole(got[t] \o queue[t], Bus!UnderWay(t), lost[t], Bus!FirstFor(t), n)
    BY <1>0 DEF Complete, n
  <2>2. t \in Bus!Sids /\ Bus!FirstFor(t) \in 1..(n + 1)
    BY BusFacts DEF n
  <2>3. CASE t # s
    BY <1>10, <2>1, <2>2, <2>3
  <2>4. CASE t = s
    <3>1. /\ got[s] \o queue[s] \in Seq(Bus!Event) /\ lost[s] \in SUBSET (1..n) /\ Bus!UnderWay(s) \in SUBSET (1..n)
          /\ Bus!UnderWay(s) \cap lost[s] = {} /\ h.no \in Bus!UnderWay(s)
      BY <1>1, <1>6, <1>12, BusFacts DEF n
    <3>2. Whole(got[s] \o Append(queue[s], h), Bus!UnderWay(s) \ {h.no}, lost[s], Bus!FirstFor(s), n)
      BY <1>0, <1>6, <1>7, <2>1, <2>2, <2>4, <3>1, OneIsQueued
    <3>3. Whole(got[s] \o queue[s], Bus!UnderWay(s) \ Bus!Numbers(b), lost[s] \cup Bus!Numbers(b), Bus!FirstFor(s), n)
      BY <1>0, <1>12, <2>1, <2>2, <2>4, <3>1, SomeAreDropped
    <3> QED BY <1>11, <2>1, <2>4, <3>2, <3>3
  <2> QED BY <2>3, <2>4
<1>16. Once'
  <2> SUFFICES ASSUME NEW t \in subs
               PROVE  Distinct(got[t] \o queue'[t]) /\ Bus!Numbers(got[t] \o queue'[t]) \cap Bus!UnderWay(t)' = {}
    BY <1>2 DEF Once
  <2>1. t \in Bus!Sids /\ Distinct(got[t] \o queue[t]) /\ Bus!Numbers(got[t] \o queue[t]) \cap Bus!UnderWay(t) = {}
    BY BusFacts DEF BusInv, Once
  <2>2. CASE t # s
    BY <1>10, <2>1, <2>2
  <2>3. CASE t = s
    <3>1. h.no \in Bus!UnderWay(s)
      BY <1>6, <1>12
    <3>2. Distinct(got[s] \o Append(queue[s], h))
      BY <1>6, <1>7, <2>1, <2>3, <3>1, OnceMore
    <3>3. Bus!Numbers(got[s] \o Append(queue[s], h)) = Bus!Numbers(got[s] \o queue[s]) \cup {h.no}
      BY <1>6, <1>7, NumbersPut
    <3> QED BY <1>11, <2>1, <2>3, <3>2, <3>3
  <2> QED BY <2>2, <2>3
<1>17. JoinedFirst'
  <2>1. \A t \in Bus!Sids : Bus!Numbers(backlog'[t]) \subseteq Bus!Numbers(backlog[t])
    <3> TAKE t \in Bus!Sids
    <3>1. CASE t # s
      BY <1>10, <3>1
    <3>2. CASE t = s
      BY <1>6, <1>11, <3>2 DEF b
    <3> QED BY <3>1, <3>2
  <2> QED BY <1>2, <2>1 DEF BusInv, JoinedFirst
<1> QED BY <1>8, <1>9, <1>13, <1>14, <1>15, <1>16, <1>17 DEF BusInv

\* subscribe: the backlog copied and the queue registered under the lock.
LEMMA SubscribeKeeps ==
  ASSUME Bus!EventBusConstants, BusInv, Bus!Subscribe
  PROVE  BusInv'
<1> DEFINE n == Len(published)
<1>0. /\ n \in Nat /\ HistoryMax \in Nat \ {0} /\ MaxSids \in Nat /\ QueueMax \in Nat \ {0}
      /\ Shapes /\ Remembers /\ HandsApart /\ BacklogsApart /\ Unmade /\ Complete
  BY BusFacts DEF BusInv
<1>1. PICK s : s = nextId
  OBVIOUS
<1>2. /\ s \in Bus!Sids /\ nextId' = s + 1 /\ subs' = subs \cup {s}
      /\ backlog' = [backlog EXCEPT ![s] = history] /\ joined' = [joined EXCEPT ![s] = history]
      /\ UNCHANGED <<history, queue, outbox, published, got, lost>>
  BY <1>1 DEF Bus!Subscribe
<1>3. /\ history \in Seq(Bus!Event) /\ Len(history) \in Nat /\ Len(history) <= n /\ (published # <<>> => history # <<>>)
      /\ \A i \in 1..Len(history) : history[i].no = n - Len(history) + i
  BY <1>0 DEF Shapes, Remembers
<1>4. queue[s] = <<>> /\ got[s] = <<>> /\ lost[s] = {} /\ InHands(s) = {}
  BY <1>0, <1>1, <1>2 DEF Unmade, InHands, Bus!Sids
<1>5. \A t \in Bus!Sids : InHands(t)' = InHands(t)
  BY <1>2 DEF InHands
<1>6. ASSUME NEW t \in Bus!Sids
      PROVE  Bus!UnderWay(t) = Bus!Numbers(backlog[t]) \cup InHands(t) /\ Bus!UnderWay(t)' = Bus!Numbers(backlog'[t]) \cup InHands(t)
  BY <1>2 DEF Bus!UnderWay, InHands
<1>7. /\ backlog'[s] = history /\ joined'[s] = history
      /\ \A t \in Bus!Sids : t # s => backlog'[t] = backlog[t] /\ joined'[t] = joined[t]
  BY <1>0, <1>2 DEF Shapes
<1>8. Distinct(history)
  <2> SUFFICES ASSUME NEW i \in 1..Len(history), NEW j \in 1..Len(history), history[i].no = history[j].no
               PROVE  i = j
    BY DEF Distinct
  <2>1. history[i].no = n - Len(history) + i /\ history[j].no = n - Len(history) + j
    BY <1>3
  <2>2. i \in Int /\ j \in Int
    OBVIOUS
  <2>3. n - Len(history) + i = n - Len(history) + j
    BY <2>1
  <2>4. n \in Nat /\ Len(history) \in Nat
    BY <1>0, <1>3
  <2> HIDE DEF n
  <2> QED BY <2>2, <2>3, <2>4
<1>9. Bus!Numbers(history) = (n - Len(history) + 1)..n
  <2>1. ASSUME NEW x, x \in Bus!Numbers(history)
        PROVE  x \in (n - Len(history) + 1)..n
    <3>1. PICK i \in 1..Len(history) : history[i].no = x
      BY <1>3, <2>1, NumbersByPlace
    <3>2. x = n - Len(history) + i
      BY <1>3, <3>1
    <3> QED BY <1>0, <1>3, <3>2
  <2>2. ASSUME NEW x \in (n - Len(history) + 1)..n
        PROVE  x \in Bus!Numbers(history)
    <3> DEFINE i == x - (n - Len(history))
    <3>1. i \in 1..Len(history) /\ n - Len(history) + i = x
      BY <1>0, <1>3
    <3>2. history[i].no = x
      BY <1>3, <3>1
    <3> HIDE DEF i
    <3> QED BY <1>3, <3>1, <3>2, NumbersByPlace
  <2> HIDE DEF n
  <2> QED BY <2>1, <2>2
<1>10. Bus!Numbers(history) \subseteq 1..n
  BY <1>0, <1>3, <1>9
<1> HIDE DEF n
<1>11. Shapes'
  <2>1. backlog' \in [Bus!Sids -> Seq(Bus!Event)] /\ joined' \in [Bus!Sids -> Seq(Bus!Event)]
    BY <1>0, <1>2, <1>3 DEF Shapes
  <2>2. nextId' \in 1..(MaxSids + 1) /\ subs' \subseteq 1..(nextId' - 1)
    <3>1. s \in 1..MaxSids /\ subs \subseteq 1..(s - 1)
      BY <1>0, <1>1, <1>2 DEF Shapes, Bus!Sids
    <3>2. nextId' - 1 = s /\ 1..(s - 1) \subseteq 1..s /\ s \in 1..s /\ s + 1 \in 1..(MaxSids + 1)
      BY <1>0, <1>2, <3>1
    <3> QED BY <1>2, <3>1, <3>2
  <2> QED BY <1>0, <1>2, <2>1, <2>2 DEF Shapes
<1>12. Remembers' /\ HandsApart'
  BY <1>0, <1>2 DEF Remembers, HandsApart
<1>13. BacklogsApart'
  <2> SUFFICES ASSUME NEW t \in Bus!Sids
               PROVE  /\ Distinct(backlog'[t]) /\ Bus!Numbers(backlog'[t]) \subseteq 1..n
                      /\ Bus!Numbers(backlog'[t]) \cap InHands(t) = {}
                      /\ lost[t] \subseteq 1..n /\ lost[t] \cap Bus!UnderWay(t)' = {}
    BY <1>2, <1>5 DEF BacklogsApart, n
  <2>1. CASE t = s
    BY <1>4, <1>7, <1>8, <1>10, <2>1
  <2>2. CASE t # s
    <3>1. backlog'[t] = backlog[t] /\ Bus!UnderWay(t)' = Bus!UnderWay(t)
      BY <1>6, <1>7, <2>2
    <3> QED BY <1>0, <3>1 DEF BacklogsApart, n
  <2> QED BY <2>1, <2>2
<1>14. Unmade'
  <2>1. \A t \in Bus!Sids : t >= nextId' => t # s /\ t >= nextId
    BY <1>1, <1>2 DEF Bus!Sids
  <2> QED BY <1>0, <1>2, <1>7, <2>1 DEF Unmade
<1>15. Complete'
  <2> SUFFICES ASSUME NEW t \in subs \cup {s}
               PROVE  /\ joined'[t] # <<>> => joined'[t][1].no \in 1..n
                      /\ Whole(got[t] \o queue[t], Bus!UnderWay(t)', lost[t], Bus!FirstFor(t)', n)
    BY <1>2 DEF Complete, n
  <2>1. CASE t # s
    <3>1. t \in subs /\ t \in Bus!Sids
      BY <2>1, BusFacts
    <3>2. backlog'[t] = backlog[t] /\ joined'[t] = joined[t] /\ Bus!UnderWay(t)' = Bus!UnderWay(t)
      BY <1>6, <1>7, <2>1, <3>1
    <3>3. Bus!FirstFor(t)' = Bus!FirstFor(t)
      BY <3>2 DEF Bus!FirstFor
    <3> QED BY <1>0, <3>1, <3>2, <3>3 DEF Complete, n
  <2>2. CASE t = s
    <3> DEFINE f == n - Len(history) + 1
    <3>1. Bus!UnderWay(s)' = f..n
      BY <1>2, <1>4, <1>6, <1>7, <1>9
    <3>2. history # <<>> => history[1].no = f /\ f \in 1..n
      <4> SUFFICES ASSUME history # <<>> PROVE history[1].no = f /\ f \in 1..n
        OBVIOUS
      <4>1. Len(history) > 0 /\ 1 \in 1..Len(history)
        BY <1>3
      <4> QED BY <1>0, <1>3, <4>1
    <3>3. Bus!FirstFor(s)' = f
      <4>1. CASE history = <<>>
        <5>1. published = <<>> /\ n = 0 /\ Len(history) = 0
          BY <1>3, <4>1 DEF n
        <5> QED BY <1>7, <4>1, <5>1 DEF Bus!FirstFor
      <4>2. CASE history # <<>>
        BY <1>7, <3>2, <4>2 DEF Bus!FirstFor
      <4> QED BY <4>1, <4>2
    <3>4. got[s] \o queue[s] = <<>>
      BY <1>4
    <3>5. f \in 1..(n + 1)
      BY <1>0, <1>3
    <3> HIDE DEF f
    <3>6. Cardinality(f..n) = n + 1 - f
      <4>1. Cardinality(f..n) = IF f > n THEN 0 ELSE n - f + 1
        BY <1>0, <3>5, FS_Interval
      <4> QED BY <1>0, <3>5, <4>1
    <3>7. Whole(<<>>, f..n, {}, f, n)
      <4>1. Bus!Numbers(<<>>) = {} /\ Len(<<>>) = 0 /\ Cardinality({}) = 0
        BY FS_EmptySet DEF Bus!Numbers
      <4> QED BY <1>0, <3>5, <3>6, <4>1 DEF Whole
    <3> QED BY <1>4, <1>7, <2>2, <3>1, <3>2, <3>3, <3>4, <3>7
  <2> QED BY <2>1, <2>2
<1>16. Once'
  <2> SUFFICES ASSUME NEW t \in subs \cup {s}
               PROVE  Distinct(got[t] \o queue[t]) /\ Bus!Numbers(got[t] \o queue[t]) \cap Bus!UnderWay(t)' = {}
    BY <1>2 DEF Once
  <2>1. CASE t # s
    <3>1. t \in subs /\ t \in Bus!Sids
      BY <2>1, BusFacts
    <3>2. Bus!UnderWay(t)' = Bus!UnderWay(t)
      BY <1>6, <1>7, <2>1, <3>1
    <3> QED BY <3>1, <3>2 DEF BusInv, Once
  <2>2. CASE t = s
    <3>1. got[s] \o queue[s] = <<>>
      BY <1>4
    <3> QED BY <2>2, <3>1 DEF Distinct, Bus!Numbers
  <2> QED BY <2>1, <2>2
<1>17. JoinedFirst'
  <2> SUFFICES ASSUME NEW t \in Bus!Sids
               PROVE  /\ joined'[t] = <<>> => Bus!Numbers(backlog'[t]) = {}
                      /\ joined'[t] # <<>> => /\ joined'[t][1].no <= joined'[t][Len(joined'[t])].no
                                             /\ \A x \in Bus!Numbers(backlog'[t]) : x <= joined'[t][Len(joined'[t])].no
    BY DEF JoinedFirst
  <2>1. CASE t # s
    BY <1>7, <2>1 DEF BusInv, JoinedFirst
  <2>2. CASE t = s
    <3>1. history = <<>> => Bus!Numbers(history) = {}
      BY <1>3, NumbersByPlace
    <3>2. ASSUME history # <<>>
          PROVE  history[Len(history)].no = n /\ history[1].no \in Nat /\ history[1].no <= n
      <4>1. Len(history) > 0 /\ 1 \in 1..Len(history) /\ Len(history) \in 1..Len(history)
        BY <1>3, <3>2
      <4> QED BY <1>0, <1>3, <4>1
    <3>3. \A x \in Bus!Numbers(history) : x <= n
      BY <1>0, <1>10
    <3> QED BY <1>7, <2>2, <3>1, <3>2, <3>3
  <2> QED BY <2>1, <2>2
<1> QED BY <1>11, <1>12, <1>13, <1>14, <1>15, <1>16, <1>17 DEF BusInv

\* A subscriber takes the next event.
LEMMA GetKeeps ==
  ASSUME Bus!EventBusConstants, BusInv, NEW s \in Bus!Sids, Bus!Get(s)
  PROVE  BusInv'
<1>0. /\ Shapes /\ Remembers /\ HandsApart /\ BacklogsApart /\ Unmade /\ Complete
      /\ queue[s] \in Seq(Bus!Event) /\ got[s] \in Seq(Bus!Event) /\ queue[s] # <<>> /\ s \in subs
      /\ QueueMax \in Nat /\ Len(queue[s]) <= QueueMax
  BY BusFacts DEF BusInv, Bus!Get, Shapes
<1>1. /\ got' = [got EXCEPT ![s] = Append(got[s], Head(queue[s]))]
      /\ queue' = [queue EXCEPT ![s] = Tail(queue[s])]
      /\ UNCHANGED <<history, nextId, subs, backlog, outbox, published, joined, lost>>
  BY DEF Bus!Get
<1>2. /\ Append(got[s], Head(queue[s])) \o Tail(queue[s]) = got[s] \o queue[s]
      /\ Append(got[s], Head(queue[s])) \in Seq(Bus!Event) /\ Tail(queue[s]) \in Seq(Bus!Event)
      /\ Len(Tail(queue[s])) = Len(queue[s]) - 1 /\ Len(queue[s]) \in Nat
  <2>1. Len(queue[s]) \in Nat
    BY <1>0
  <2> QED BY <1>0, <2>1, TakenIsKept
<1>3. Shapes'
  <2>1. Len(Tail(queue[s])) <= QueueMax
    BY <1>0, <1>2
  <2>2. queue' \in [Bus!Sids -> Seq(Bus!Event)] /\ \A t \in Bus!Sids : Len(queue'[t]) <= QueueMax
    BY <1>0, <1>1, <1>2, <2>1 DEF Shapes
  <2>3. got' \in [Bus!Sids -> Seq(Bus!Event)]
    BY <1>0, <1>1, <1>2 DEF Shapes
  <2> QED BY <1>0, <1>1, <2>2, <2>3 DEF Shapes
<1>4. Remembers' /\ HandsApart' /\ BacklogsApart'
  <2>1. Remembers' /\ HandsApart'
    BY <1>0, <1>1 DEF Remembers, HandsApart
  <2>2. \A t \in Bus!Sids : InHands(t)' = InHands(t) /\ Bus!UnderWay(t)' = Bus!UnderWay(t)
    BY <1>1 DEF InHands, Bus!UnderWay
  <2>3. BacklogsApart'
    BY <1>0, <1>1, <2>2 DEF BacklogsApart
  <2> QED BY <2>1, <2>3
<1>5. Unmade'
  <2>1. \A t \in Bus!Sids : t >= nextId => t # s
    BY <1>0 DEF Unmade
  <2> QED BY <1>0, <1>1, <2>1 DEF Unmade, Shapes
<1>6. \A t \in Bus!Sids : got'[t] \o queue'[t] = got[t] \o queue[t]
  <2> TAKE t \in Bus!Sids
  <2>1. CASE t = s
    BY <1>0, <1>1, <1>2, <2>1 DEF Shapes
  <2>2. CASE t # s
    BY <1>0, <1>1, <2>2 DEF Shapes
  <2> QED BY <2>1, <2>2
<1>7. Complete'
  <2> SUFFICES ASSUME NEW t \in subs
               PROVE  /\ joined[t] # <<>> => joined[t][1].no \in 1..Len(published)
                      /\ Whole(got'[t] \o queue'[t], Bus!UnderWay(t), lost[t], Bus!FirstFor(t), Len(published))
    BY <1>1 DEF Complete, Bus!FirstFor, Bus!UnderWay
  <2>1. t \in Bus!Sids
    BY BusFacts
  <2> QED BY <1>0, <1>6, <2>1 DEF Complete
<1>8. Once' /\ JoinedFirst'
  <2>1. \A t \in subs : t \in Bus!Sids /\ Bus!UnderWay(t)' = Bus!UnderWay(t)
    BY <1>1, BusFacts DEF Bus!UnderWay
  <2>2. Once'
    BY <1>1, <1>6, <2>1 DEF BusInv, Once
  <2> QED BY <1>1, <2>2 DEF BusInv, JoinedFirst
<1> QED BY <1>3, <1>4, <1>5, <1>7, <1>8 DEF BusInv

\* unsubscribe: the queue is no longer registered.
LEMMA UnsubscribeKeeps ==
  ASSUME BusInv, NEW s \in Bus!Sids, Bus!Unsubscribe(s)
  PROVE  BusInv'
<1>1. subs' \subseteq subs /\ UNCHANGED <<history, nextId, queue, backlog, outbox, published, joined, got, lost>>
  BY DEF Bus!Unsubscribe, Bus!ghosts
<1>2. Shapes' /\ Remembers' /\ HandsApart' /\ Unmade'
  BY <1>1 DEF BusInv, Shapes, Remembers, HandsApart, Unmade
<1>3. \A t : InHands(t)' = InHands(t) /\ Bus!UnderWay(t)' = Bus!UnderWay(t) /\ Bus!FirstFor(t)' = Bus!FirstFor(t)
  BY <1>1 DEF InHands, Bus!UnderWay, Bus!FirstFor
<1>4. BacklogsApart'
  BY <1>1, <1>3 DEF BusInv, BacklogsApart
<1>5. Complete' /\ Once' /\ JoinedFirst'
  BY <1>1, <1>3 DEF BusInv, Complete, Once, JoinedFirst
<1> QED BY <1>2, <1>4, <1>5 DEF BusInv

\* A step of somebody else.
LEMMA StandingStillKeeps ==
  ASSUME BusInv, UNCHANGED Bus!vars
  PROVE  BusInv'
<1>1. UNCHANGED <<history, nextId, subs, queue, backlog, outbox, published, joined, got, lost>>
  BY DEF Bus!vars, Bus!busVars, Bus!ghosts
<1>2. Shapes' /\ Remembers' /\ HandsApart' /\ Unmade'
  BY <1>1 DEF BusInv, Shapes, Remembers, HandsApart, Unmade
<1>3. \A t : InHands(t)' = InHands(t) /\ Bus!UnderWay(t)' = Bus!UnderWay(t) /\ Bus!FirstFor(t)' = Bus!FirstFor(t)
  BY <1>1 DEF InHands, Bus!UnderWay, Bus!FirstFor
<1>4. BacklogsApart'
  BY <1>1, <1>3 DEF BusInv, BacklogsApart
<1>5. Complete' /\ Once' /\ JoinedFirst'
  BY <1>1, <1>3 DEF BusInv, Complete, Once, JoinedFirst
<1> QED BY <1>2, <1>4, <1>5 DEF BusInv

\* The bus's steps, publishers' and subscribers'.
LEMMA BusSteps ==
  Bus!Next <=> \/ \E p \in Callers \cup Launches : Bus!Deliver(p) \/ \E load \in Payloads : Bus!Publish(p, load)
               \/ Bus!SubscriberStep
  BY PTL DEF Bus!Next, Payloads, Types, Hows

\* The inductive invariant of the bus.
THEOREM BusInvariant == ASSUME Bus!EventBusConstants PROVE Bus!Spec => []BusInv
<1>1. Bus!Init => BusInv
  BY BusAtFirst
<1>2. BusInv /\ [Bus!Next]_(Bus!vars) => BusInv'
  BY PublishKeeps, DeliverKeeps, SubscribeKeeps, PutBacklogKeeps, GetKeeps, UnsubscribeKeeps,
     StandingStillKeeps, BusSteps DEF Bus!SubscriberStep
<1> QED BY <1>1, <1>2, PTL DEF Bus!Spec

\* Every variable keeps its type, and no queue exceeds its maxsize nor the history its
\* maxlen.
THEOREM BusTypeCorrect == ASSUME Bus!EventBusConstants PROVE Bus!Spec => []Bus!TypeOK
<1>1. BusInv => Bus!TypeOK
  BY DEF BusInv, Shapes, Bus!TypeOK, Outbox
<1> QED BY <1>1, BusInvariant, PTL

\* Nothing falls between a subscriber's backlog and its live feed, and nothing is in
\* both (the locked parts of publish and subscribe), however the puts of several
\* publishers and of the subscriber interleave after them.
THEOREM BusCorrect == ASSUME Bus!EventBusConstants PROVE Bus!Spec => []Bus!NothingBetween
<1>1. \A S : Bus!Cardinality(S) = Cardinality(S)
  BY DEF Cardinality, Bus!Cardinality
<1>2. BusInv => Bus!NothingBetween
  BY <1>1 DEF BusInv, Complete, Whole, Bus!NothingBetween
<1> QED BY <1>2, BusInvariant, PTL

---------------------------------------------------------------------------
(* What a step does to what the subscribers have, for the users of the bus. *)

\* A put: an event under way to s goes to the end of its queue or is dropped.
PutStep(s, e) ==
  /\ UNCHANGED <<subs, joined, published, got>>
  /\ e.no \in Bus!UnderWay(s)
  /\ \A t \in Bus!Sids : lost[t] \subseteq lost'[t]
  /\ \A t \in Bus!Sids : t # s => queue'[t] = queue[t]
  /\ queue'[s] = queue[s] \/ queue'[s] = Append(queue[s], e)
  /\ \A p \in Callers \cup Launches : outbox'[p].to \subseteq outbox[p].to /\ outbox'[p].event = outbox[p].event

\* The subscriber's other steps: what it has stays, and a new one has nothing.
QuietStep ==
  /\ UNCHANGED <<published, outbox, lost>>
  /\ \A s \in subs' : \/ s \in subs /\ got'[s] \o queue'[s] = got[s] \o queue[s] /\ joined'[s] = joined[s]
                      \/ got'[s] \o queue'[s] = <<>>

\* A delivery puts an event into one queue or drops it.
LEMMA DeliverIsPut ==
  ASSUME Bus!EventBusConstants, BusInv, NEW p \in Callers \cup Launches, Bus!Deliver(p)
  PROVE  \E s \in Bus!Sids, e \in Bus!Event : PutStep(s, e)
<1> DEFINE first == CHOOSE t \in outbox[p].to : \A u \in outbox[p].to : t <= u
<1>1. /\ outbox \in [Callers \cup Launches -> Outbox] /\ outbox[p].to # {} /\ outbox[p].event \in Bus!Event /\ MaxSids \in Nat
      /\ queue \in [Bus!Sids -> Seq(Bus!Event)] /\ lost \in [Bus!Sids -> SUBSET (Nat \ {0})]
  BY BusFacts DEF BusInv, Shapes, Bus!Deliver
<1>2. outbox[p] \in Outbox /\ outbox[p].to \subseteq Bus!Sids /\ outbox[p].to \subseteq Nat
  <2>1. outbox[p] \in Outbox
    BY <1>1
  <2> QED BY <1>1, <2>1 DEF Outbox, Bus!Sids
<1>3. first \in outbox[p].to
  BY <1>1, <1>2, LeastIsIn
<1>4. PICK s : s = first
  OBVIOUS
<1>5. PICK e : e = outbox[p].event
  OBVIOUS
<1> DEFINE o == [outbox[p] EXCEPT !.to = @ \ {s}]
<1>6. /\ outbox' = [outbox EXCEPT ![p] = o] /\ UNCHANGED <<subs, joined, published, got>>
      /\ Bus!Put(s, e)
  BY <1>4, <1>5 DEF Bus!Deliver
<1> HIDE DEF first
<1>7. o \in Outbox /\ o.event = outbox[p].event /\ o.to \subseteq outbox[p].to
  BY <1>2 DEF Outbox
<1> HIDE DEF o
<1>8. s \in Bus!Sids /\ e \in Bus!Event /\ e.no \in Bus!UnderWay(s)
  BY <1>1, <1>2, <1>3, <1>4, <1>5 DEF Bus!UnderWay
<1>9. \A q \in Callers \cup Launches : outbox'[q].to \subseteq outbox[q].to /\ outbox'[q].event = outbox[q].event
  BY <1>1, <1>6, <1>7
<1>10. /\ \A t \in Bus!Sids : lost[t] \subseteq lost'[t]
       /\ \A t \in Bus!Sids : t # s => queue'[t] = queue[t]
       /\ queue'[s] = queue[s] \/ queue'[s] = Append(queue[s], e)
  BY <1>1, <1>6, <1>8 DEF Bus!Put
<1> QED BY <1>6, <1>8, <1>9, <1>10 DEF PutStep

\* So does a put of the backlog.
LEMMA BacklogIsPut ==
  ASSUME Bus!EventBusConstants, BusInv, NEW s \in Bus!Sids, Bus!PutBacklog(s)
  PROVE  \E e \in Bus!Event : PutStep(s, e)
<1>1. /\ queue \in [Bus!Sids -> Seq(Bus!Event)] /\ lost \in [Bus!Sids -> SUBSET (Nat \ {0})] /\ backlog[s] \in Seq(Bus!Event)
      /\ backlog[s] # <<>> /\ Distinct(backlog[s])
  BY DEF BusInv, Shapes, BacklogsApart, Bus!PutBacklog
<1>2. PICK e : e = Head(backlog[s])
  OBVIOUS
<1>3. e \in Bus!Event /\ e.no \in Bus!UnderWay(s)
  BY <1>1, <1>2, NumbersOfTail DEF Bus!UnderWay
<1>4. UNCHANGED <<subs, joined, published, got, outbox>>
  BY DEF Bus!PutBacklog
<1>5. /\ \A t \in Bus!Sids : lost[t] \subseteq lost'[t]
      /\ \A t \in Bus!Sids : t # s => queue'[t] = queue[t]
      /\ queue'[s] = queue[s] \/ queue'[s] = Append(queue[s], e)
  BY <1>1, <1>2 DEF Bus!PutBacklog, Bus!Put
<1> QED BY <1>3, <1>4, <1>5 DEF PutStep

\* No other step of a subscriber puts anything.
LEMMA OthersAreQuiet ==
  ASSUME Bus!EventBusConstants, BusInv, Bus!Subscribe \/ \E s \in Bus!Sids : Bus!Get(s) \/ Bus!Unsubscribe(s)
  PROVE  QuietStep
<1>1. /\ subs \subseteq Bus!Sids /\ queue \in [Bus!Sids -> Seq(Bus!Event)] /\ got \in [Bus!Sids -> Seq(Bus!Event)]
      /\ joined \in [Bus!Sids -> Seq(Bus!Event)] /\ subs \subseteq 1..(nextId - 1) /\ nextId \in Nat
  BY BusFacts DEF BusInv, Shapes
<1>2. CASE Bus!Subscribe
  <2>1. /\ nextId \in Bus!Sids /\ subs' = subs \cup {nextId} /\ joined' = [joined EXCEPT ![nextId] = history]
        /\ UNCHANGED <<queue, got, published, outbox, lost>>
    BY <1>2 DEF Bus!Subscribe
  <2>2. queue[nextId] = <<>> /\ got[nextId] = <<>> /\ nextId \notin subs
    BY <1>1, <2>1 DEF BusInv, Unmade
  <2>3. got[nextId] \o queue[nextId] = <<>>
    BY <2>2
  <2> QED BY <1>1, <2>1, <2>2, <2>3 DEF QuietStep
<1>3. ASSUME NEW s \in Bus!Sids, Bus!Get(s)
      PROVE  QuietStep
  <2>1. /\ queue[s] # <<>> /\ UNCHANGED <<subs, joined, published, outbox, lost>>
        /\ got' = [got EXCEPT ![s] = Append(got[s], Head(queue[s]))]
        /\ queue' = [queue EXCEPT ![s] = Tail(queue[s])]
    BY <1>3 DEF Bus!Get
  <2>2. got'[s] = Append(got[s], Head(queue[s])) /\ queue'[s] = Tail(queue[s])
    BY <1>1, <2>1
  <2>3. got'[s] \o queue'[s] = got[s] \o queue[s]
    BY <1>1, <2>1, <2>2, TakenIsKept
  <2> QED BY <1>1, <2>1, <2>3 DEF QuietStep
<1>4. ASSUME NEW s \in Bus!Sids, Bus!Unsubscribe(s)
      PROVE  QuietStep
  BY <1>4 DEF Bus!Unsubscribe, Bus!ghosts, QuietStep
<1> QED BY <1>2, <1>3, <1>4

\* What is put at the end of the queue is put at the end of what the subscriber has.
LEMMA PutAtEnd ==
  ASSUME NEW g \in Seq(Bus!Event), NEW q \in Seq(Bus!Event), NEW e \in Bus!Event
  PROVE  /\ g \o q \in Seq(Bus!Event) /\ Len(g \o q) \in Nat
         /\ Len(g \o Append(q, e)) = Len(g \o q) + 1
         /\ (g \o Append(q, e))[Len(g \o q) + 1] = e
         /\ \A k \in 1..Len(g \o q) : (g \o Append(q, e))[k] = (g \o q)[k]
<1>1. Append(q, e) = q \o <<e>> /\ <<e>> \in Seq(Bus!Event) /\ g \o q \in Seq(Bus!Event)
  BY AppendIsConcat, ConcatProperties
<1>2. g \o Append(q, e) = Append(g \o q, e)
  BY <1>1, ConcatAssociative, AppendIsConcat
<1>3. Len(g \o q) \in Nat
  BY <1>1
<1> QED BY <1>1, <1>2, <1>3, AppendProperties

\* An event that a subscriber should see, and that is not under way, it has or has lost.
LEMMA SeenOrLost ==
  ASSUME Bus!EventBusConstants, BusInv, NEW s \in subs, NEW i \in 1..Len(published),
         joined[s] = <<>> \/ joined[s][Len(joined[s])].no < i, i \notin InHands(s)
  PROVE  i \in Bus!Numbers(got[s] \o queue[s]) \cup lost[s]
<1>1. s \in Bus!Sids /\ joined[s] \in Seq(Bus!Event) /\ backlog[s] \in Seq(Bus!Event) /\ Len(published) \in Nat
      /\ Bus!UnderWay(s) = Bus!Numbers(backlog[s]) \cup InHands(s)
  BY BusFacts
<1>2. i \notin Bus!Numbers(backlog[s])
  <2>1. CASE joined[s] = <<>>
    BY <1>1, <2>1 DEF BusInv, JoinedFirst
  <2>2. CASE joined[s] # <<>>
    <3>1. joined[s][Len(joined[s])] \in Bus!Event
      BY <1>1, <2>2
    <3>2. joined[s][Len(joined[s])].no < i /\ joined[s][Len(joined[s])].no \in Nat
      BY <2>2, <3>1, BusEvents
    <3>3. \A x \in Bus!Numbers(backlog[s]) : x <= joined[s][Len(joined[s])].no
      BY <1>1, <2>2 DEF BusInv, JoinedFirst
    <3> QED BY <3>2, <3>3
  <2> QED BY <2>1, <2>2
<1>3. i \in Bus!FirstFor(s)..Len(published)
  <2>1. CASE joined[s] = <<>>
    BY <1>1, <2>1 DEF Bus!FirstFor
  <2>2. CASE joined[s] # <<>>
    <3>1. joined[s][Len(joined[s])] \in Bus!Event /\ joined[s][1] \in Bus!Event
      BY <1>1, <2>2
    <3>2. joined[s][Len(joined[s])].no < i /\ joined[s][Len(joined[s])].no \in Nat /\ joined[s][1].no \in Nat
      BY <2>2, <3>1, BusEvents
    <3>3. joined[s][1].no <= joined[s][Len(joined[s])].no
      BY <1>1, <2>2 DEF BusInv, JoinedFirst
    <3>4. joined[s][1].no \in 1..Len(published)
      BY <2>2 DEF BusInv, Complete
    <3> QED BY <1>1, <2>2, <3>2, <3>3, <3>4 DEF Bus!FirstFor
  <2> QED BY <2>1, <2>2
<1>4. Bus!Numbers(got[s] \o queue[s]) \cup Bus!UnderWay(s) \cup lost[s] = Bus!FirstFor(s)..Len(published)
  BY DEF BusInv, Complete, Whole
<1> QED BY <1>1, <1>2, <1>3, <1>4

---------------------------------------------------------------------------
(* The threads. *)

Launching == {"flag", "announce", "plugins", "start"}
CallerPlaces == Launching \cup {"idle", "check", "mark", "set", "signal", "return"}
WorkerPlaces == {"none", "ready", "running", "clear", "announce", "done"}

Caller == [pc : CallerPlaces, run : RunIds \cup {NoRun}, launch : {0} \cup Launches, flag : {0} \cup Launches]
Work == [pc : WorkerPlaces, run : RunIds \cup {NoRun}, flag : {0} \cup Launches]

\* A call that launches has its own run thread, not started yet; one that stops has
\* found a run; and a thread that has started belongs to a launch.
Typed ==
  /\ launched \in 0..MaxLaunches
  /\ runs \in [RunIds -> 0..launched]
  /\ flags \in [RunIds -> 0..launched]
  /\ state \in [Launches -> {"none", "running", "stopping"} \cup Terminal]
  /\ caller \in [Callers -> Caller]
  /\ worker \in [Launches -> Work]

InHand ==
  \A c \in Callers :
    /\ caller[c].pc \in Launching =>
         /\ caller[c].launch \in 1..launched /\ caller[c].run \in RunIds /\ runs[caller[c].run] # 0
         /\ worker[caller[c].launch].pc = "none" /\ worker[caller[c].launch].run = caller[c].run
    /\ caller[c].pc = "check" => caller[c].run \in RunIds /\ runs[caller[c].run] # 0
    /\ caller[c].pc \in {"mark", "set", "signal"} => caller[c].launch \in 1..launched

Apart ==
  \A c, d \in Callers :
    caller[c].pc \in Launching /\ caller[d].pc \in Launching /\ caller[c].launch = caller[d].launch => c = d

Begun ==
  /\ \A l \in Launches : worker[l].pc # "none" => l \in 1..launched
  /\ \A l \in 1..launched : worker[l].run \in RunIds /\ runs[worker[l].run] # 0
  /\ \A r \in RunIds : flags[r] # 0 => runs[r] # 0

Threads == Typed /\ InHand /\ Apart /\ Begun

\* A thread's step to another place leaves the others where they are.
LEMMA CallerGoes ==
  ASSUME caller \in [Callers -> Caller], NEW c \in Callers, NEW p \in CallerPlaces, GoCaller(c, p)
  PROVE  /\ caller' \in [Callers -> Caller]
         /\ caller'[c].pc = p /\ caller'[c].run = caller[c].run
         /\ caller'[c].launch = caller[c].launch /\ caller'[c].flag = caller[c].flag
         /\ \A d \in Callers : d # c => caller'[d] = caller[d]
<1> DEFINE k == [caller[c] EXCEPT !.pc = p]
<1>1. caller' = [caller EXCEPT ![c] = k]
  BY DEF GoCaller
<1>2. caller[c] \in Caller
  OBVIOUS
<1>3. /\ k \in Caller /\ k.pc = p /\ k.run = caller[c].run
      /\ k.launch = caller[c].launch /\ k.flag = caller[c].flag
  BY <1>2 DEF Caller
<1> HIDE DEF k
<1> QED BY <1>1, <1>3

\* A step of a caller is its caller's alone.
LEMMA CallerTakes ==
  ASSUME caller \in [Callers -> Caller], NEW c \in Callers, NEW k \in Caller,
         caller' = [caller EXCEPT ![c] = k]
  PROVE  /\ caller' \in [Callers -> Caller] /\ caller'[c] = k
         /\ \A d \in Callers : d # c => caller'[d] = caller[d]
  OBVIOUS

\* A step of a worker is its run's alone.
LEMMA WorkerGoes ==
  ASSUME worker \in [Launches -> Work], NEW l \in Launches, NEW p \in WorkerPlaces, GoWorker(l, p)
  PROVE  /\ worker' \in [Launches -> Work]
         /\ worker'[l].pc = p /\ worker'[l].run = worker[l].run /\ worker'[l].flag = worker[l].flag
         /\ \A m \in Launches : m # l => worker'[m] = worker[m]
<1> DEFINE k == [worker[l] EXCEPT !.pc = p]
<1>1. worker' = [worker EXCEPT ![l] = k]
  BY DEF GoWorker
<1>2. worker[l] \in Work
  OBVIOUS
<1>3. k \in Work /\ k.pc = p /\ k.run = worker[l].run /\ k.flag = worker[l].flag
  BY <1>2 DEF Work
<1> HIDE DEF k
<1> QED BY <1>1, <1>3

\* A caller at rest is a caller.
LEMMA RestIsCaller == AtRest \in Caller /\ AtRest.pc = "idle"
  BY DEF AtRest, Caller, CallerPlaces

\* What each kind of step does to the threads, the rest being left as it is.
LEMMA LaunchStatusFacts ==
  ASSUME Threads, NEW c \in Callers, NEW r \in RunIds, LaunchStatus(c, r)
  PROVE  /\ launched' = launched + 1 /\ launched + 1 \in Launches /\ caller[c].pc = "idle"
         /\ runs' = [runs EXCEPT ![r] = launched + 1] /\ state' = [state EXCEPT ![launched + 1] = "running"]
         /\ caller' \in [Callers -> Caller]
         /\ caller'[c] = [pc |-> "flag", run |-> r, launch |-> launched + 1, flag |-> 0]
         /\ \A d \in Callers : d # c => caller'[d] = caller[d]
         /\ worker' \in [Launches -> Work]
         /\ worker'[launched + 1].run = r /\ worker'[launched + 1].pc = "none"
         /\ worker'[launched + 1].flag = worker[launched + 1].flag
         /\ \A l \in Launches : l # launched + 1 => worker'[l] = worker[l]
<1> DEFINE n == launched + 1
           k == [pc |-> "flag", run |-> r, launch |-> n, flag |-> 0]
           w == [worker[n] EXCEPT !.run = r]
<1>1. launched \in 0..MaxLaunches /\ MaxLaunches \in Nat /\ launched < MaxLaunches
  BY SurfaceConstants DEF Threads, Typed, LaunchStatus
<1>2. n \in Launches /\ launched' = n
  BY <1>1 DEF LaunchStatus, Launches
<1>3. /\ caller[c].pc = "idle" /\ runs' = [runs EXCEPT ![r] = n] /\ state' = [state EXCEPT ![n] = "running"]
      /\ caller' = [caller EXCEPT ![c] = k] /\ worker' = [worker EXCEPT ![n] = w]
  BY DEF LaunchStatus, CallerAt
<1>4. k \in Caller
  BY <1>2 DEF Caller, CallerPlaces, Launching
<1>5. worker[n].pc = "none"
  BY <1>1, <1>2 DEF Threads, Begun
<1>6. worker[n] \in Work
  BY <1>2 DEF Threads, Typed
<1>7. w \in Work /\ w.run = r /\ w.pc = "none" /\ w.flag = worker[n].flag
  BY <1>5, <1>6 DEF Work
<1>8. caller \in [Callers -> Caller] /\ worker \in [Launches -> Work]
  BY DEF Threads, Typed
<1> HIDE DEF n, k, w
<1>9. caller' \in [Callers -> Caller] /\ caller'[c] = k /\ \A d \in Callers : d # c => caller'[d] = caller[d]
  BY <1>3, <1>4, <1>8
<1>10. worker' \in [Launches -> Work] /\ worker'[n] = w /\ \A l \in Launches : l # n => worker'[l] = worker[l]
  BY <1>2, <1>3, <1>7, <1>8
<1> QED BY <1>2, <1>3, <1>7, <1>9, <1>10 DEF n, k

\* A step of a caller that changes neither the run threads nor the launches begun.
\* It goes from one place of a launch to the next, out of it, or moves a stop on.
CallerMoves(c) ==
  /\ UNCHANGED <<launched, runs, worker>>
  /\ caller' \in [Callers -> Caller]
  /\ \A d \in Callers : d # c => caller'[d] = caller[d]
  /\ caller'[c].pc \in Launching => /\ caller[c].pc \in Launching
                                   /\ caller'[c].launch = caller[c].launch /\ caller'[c].run = caller[c].run
  /\ caller'[c].pc = "check" => caller'[c].run \in RunIds /\ runs[caller'[c].run] # 0
  /\ caller'[c].pc \in {"mark", "set", "signal"} => caller'[c].launch \in 1..launched

\* A step of a caller keeps the types.
LEMMA CallerMovesKeep ==
  ASSUME Threads, NEW c \in Callers, CallerMoves(c),
         flags' \in [RunIds -> 0..launched], \A r \in RunIds : flags'[r] # 0 => runs[r] # 0,
         state' \in [Launches -> {"none", "running", "stopping"} \cup Terminal]
  PROVE  Threads'
<1>1. Typed'
  BY DEF Threads, Typed, CallerMoves
<1>2. InHand'
  BY DEF Threads, InHand, CallerMoves
<1>3. Apart'
  BY DEF Threads, Apart, CallerMoves
<1>4. Begun'
  BY DEF Threads, Begun, CallerMoves
<1> QED BY <1>1, <1>2, <1>3, <1>4 DEF Threads

\* The steps that leave the run threads: all of stop, and launch but for its two ends.
MovesOn(c) ==
  \/ LaunchFlag(c) \/ LaunchAnnounce(c) \/ LaunchPlugins(c)
  \/ \E r \in RunIds : StopFlag(c, r)
  \/ StopCheck(c) \/ StopMark(c) \/ StopSet(c) \/ StopSignal(c) \/ StopReturn(c)

\* So does a step within launch or stop.
LEMMA MovesOnKeeps ==
  ASSUME Threads, NEW c \in Callers, MovesOn(c)
  PROVE  /\ CallerMoves(c) /\ Threads'
         /\ flags' \in {flags, [flags EXCEPT ![caller[c].run] = caller[c].launch]}
<1>0. /\ caller \in [Callers -> Caller] /\ caller[c] \in Caller /\ launched \in 0..MaxLaunches
      /\ flags \in [RunIds -> 0..launched] /\ runs \in [RunIds -> 0..launched]
      /\ state \in [Launches -> {"none", "running", "stopping"} \cup Terminal]
      /\ MaxLaunches \in Nat /\ 1..launched \subseteq Launches
      /\ \A r \in RunIds : flags[r] # 0 => runs[r] # 0
  BY SurfaceConstants DEF Threads, Typed, Begun, Launches
<1>1. CASE LaunchFlag(c)
  <2>1. caller[c].pc = "flag" /\ GoCaller(c, "announce") /\ UNCHANGED <<runs, state, launched, worker>>
    BY <1>1 DEF LaunchFlag, CallerAt
  <2>2. CallerMoves(c)
    BY <1>0, <2>1, CallerGoes DEF CallerMoves, Launching, CallerPlaces
  <2>3. /\ caller[c].launch \in 1..launched /\ caller[c].run \in RunIds /\ runs[caller[c].run] # 0
    BY <2>1 DEF Threads, InHand, Launching
  <2>4. flags' = [flags EXCEPT ![caller[c].run] = caller[c].launch]
    BY <1>1 DEF LaunchFlag
  <2>5. caller[c].launch \in 0..launched
    BY <1>0, <2>3
  <2>6. flags' \in [RunIds -> 0..launched] /\ \A r \in RunIds : flags'[r] # 0 => runs[r] # 0
    BY <1>0, <2>3, <2>4, <2>5
  <2> QED BY <1>0, <2>1, <2>2, <2>4, <2>6, CallerMovesKeep
<1>2. ASSUME NEW p \in {"plugins", "start"}, GoCaller(c, p), caller[c].pc \in Launching,
             UNCHANGED <<runs, flags, state, launched, worker>>
      PROVE  CallerMoves(c) /\ Threads'
  <2>1. CallerMoves(c)
    BY <1>0, <1>2, CallerGoes DEF CallerMoves, Launching, CallerPlaces
  <2> QED BY <1>0, <1>2, <2>1, CallerMovesKeep
<1>3. CASE LaunchAnnounce(c) \/ LaunchPlugins(c)
  BY <1>2, <1>3 DEF LaunchAnnounce, LaunchPlugins, CallerAt, Launching, surfaceVars
<1>4. ASSUME NEW r \in RunIds, StopFlag(c, r)
      PROVE  CallerMoves(c) /\ Threads'
  <2> DEFINE k == [pc |-> "check", run |-> r, launch |-> 0, flag |-> flags[r]]
  <2>1. flags[r] \in 0..launched /\ flags[r] # 0
    BY <1>0, <1>4 DEF StopFlag
  <2>2. k \in Caller
    BY <1>0, <2>1 DEF Caller, CallerPlaces
  <2>3. caller' = [caller EXCEPT ![c] = k] /\ UNCHANGED <<runs, flags, state, launched, worker>>
    BY <1>4 DEF StopFlag, surfaceVars
  <2>4. k.pc = "check" /\ k.run = r /\ runs[r] # 0
    BY <1>0, <2>1
  <2> HIDE DEF k
  <2>5. CallerMoves(c)
    BY <1>0, <2>2, <2>3, <2>4, CallerTakes DEF CallerMoves, Launching
  <2> QED BY <1>0, <2>3, <2>5, CallerMovesKeep
<1>5. CASE StopCheck(c)
  <2> DEFINE l == runs[caller[c].run]
             k == IF state[l] = "running" THEN [caller[c] EXCEPT !.pc = "mark", !.launch = l] ELSE AtRest
  <2>1. caller' = [caller EXCEPT ![c] = k] /\ UNCHANGED <<runs, flags, state, launched, worker>>
    BY <1>5 DEF StopCheck, surfaceVars
  <2>2. caller[c].run \in RunIds /\ l # 0 /\ l \in 0..launched
    BY <1>0, <1>5 DEF StopCheck, CallerAt, Threads, InHand
  <2>3. l \in 1..launched /\ l \in Launches
    BY <1>0, <2>2
  <2> HIDE DEF l
  <2>4. k \in Caller /\ (k = AtRest \/ (k.pc = "mark" /\ k.launch = l))
    <3>1. CASE state[l] = "running"
      <4>1. k = [caller[c] EXCEPT !.pc = "mark", !.launch = l]
        BY <3>1
      <4> HIDE DEF k
      <4> QED BY <1>0, <2>3, <4>1 DEF Caller, CallerPlaces
    <3>2. CASE state[l] # "running"
      <4>1. k = AtRest
        BY <3>2
      <4>2. AtRest \in Caller
        BY RestIsCaller
      <4> HIDE DEF k
      <4> QED BY <4>1, <4>2
    <3> HIDE DEF k
    <3> QED BY <3>1, <3>2
  <2> HIDE DEF k
  <2>5. CallerMoves(c)
    BY <1>0, <2>1, <2>3, <2>4, CallerTakes, RestIsCaller DEF CallerMoves, Launching
  <2> QED BY <1>0, <2>1, <2>5, CallerMovesKeep
<1>6. ASSUME NEW p \in {"set", "signal", "return"}, GoCaller(c, p),
             p # "return" => caller[c].pc \in {"mark", "set"},
             UNCHANGED <<runs, flags, launched, worker>>,
             state' \in [Launches -> {"none", "running", "stopping"} \cup Terminal]
      PROVE  CallerMoves(c) /\ Threads'
  <2>1. p # "return" => caller[c].launch \in 1..launched
    BY <1>6 DEF Threads, InHand
  <2>2. CallerMoves(c)
    BY <1>0, <1>6, <2>1, CallerGoes DEF CallerMoves, Launching, CallerPlaces
  <2> QED BY <1>0, <1>6, <2>2, CallerMovesKeep
<1>7. CASE StopMark(c)
  <2>1. /\ GoCaller(c, "set") /\ caller[c].pc = "mark" /\ UNCHANGED <<runs, flags, launched, worker>>
        /\ state' = [state EXCEPT ![caller[c].launch] = "stopping"]
    BY <1>7 DEF StopMark, CallerAt
  <2> QED BY <1>0, <1>6, <2>1
<1>8. CASE StopSet(c) \/ StopSignal(c)
  BY <1>0, <1>6, <1>8 DEF StopSet, StopSignal, CallerAt, surfaceVars
<1>9. CASE StopReturn(c)
  <2>1. caller' = [caller EXCEPT ![c] = AtRest] /\ UNCHANGED <<runs, flags, state, launched, worker>>
    BY <1>9 DEF StopReturn, surfaceVars
  <2>2. CallerMoves(c)
    BY <1>0, <2>1, RestIsCaller, CallerTakes DEF CallerMoves, Launching
  <2> QED BY <1>0, <2>1, <2>2, CallerMovesKeep
<1>10. ~LaunchFlag(c) => flags' = flags
  BY DEF MovesOn, LaunchAnnounce, LaunchPlugins, StopFlag, StopCheck, StopMark, StopSet, StopSignal,
         StopReturn, surfaceVars
<1> QED BY <1>1, <1>3, <1>4, <1>5, <1>7, <1>8, <1>9, <1>10 DEF MovesOn

\* A step of a run thread.
WorkerMoves(l) ==
  /\ UNCHANGED <<launched, runs, flags, caller>>
  /\ worker[l].pc \notin {"none", "done"} /\ worker' \in [Launches -> Work]
  /\ worker'[l].pc \notin {"none", "ready"} /\ worker'[l].run = worker[l].run
  /\ worker'[l].flag = IF worker[l].pc = "ready" THEN flags[worker[l].run] ELSE worker[l].flag
  /\ \A m \in Launches : m # l => worker'[m] = worker[m]

\* So does a step of a run thread.
LEMMA WorkerMovesKeep ==
  ASSUME Threads, NEW l \in Launches, Worker(l)
  PROVE  /\ WorkerMoves(l) /\ Threads'
         /\ \/ state' = state
            \/ \E how \in Terminal : state' = [state EXCEPT ![l] = how]
<1>0. /\ worker \in [Launches -> Work] /\ worker[l] \in Work /\ launched \in 0..MaxLaunches
      /\ flags \in [RunIds -> 0..launched] /\ MaxLaunches \in Nat
      /\ state \in [Launches -> {"none", "running", "stopping"} \cup Terminal]
  BY SurfaceConstants DEF Threads, Typed
<1>1. WorkerMoves(l)
  <2>1. CASE RunBegin(l)
    <3> DEFINE w == [worker[l] EXCEPT !.pc = "running", !.flag = flags[worker[l].run]]
    <3>1. worker[l].pc = "ready" /\ worker' = [worker EXCEPT ![l] = w] /\ UNCHANGED <<launched, runs, flags, caller>>
      BY <2>1 DEF RunBegin, WorkerAt, surfaceVars
    <3>2. worker[l].run \in RunIds
      BY <3>1 DEF Threads, Begun
    <3>3. flags[worker[l].run] \in {0} \cup Launches
      BY <1>0, <3>2 DEF Launches
    <3>4. w \in Work /\ w.pc = "running" /\ w.run = worker[l].run /\ w.flag = flags[worker[l].run]
      BY <1>0, <3>3 DEF Work, WorkerPlaces
    <3> HIDE DEF w
    <3> QED BY <1>0, <3>1, <3>4 DEF WorkerMoves
  <2>2. CASE RunTick(l)
    BY <1>0, <2>2 DEF RunTick, WorkerAt, surfaceVars, WorkerMoves
  <2>3. ASSUME NEW p \in {"clear", "announce", "done"}, GoWorker(l, p),
               worker[l].pc \notin {"none", "ready", "done"}, UNCHANGED <<launched, runs, flags, caller>>
        PROVE  WorkerMoves(l)
    BY <1>0, <2>3, WorkerGoes DEF WorkerMoves, WorkerPlaces
  <2>4. CASE RunEnd(l) \/ RunClear(l) \/ RunAnnounce(l)
    BY <2>3, <2>4 DEF RunEnd, RunClear, RunAnnounce, WorkerAt, surfaceVars
  <2> QED BY <2>1, <2>2, <2>4 DEF Worker
<1>2. \/ state' = state
      \/ \E how \in Terminal : state' = [state EXCEPT ![l] = how]
  BY DEF Worker, RunBegin, RunTick, RunEnd, RunClear, RunAnnounce, surfaceVars
<1>3. state' \in [Launches -> {"none", "running", "stopping"} \cup Terminal]
  BY <1>0, <1>2
<1>4. Typed'
  BY <1>1, <1>3 DEF Threads, Typed, WorkerMoves
<1>5. InHand'
  <2>1. \A c \in Callers : caller[c].pc \in Launching =>
          caller[c].launch \in Launches /\ caller[c].launch # l
    BY <1>0, <1>1 DEF Threads, InHand, WorkerMoves, Launches
  <2>2. \A c \in Callers : caller[c].pc \in Launching =>
          worker'[caller[c].launch] = worker[caller[c].launch]
    BY <1>1, <2>1 DEF WorkerMoves
  <2> QED BY <1>1, <2>2 DEF Threads, InHand, WorkerMoves
<1>6. Apart'
  BY <1>1 DEF Threads, Apart, WorkerMoves
<1>7. Begun'
  <2>1. 1..launched \subseteq Launches /\ l \in 1..launched
    BY <1>0, <1>1 DEF Threads, Begun, WorkerMoves, Launches
  <2>2. \A m \in Launches : /\ worker'[m].run = worker[m].run
                            /\ worker'[m].pc # "none" => m = l \/ worker[m].pc # "none"
    BY <1>1 DEF WorkerMoves
  <2>3. launched' = launched /\ runs' = runs /\ flags' = flags
    BY <1>1 DEF WorkerMoves
  <2>4. /\ \A m \in Launches : worker[m].pc # "none" => m \in 1..launched
        /\ \A m \in 1..launched : worker[m].run \in RunIds /\ runs[worker[m].run] # 0
        /\ \A r \in RunIds : flags[r] # 0 => runs[r] # 0
    BY DEF Threads, Begun
  <2>5. \A m \in Launches : worker'[m].pc # "none" => m \in 1..launched
    <3> TAKE m \in Launches
    <3>1. worker'[m].pc # "none" => m = l \/ worker[m].pc # "none"
      BY <2>2
    <3>2. worker[m].pc # "none" => m \in 1..launched
      BY <2>4
    <3> QED BY <2>1, <3>1, <3>2
  <2>6. \A m \in 1..launched : worker'[m].run \in RunIds /\ runs[worker'[m].run] # 0
    <3> TAKE m \in 1..launched
    <3>1. worker'[m].run = worker[m].run
      BY <2>1, <2>2
    <3>2. worker[m].run \in RunIds /\ runs[worker[m].run] # 0
      BY <2>4
    <3> QED BY <3>1, <3>2
  <2> QED BY <2>3, <2>4, <2>5, <2>6 DEF Begun
<1>8. Threads'
  BY <1>4, <1>5, <1>6, <1>7 DEF Threads
<1> QED BY <1>1, <1>2, <1>8

\* The end of launch: the thread is started and the call returns.
LEMMA LaunchStartKeeps ==
  ASSUME Threads, NEW c \in Callers, LaunchStart(c)
  PROVE  /\ Threads' /\ caller[c].pc = "start" /\ caller[c].launch \in 1..launched
         /\ UNCHANGED <<launched, runs, flags, state>>
         /\ worker[caller[c].launch].pc = "none" /\ worker'[caller[c].launch].pc = "ready"
         /\ \A l \in Launches : l # caller[c].launch => worker'[l] = worker[l]
         /\ \A l \in Launches : worker'[l].run = worker[l].run /\ worker'[l].flag = worker[l].flag
         /\ caller'[c] = AtRest /\ \A d \in Callers : d # c => caller'[d] = caller[d]
<1> DEFINE n == caller[c].launch
<1>0. /\ worker \in [Launches -> Work] /\ caller \in [Callers -> Caller]
      /\ launched \in 0..MaxLaunches /\ MaxLaunches \in Nat
  BY SurfaceConstants DEF Threads, Typed
<1>1. /\ caller[c].pc = "start" /\ GoWorker(n, "ready") /\ caller' = [caller EXCEPT ![c] = AtRest]
      /\ UNCHANGED <<launched, runs, flags, state>>
  BY DEF LaunchStart, CallerAt, surfaceVars
<1>2. n \in 1..launched /\ worker[n].pc = "none"
  BY <1>1 DEF Threads, InHand, Launching
<1>3. n \in Launches
  BY <1>0, <1>2 DEF Launches
<1> HIDE DEF n
<1>4. /\ worker' \in [Launches -> Work] /\ worker'[n].pc = "ready"
      /\ worker'[n].run = worker[n].run /\ worker'[n].flag = worker[n].flag
      /\ \A l \in Launches : l # n => worker'[l] = worker[l]
  BY <1>0, <1>1, <1>3, WorkerGoes DEF WorkerPlaces
<1>5. /\ caller' \in [Callers -> Caller] /\ caller'[c] = AtRest /\ AtRest.pc = "idle"
      /\ \A d \in Callers : d # c => caller'[d] = caller[d]
  BY <1>0, <1>1, RestIsCaller, CallerTakes
<1>6. Typed'
  BY <1>1, <1>4, <1>5 DEF Threads, Typed
<1>7. InHand'
  <2> SUFFICES ASSUME NEW d \in Callers
               PROVE  /\ caller'[d].pc \in Launching =>
                           /\ caller'[d].launch \in 1..launched /\ caller'[d].run \in RunIds /\ runs[caller'[d].run] # 0
                           /\ worker'[caller'[d].launch].pc = "none" /\ worker'[caller'[d].launch].run = caller'[d].run
                      /\ caller'[d].pc = "check" => caller'[d].run \in RunIds /\ runs[caller'[d].run] # 0
                      /\ caller'[d].pc \in {"mark", "set", "signal"} => caller'[d].launch \in 1..launched
    BY <1>1 DEF InHand
  <2>1. CASE d = c
    BY <1>5, <2>1 DEF Launching
  <2>2. CASE d # c
    <3>1. caller'[d] = caller[d]
      BY <1>5, <2>2
    <3>2. caller[d].pc \in Launching => caller[d].launch # n
      BY <1>1, <2>2 DEF Threads, Apart, Launching, n
    <3>3. caller[d].pc \in Launching => caller[d].launch \in Launches
      BY <1>0 DEF Threads, InHand, Launches
    <3> QED BY <1>4, <3>1, <3>2, <3>3 DEF Threads, InHand
  <2> QED BY <2>1, <2>2
<1>8. Apart'
  BY <1>5 DEF Threads, Apart, Launching
<1>9. Begun'
  <2>1. \A l \in Launches : worker'[l].run = worker[l].run
    BY <1>4
  <2>2. 1..launched \subseteq Launches
    BY <1>0 DEF Launches
  <2> QED BY <1>1, <1>2, <1>4, <2>1, <2>2 DEF Threads, Begun
<1> QED BY <1>1, <1>2, <1>4, <1>5, <1>6, <1>7, <1>8, <1>9 DEF Threads, n

\* The beginning of launch.
LEMMA LaunchStatusKeeps ==
  ASSUME Threads, NEW c \in Callers, NEW r \in RunIds, LaunchStatus(c, r)
  PROVE  Threads'
<1> DEFINE n == launched + 1
           k == [pc |-> "flag", run |-> r, launch |-> n, flag |-> 0]
<1>0. /\ launched \in 0..MaxLaunches /\ MaxLaunches \in Nat
      /\ runs \in [RunIds -> 0..launched] /\ flags \in [RunIds -> 0..launched]
      /\ state \in [Launches -> {"none", "running", "stopping"} \cup Terminal]
      /\ caller \in [Callers -> Caller] /\ worker \in [Launches -> Work]
  BY SurfaceConstants DEF Threads, Typed
<1>1. /\ launched' = n /\ n \in Launches /\ caller[c].pc = "idle"
      /\ runs' = [runs EXCEPT ![r] = n] /\ state' = [state EXCEPT ![n] = "running"]
      /\ caller' \in [Callers -> Caller] /\ caller'[c] = k
      /\ \A d \in Callers : d # c => caller'[d] = caller[d]
      /\ worker' \in [Launches -> Work] /\ worker'[n].run = r /\ worker'[n].pc = "none"
      /\ \A l \in Launches : l # n => worker'[l] = worker[l]
  BY LaunchStatusFacts
<1>2. flags' = flags
  BY DEF LaunchStatus
<1>3. n \in 1..n /\ n # 0 /\ n \in 0..n /\ 0..launched \subseteq 0..n /\ n \notin 1..launched
      /\ 1..n = 1..launched \cup {n} /\ 1..launched \subseteq Launches /\ n \in 0..MaxLaunches
  BY <1>0, <1>1 DEF Launches
<1>4. k.pc = "flag" /\ k.run = r /\ k.launch = n
  OBVIOUS
<1> HIDE DEF n, k
<1>5. /\ runs' \in [RunIds -> 0..n] /\ flags' \in [RunIds -> 0..n]
      /\ \A x \in RunIds : runs[x] # 0 => runs'[x] # 0
      /\ runs'[r] # 0
  BY <1>0, <1>1, <1>2, <1>3
<1>6. Typed'
  <2>1. state' \in [Launches -> {"none", "running", "stopping"} \cup Terminal]
    BY <1>0, <1>1
  <2> QED BY <1>1, <1>3, <1>5, <2>1 DEF Typed
<1>7. InHand'
  <2> SUFFICES ASSUME NEW d \in Callers
               PROVE  /\ caller'[d].pc \in Launching =>
                           /\ caller'[d].launch \in 1..n /\ caller'[d].run \in RunIds /\ runs'[caller'[d].run] # 0
                           /\ worker'[caller'[d].launch].pc = "none" /\ worker'[caller'[d].launch].run = caller'[d].run
                      /\ caller'[d].pc = "check" => caller'[d].run \in RunIds /\ runs'[caller'[d].run] # 0
                      /\ caller'[d].pc \in {"mark", "set", "signal"} => caller'[d].launch \in 1..n
    BY <1>1 DEF InHand
  <2>1. CASE d = c
    BY <1>1, <1>3, <1>4, <1>5, <2>1 DEF Launching
  <2>2. CASE d # c
    <3>1. caller'[d] = caller[d]
      BY <1>1, <2>2
    <3>2. caller[d].pc \in Launching => /\ caller[d].launch # n /\ caller[d].launch \in Launches
                                       /\ caller[d].launch \in 1..n
      BY <1>3 DEF Threads, InHand
    <3>3. caller[d].pc \in Launching =>
            worker'[caller[d].launch].pc = "none" /\ worker'[caller[d].launch].run = caller[d].run
      BY <1>1, <3>2 DEF Threads, InHand
    <3>4. caller[d].pc \in Launching => caller[d].run \in RunIds /\ runs'[caller[d].run] # 0
      BY <1>5 DEF Threads, InHand
    <3>5. caller[d].pc = "check" => caller[d].run \in RunIds /\ runs'[caller[d].run] # 0
      BY <1>5 DEF Threads, InHand
    <3>6. caller[d].pc \in {"mark", "set", "signal"} => caller[d].launch \in 1..n
      BY <1>3 DEF Threads, InHand
    <3> QED BY <3>1, <3>2, <3>3, <3>4, <3>5, <3>6
  <2> QED BY <2>1, <2>2
<1>8. Apart'
  <2>1. \A d \in Callers : d # c /\ caller'[d].pc \in Launching => caller'[d].launch # n
    BY <1>1, <1>3 DEF Threads, InHand
  <2> QED BY <1>1, <1>4, <2>1 DEF Threads, Apart
<1>9. Begun'
  <2>1. \A l \in Launches : worker'[l].pc # "none" => l \in 1..n
    BY <1>1, <1>3 DEF Threads, Begun
  <2>2. \A l \in 1..n : worker'[l].run \in RunIds /\ runs'[worker'[l].run] # 0
    BY <1>1, <1>3, <1>5 DEF Threads, Begun
  <2>3. \A x \in RunIds : flags'[x] # 0 => runs'[x] # 0
    BY <1>2, <1>5 DEF Threads, Begun
  <2> QED BY <1>1, <2>1, <2>2, <2>3 DEF Begun
<1> QED BY <1>6, <1>7, <1>8, <1>9 DEF Threads

\* The steps of the module, by what they do to the threads.
LEMMA StepKinds ==
  ASSUME [Next]_vars
  PROVE  \/ \E c \in Callers, r \in RunIds : LaunchStatus(c, r)
         \/ \E c \in Callers : MovesOn(c) \/ LaunchStart(c)
         \/ \E l \in Launches : Worker(l)
         \/ UNCHANGED <<surfaceVars, caller, worker>>
  BY DEF Next, Launch, Stop, MovesOn, Deliver, Subscriber, vars

\* No thread and no call is under way at first.
LEMMA ThreadsAtFirst == ASSUME Init PROVE Threads
<1>1. Typed
  BY SurfaceConstants, RestIsCaller DEF Init, Typed, Work, WorkerPlaces, Launches
<1>2. \A c \in Callers : caller[c].pc = "idle"
  BY RestIsCaller DEF Init
<1>3. launched = 0 /\ \A l \in Launches : worker[l].pc = "none"
  BY DEF Init
<1>4. \A r \in RunIds : flags[r] = 0
  BY DEF Init
<1> QED BY <1>1, <1>2, <1>3, <1>4 DEF Threads, InHand, Apart, Begun, Launching

\* Every thread is where its dictionaries say it is.
LEMMA ThreadsKept == Spec => []Threads
<1>1. Init => Threads
  BY ThreadsAtFirst
<1>2. Threads /\ [Next]_vars => Threads'
  <2> SUFFICES ASSUME Threads, [Next]_vars PROVE Threads'
    OBVIOUS
  <2>1. CASE UNCHANGED <<surfaceVars, caller, worker>>
    BY <2>1 DEF surfaceVars, Threads, Typed, InHand, Apart, Begun
  <2> QED BY <2>1, StepKinds, LaunchStatusKeeps, MovesOnKeeps, LaunchStartKeeps, WorkerMovesKeep
<1> QED BY <1>1, <1>2, PTL DEF Spec

---------------------------------------------------------------------------
(* stop() reaches the runner.  With one launch to a run id (Reuse is FALSE *)
(* in the run that checks it) a run id names one launch and one Event for  *)
(* good, whenever the two dictionaries are read.                           *)

\* Who holds which Event: a run id's status and its flag are of one launch, a runner
\* has its own flag, and a stop under way has the flag of the run it marks.
Flagged ==
  /\ \A l \in 1..launched : runs[worker[l].run] = l
  /\ \A r \in RunIds : flags[r] \in {0, runs[r]}
  /\ \A c \in Callers : caller[c].pc \in {"announce", "plugins", "start"} =>
                          flags[caller[c].run] = caller[c].launch
  /\ \A l \in Launches : worker[l].pc # "none" => flags[worker[l].run] = l
  /\ \A l \in Launches : worker[l].pc \notin {"none", "ready"} => worker[l].flag = l

Stopping ==
  \A c \in Callers :
    /\ caller[c].pc \in {"check", "mark", "set"} =>
         caller[c].run \in RunIds /\ caller[c].flag # 0 /\ caller[c].flag = runs[caller[c].run]
    /\ caller[c].pc \in {"mark", "set"} => caller[c].launch = caller[c].flag

\* A marked run's Event is set, or the stop that marked it is about to set it.
Marked ==
  \A l \in Launches :
    state[l] = "stopping" => l \in set \/ \E c \in Callers : caller[c].pc = "set" /\ caller[c].launch = l

Reached == Threads /\ Flagged /\ Stopping /\ Marked

\* What a step of stop does to the caller.
LEMMA StopMoves ==
  ASSUME Threads, NEW c \in Callers, MovesOn(c)
  PROVE  /\ caller'[c].pc = "check" =>
              /\ caller'[c].run \in RunIds /\ flags[caller'[c].run] # 0
              /\ caller'[c].flag = flags[caller'[c].run]
         /\ caller'[c].pc \in {"mark", "set"} =>
              /\ caller[c].pc \in {"check", "mark"}
              /\ caller'[c].run = caller[c].run /\ caller'[c].flag = caller[c].flag
              /\ caller'[c].launch = IF caller[c].pc = "check" THEN runs[caller[c].run] ELSE caller[c].launch
         /\ caller'[c].pc \in {"announce", "plugins", "start"} =>
              /\ caller[c].pc = "flag" => flags' = [flags EXCEPT ![caller[c].run] = caller[c].launch]
              /\ caller[c].pc # "flag" => caller[c].pc \in {"announce", "plugins"} /\ flags' = flags
              /\ caller'[c].run = caller[c].run /\ caller'[c].launch = caller[c].launch
         /\ IF caller[c].pc = "mark" THEN state' = [state EXCEPT ![caller[c].launch] = "stopping"] /\ caller'[c].pc = "set"
                                     ELSE state' = state
         /\ IF caller[c].pc = "set" THEN set' = set \cup {caller[c].flag} ELSE set' = set
<1>0. caller \in [Callers -> Caller] /\ caller[c] \in Caller
  BY DEF Threads, Typed
<1>1. CASE LaunchFlag(c)
  BY <1>0, <1>1, CallerGoes DEF LaunchFlag, CallerAt, CallerPlaces, Launching
<1> DEFINE Goes(p) == /\ caller'[c].pc = p /\ caller'[c].run = caller[c].run
                      /\ caller'[c].launch = caller[c].launch /\ caller'[c].flag = caller[c].flag
<1>a. \A p \in CallerPlaces : GoCaller(c, p) => Goes(p)
  BY <1>0, CallerGoes
<1>2. CASE LaunchAnnounce(c) \/ LaunchPlugins(c)
  <2>1. /\ caller[c].pc \in {"announce", "plugins"} /\ UNCHANGED <<flags, state, set>>
        /\ GoCaller(c, "plugins") \/ GoCaller(c, "start")
    BY <1>2 DEF LaunchAnnounce, LaunchPlugins, CallerAt, surfaceVars
  <2>2. Goes("plugins") \/ Goes("start")
    BY <1>a, <2>1 DEF CallerPlaces, Launching
  <2> QED BY <2>1, <2>2
<1>3. ASSUME NEW r \in RunIds, StopFlag(c, r)
      PROVE  /\ caller[c].pc = "idle" /\ caller'[c].pc = "check" /\ caller'[c].run = r /\ flags[r] # 0
             /\ caller'[c].flag = flags[r] /\ UNCHANGED <<state, set>>
  BY <1>0, <1>3 DEF StopFlag, CallerAt, surfaceVars
<1>4. CASE StopCheck(c)
  <2> DEFINE l == runs[caller[c].run]
  <2>1. caller[c].pc = "check" /\ UNCHANGED <<state, set>>
    BY <1>4 DEF StopCheck, CallerAt, surfaceVars
  <2>2. CASE state[l] = "running"
    <3>1. caller'[c] = [caller[c] EXCEPT !.pc = "mark", !.launch = l]
      BY <1>0, <1>4, <2>2 DEF StopCheck
    <3> HIDE DEF l
    <3>2. caller'[c].pc = "mark" /\ caller'[c].run = caller[c].run /\ caller'[c].flag = caller[c].flag
          /\ caller'[c].launch = l
      BY <1>0, <3>1 DEF Caller
    <3> QED BY <2>1, <3>2 DEF l
  <2>3. CASE state[l] # "running"
    <3>1. caller'[c] = AtRest
      BY <1>0, <1>4, <2>3 DEF StopCheck
    <3> QED BY <2>1, <3>1, RestIsCaller
  <2> QED BY <2>2, <2>3
<1>5. CASE StopMark(c) \/ StopSet(c) \/ StopSignal(c)
  <2>1. CASE StopMark(c)
    <3>1. caller[c].pc = "mark" /\ Goes("set")
      BY <1>a, <2>1 DEF StopMark, CallerAt, CallerPlaces
    <3> QED BY <2>1, <3>1 DEF StopMark
  <2>2. CASE StopSet(c)
    <3>1. caller[c].pc = "set" /\ Goes("signal")
      BY <1>a, <2>2 DEF StopSet, CallerAt, CallerPlaces
    <3> QED BY <2>2, <3>1 DEF StopSet
  <2>3. CASE StopSignal(c)
    <3>1. caller[c].pc = "signal" /\ Goes("return")
      BY <1>a, <2>3 DEF StopSignal, CallerAt, CallerPlaces
    <3> QED BY <2>3, <3>1 DEF StopSignal, surfaceVars
  <2> QED BY <1>5, <2>1, <2>2, <2>3
<1>6. CASE StopReturn(c)
  <2>1. caller'[c] = AtRest /\ caller[c].pc = "return" /\ UNCHANGED <<state, set>>
    BY <1>0, <1>6 DEF StopReturn, CallerAt, surfaceVars
  <2> QED BY <2>1, RestIsCaller
<1> QED BY <1>1, <1>2, <1>3, <1>4, <1>5, <1>6 DEF MovesOn

\* A step within launch or stop keeps the flags reachable.
LEMMA MovesOnReaches ==
  ASSUME Reached, NEW c \in Callers, MovesOn(c)
  PROVE  Reached'
<1>0. /\ CallerMoves(c) /\ Threads /\ Threads' /\ launched \in 0..MaxLaunches /\ MaxLaunches \in Nat
      /\ flags' \in {flags, [flags EXCEPT ![caller[c].run] = caller[c].launch]}
      /\ flags \in [RunIds -> 0..launched]
  BY MovesOnKeeps, SurfaceConstants DEF Reached, Threads, Typed
<1>1. 1..launched \subseteq Launches
  BY <1>0 DEF Launches
<1>2. \A r \in RunIds : flags'[r] = flags[r] \/ (flags'[r] = runs[r] /\ caller[c].pc = "flag")
  <2>1. CASE caller[c].pc = "flag"
    <3>1. /\ caller[c].launch \in 1..launched /\ caller[c].run \in RunIds
          /\ worker[caller[c].launch].run = caller[c].run
      BY <2>1 DEF Reached, Threads, InHand, Launching
    <3>2. runs[caller[c].run] = caller[c].launch
      BY <3>1 DEF Reached, Flagged
    <3> QED BY <1>0, <2>1, <3>1, <3>2
  <2>2. CASE caller[c].pc # "flag"
    BY <2>2 DEF MovesOn, LaunchFlag, LaunchAnnounce, LaunchPlugins, StopFlag, StopCheck, StopMark, StopSet,
                StopSignal, StopReturn, surfaceVars, CallerAt
  <2> QED BY <2>1, <2>2
<1>3. \A r \in RunIds : flags[r] # 0 => flags'[r] = flags[r]
  BY <1>2 DEF Reached, Flagged
<1>4. Flagged'
  <2>1. \A l \in 1..launched : runs'[worker'[l].run] = l
    BY <1>0 DEF Reached, Flagged, CallerMoves
  <2>2. \A r \in RunIds : flags'[r] \in {0, runs'[r]}
    BY <1>0, <1>2 DEF Reached, Flagged, CallerMoves
  <2>3. \A d \in Callers : caller'[d].pc \in {"announce", "plugins", "start"} =>
                             flags'[caller'[d].run] = caller'[d].launch
    <3> SUFFICES ASSUME NEW d \in Callers, caller'[d].pc \in {"announce", "plugins", "start"}
                 PROVE  flags'[caller'[d].run] = caller'[d].launch
      OBVIOUS
    <3>1. CASE d # c
      <4>1. caller'[d] = caller[d]
        BY <1>0, <3>1 DEF CallerMoves
      <4>2. caller[d].run \in RunIds /\ caller[d].launch \in 1..launched
        BY <4>1 DEF Reached, Threads, InHand, Launching
      <4>3. flags[caller[d].run] = caller[d].launch
        BY <4>1 DEF Reached, Flagged
      <4>4. caller[d].launch # 0
        BY <4>2
      <4> QED BY <1>3, <4>1, <4>2, <4>3, <4>4
    <3>2. CASE d = c
      <4>1. caller'[c].run = caller[c].run /\ caller'[c].launch = caller[c].launch /\ caller[c].pc \in Launching
        BY <3>2, <1>0, StopMoves DEF CallerMoves, Launching
      <4>2. caller[c].run \in RunIds
        BY <4>1 DEF Reached, Threads, InHand
      <4>3. CASE caller[c].pc = "flag"
        <5>1. flags' = [flags EXCEPT ![caller[c].run] = caller[c].launch]
          BY <1>0, <3>2, <4>3, StopMoves
        <5> QED BY <1>0, <3>2, <4>1, <4>2, <5>1
      <4>4. CASE caller[c].pc # "flag"
        <5>1. caller[c].pc \in {"announce", "plugins"} /\ flags' = flags
          BY <1>0, <3>2, <4>4, StopMoves
        <5> QED BY <3>2, <4>1, <5>1 DEF Reached, Flagged
      <4> QED BY <4>3, <4>4
    <3> QED BY <3>1, <3>2
  <2>4. \A l \in Launches : worker'[l].pc # "none" => flags'[worker'[l].run] = l
    <3> SUFFICES ASSUME NEW l \in Launches, worker'[l].pc # "none"
                 PROVE  flags'[worker'[l].run] = l
      OBVIOUS
    <3>1. worker' = worker
      BY <1>0 DEF CallerMoves
    <3>2. flags[worker[l].run] = l /\ worker[l].run \in RunIds /\ l # 0
      BY <3>1 DEF Reached, Flagged, Threads, Begun, Launches
    <3> QED BY <1>3, <3>1, <3>2
  <2>5. \A l \in Launches : worker'[l].pc \notin {"none", "ready"} => worker'[l].flag = l
    BY <1>0 DEF Reached, Flagged, CallerMoves
  <2>6. launched' = launched
    BY <1>0 DEF CallerMoves
  <2> QED BY <2>1, <2>2, <2>3, <2>4, <2>5, <2>6 DEF Flagged
<1>5. Stopping'
  <2> SUFFICES ASSUME NEW d \in Callers
               PROVE  /\ caller'[d].pc \in {"check", "mark", "set"} =>
                           caller'[d].run \in RunIds /\ caller'[d].flag # 0 /\ caller'[d].flag = runs'[caller'[d].run]
                      /\ caller'[d].pc \in {"mark", "set"} => caller'[d].launch = caller'[d].flag
    BY DEF Stopping
  <2>1. runs' = runs
    BY <1>0 DEF CallerMoves
  <2>2. CASE d # c
    BY <1>0, <2>1, <2>2 DEF Reached, Stopping, CallerMoves
  <2>3. CASE caller'[c].pc = "check"
    <3>1. caller'[c].run \in RunIds /\ flags[caller'[c].run] # 0 /\ caller'[c].flag = flags[caller'[c].run]
      BY <1>0, <2>3, StopMoves
    <3>2. flags[caller'[c].run] = runs[caller'[c].run]
      BY <3>1 DEF Reached, Flagged
    <3> QED BY <2>1, <2>2, <2>3, <3>1, <3>2
  <2>4. CASE caller'[c].pc \in {"mark", "set"}
    <3>1. /\ caller[c].pc \in {"check", "mark"}
          /\ caller'[c].run = caller[c].run /\ caller'[c].flag = caller[c].flag
          /\ caller'[c].launch = IF caller[c].pc = "check" THEN runs[caller[c].run] ELSE caller[c].launch
      BY <1>0, <2>4, StopMoves
    <3>2. /\ caller[c].run \in RunIds /\ caller[c].flag # 0 /\ caller[c].flag = runs[caller[c].run]
          /\ caller[c].pc = "mark" => caller[c].launch = caller[c].flag
      BY <3>1 DEF Reached, Stopping
    <3> QED BY <2>1, <2>2, <3>1, <3>2
  <2> QED BY <2>2, <2>3, <2>4
<1>6. Marked'
  <2> SUFFICES ASSUME NEW l \in Launches, state'[l] = "stopping"
               PROVE  l \in set' \/ \E d \in Callers : caller'[d].pc = "set" /\ caller'[d].launch = l
    BY DEF Marked
  <2>1. set \subseteq set'
    BY <1>0, StopMoves
  <2>2. CASE state[l] = "stopping" /\ l \notin set
    <3>1. PICK d \in Callers : caller[d].pc = "set" /\ caller[d].launch = l
      BY <2>2 DEF Reached, Marked
    <3>2. CASE d # c
      BY <1>0, <3>1, <3>2 DEF CallerMoves
    <3>3. CASE d = c
      <4>1. set' = set \cup {caller[c].flag}
        BY <1>0, <3>1, <3>3, StopMoves
      <4>2. caller[c].flag = l
        BY <3>1, <3>3 DEF Reached, Stopping
      <4> QED BY <4>1, <4>2
    <3> QED BY <3>2, <3>3
  <2>3. CASE state[l] # "stopping"
    <3>1. caller[c].pc = "mark" /\ caller'[c].pc = "set" /\ state' = [state EXCEPT ![caller[c].launch] = "stopping"]
      BY <1>0, <2>3, StopMoves
    <3>2. caller'[c].launch = caller[c].launch
      BY <1>0, <3>1, StopMoves
    <3>3. caller[c].launch = l
      BY <1>0, <2>3, <3>1 DEF Threads, Typed
    <3> QED BY <3>1, <3>2, <3>3
  <2> QED BY <2>1, <2>2, <2>3
<1> QED BY <1>0, <1>4, <1>5, <1>6 DEF Reached

\* So does a step of a run thread.
LEMMA WorkerReaches ==
  ASSUME Reached, NEW l \in Launches, Worker(l)
  PROVE  Reached'
<1>0. /\ WorkerMoves(l) /\ Threads' /\ Threads
      /\ state' = state \/ \E how \in Terminal : state' = [state EXCEPT ![l] = how]
      /\ state \in [Launches -> {"none", "running", "stopping"} \cup Terminal]
      /\ launched \in 0..MaxLaunches /\ MaxLaunches \in Nat
  BY WorkerMovesKeep, SurfaceConstants DEF Reached, Threads, Typed
<1>1. launched' = launched /\ runs' = runs /\ flags' = flags /\ caller' = caller
  BY <1>0 DEF WorkerMoves
<1>2. \A m \in Launches : worker'[m].run = worker[m].run
  BY <1>0 DEF WorkerMoves
<1>3. 1..launched \subseteq Launches
  BY <1>0 DEF Launches
<1>4. Flagged'
  <2>1. \A m \in 1..launched : runs[worker'[m].run] = m
    BY <1>2, <1>3 DEF Reached, Flagged
  <2>2. worker[l].pc # "none" /\ flags[worker[l].run] = l
    BY <1>0 DEF Reached, Flagged, WorkerMoves
  <2>3. \A m \in Launches : worker'[m].pc # "none" => flags[worker'[m].run] = m
    <3> TAKE m \in Launches
    <3>1. CASE m = l
      BY <1>2, <2>2, <3>1
    <3>2. CASE m # l
      BY <1>0, <3>2 DEF WorkerMoves, Reached, Flagged
    <3> QED BY <3>1, <3>2
  <2>4. \A m \in Launches : worker'[m].pc \notin {"none", "ready"} => worker'[m].flag = m
    <3> TAKE m \in Launches
    <3>1. CASE m = l
      <4>1. worker[l].pc # "ready" => worker[l].flag = l
        BY <2>2 DEF Reached, Flagged
      <4> QED BY <1>0, <2>2, <3>1, <4>1 DEF WorkerMoves
    <3>2. CASE m # l
      BY <1>0, <3>2 DEF WorkerMoves, Reached, Flagged
    <3> QED BY <3>1, <3>2
  <2> QED BY <1>1, <2>1, <2>3, <2>4 DEF Reached, Flagged
<1>5. Stopping'
  BY <1>1 DEF Reached, Stopping
<1>6. Marked'
  <2>1. set' = set
    BY DEF Worker, RunBegin, RunTick, RunEnd, RunClear, RunAnnounce, surfaceVars
  <2>2. \A m \in Launches : state'[m] = "stopping" => state[m] = "stopping"
    BY <1>0 DEF Terminal
  <2> QED BY <1>1, <2>1, <2>2 DEF Reached, Marked
<1> QED BY <1>0, <1>4, <1>5, <1>6 DEF Reached

\* So does the start of a run thread.
LEMMA LaunchStartReaches ==
  ASSUME Reached, NEW c \in Callers, LaunchStart(c)
  PROVE  Reached'
<1> DEFINE n == caller[c].launch
<1>0. /\ Threads' /\ caller[c].pc = "start" /\ n \in 1..launched
      /\ UNCHANGED <<launched, runs, flags, state>>
      /\ worker[n].pc = "none" /\ worker'[n].pc = "ready"
      /\ \A l \in Launches : l # n => worker'[l] = worker[l]
      /\ \A l \in Launches : worker'[l].run = worker[l].run /\ worker'[l].flag = worker[l].flag
      /\ caller'[c] = AtRest /\ \A d \in Callers : d # c => caller'[d] = caller[d]
  BY LaunchStartKeeps DEF Reached
<1>1. /\ launched' = launched /\ runs' = runs /\ flags' = flags /\ state' = state
      /\ set' = set /\ AtRest.pc = "idle"
  BY <1>0, RestIsCaller DEF LaunchStart, surfaceVars
<1>2. launched \in 0..MaxLaunches /\ MaxLaunches \in Nat
  BY SurfaceConstants DEF Reached, Threads, Typed
<1>3. 1..launched \subseteq Launches
  BY <1>2 DEF Launches
<1>4. flags[worker[n].run] = n
  <2>1. caller[c].run = worker[n].run
    BY <1>0 DEF Reached, Threads, InHand, Launching
  <2>2. flags[caller[c].run] = n
    BY <1>0 DEF Reached, Flagged
  <2> QED BY <2>1, <2>2
<1> HIDE DEF n
<1>5. Flagged'
  <2>1. \A m \in 1..launched : runs[worker'[m].run] = m
    BY <1>0, <1>3 DEF Reached, Flagged
  <2>2. \A d \in Callers : caller'[d].pc \in {"announce", "plugins", "start"} =>
                             flags[caller'[d].run] = caller'[d].launch
    BY <1>0, <1>1 DEF Reached, Flagged
  <2>3. \A m \in Launches : worker'[m].pc # "none" => flags[worker'[m].run] = m
    BY <1>0, <1>4 DEF Reached, Flagged
  <2>4. \A m \in Launches : worker'[m].pc \notin {"none", "ready"} => worker'[m].flag = m
    BY <1>0 DEF Reached, Flagged
  <2> QED BY <1>1, <2>1, <2>2, <2>3, <2>4 DEF Reached, Flagged
<1>6. Stopping'
  BY <1>0, <1>1 DEF Reached, Stopping
<1>7. Marked'
  <2>1. \A d \in Callers : caller[d].pc = "set" => caller'[d] = caller[d]
    BY <1>0
  <2> QED BY <1>1, <2>1 DEF Reached, Marked
<1> QED BY <1>0, <1>5, <1>6, <1>7 DEF Reached

\* So does a launch that takes an id no run has had.
LEMMA LaunchStatusReaches ==
  ASSUME ~Reuse, Reached, NEW c \in Callers, NEW r \in RunIds, LaunchStatus(c, r)
  PROVE  Reached'
<1> DEFINE n == launched + 1
           k == [pc |-> "flag", run |-> r, launch |-> n, flag |-> 0]
<1>0. /\ launched \in 0..MaxLaunches /\ MaxLaunches \in Nat /\ Threads'
      /\ runs \in [RunIds -> 0..launched] /\ flags \in [RunIds -> 0..launched]
      /\ state \in [Launches -> {"none", "running", "stopping"} \cup Terminal]
  BY SurfaceConstants, LaunchStatusKeeps DEF Reached, Threads, Typed
<1>1. /\ launched' = n /\ n \in Launches /\ caller[c].pc = "idle"
      /\ runs' = [runs EXCEPT ![r] = n] /\ state' = [state EXCEPT ![n] = "running"]
      /\ caller'[c] = k /\ \A d \in Callers : d # c => caller'[d] = caller[d]
      /\ worker'[n].run = r /\ worker'[n].pc = "none"
      /\ \A l \in Launches : l # n => worker'[l] = worker[l]
  BY LaunchStatusFacts DEF Reached
<1>2. runs[r] = 0 /\ flags' = flags /\ set' = set
  BY DEF LaunchStatus
<1>3. 1..n = 1..launched \cup {n} /\ 1..launched \subseteq Launches /\ n \notin 1..launched
  BY <1>0, <1>1 DEF Launches
<1>4. k.pc = "flag"
  OBVIOUS
<1> HIDE DEF n, k
<1>5. \A x \in RunIds : runs'[x] # runs[x] => flags[x] = 0 /\ runs[x] = 0
  BY <1>0, <1>1, <1>2 DEF Reached, Flagged
<1>6. Flagged'
  <2>1. \A m \in 1..n : runs'[worker'[m].run] = m
    <3>1. runs'[worker'[n].run] = n
      BY <1>0, <1>1
    <3>2. ASSUME NEW m \in 1..launched
          PROVE  runs'[worker'[m].run] = m
      <4>1. runs[worker[m].run] = m /\ worker[m].run \in RunIds
        BY DEF Reached, Flagged, Threads, Begun
      <4>2. m # 0 /\ m # n /\ m \in Launches
        BY <1>0, <1>3
      <4> QED BY <1>0, <1>1, <1>2, <4>1, <4>2
    <3> QED BY <1>3, <3>1, <3>2
  <2>2. \A x \in RunIds : flags[x] \in {0, runs'[x]}
    BY <1>5 DEF Reached, Flagged
  <2>3. \A d \in Callers : caller'[d].pc \in {"announce", "plugins", "start"} =>
                             flags[caller'[d].run] = caller'[d].launch
    BY <1>1, <1>4 DEF Reached, Flagged
  <2>4. \A m \in Launches : worker'[m].pc # "none" => flags[worker'[m].run] = m
    BY <1>1 DEF Reached, Flagged
  <2>5. \A m \in Launches : worker'[m].pc \notin {"none", "ready"} => worker'[m].flag = m
    BY <1>1 DEF Reached, Flagged
  <2> QED BY <1>1, <1>2, <2>1, <2>2, <2>3, <2>4, <2>5 DEF Flagged
<1>7. Stopping'
  <2> SUFFICES ASSUME NEW d \in Callers
               PROVE  /\ caller'[d].pc \in {"check", "mark", "set"} =>
                           caller'[d].run \in RunIds /\ caller'[d].flag # 0 /\ caller'[d].flag = runs'[caller'[d].run]
                      /\ caller'[d].pc \in {"mark", "set"} => caller'[d].launch = caller'[d].flag
    BY DEF Stopping
  <2>1. CASE d = c
    BY <1>1, <1>4, <2>1
  <2>2. CASE d # c
    <3>1. caller'[d] = caller[d]
      BY <1>1, <2>2
    <3>2. caller[d].pc \in {"check", "mark", "set"} =>
            caller[d].run \in RunIds /\ caller[d].flag # 0 /\ caller[d].flag = runs[caller[d].run]
      BY DEF Reached, Stopping
    <3> QED BY <1>5, <3>1, <3>2 DEF Reached, Stopping
  <2> QED BY <2>1, <2>2
<1>8. Marked'
  <2>1. \A d \in Callers : caller[d].pc = "set" => caller'[d] = caller[d]
    BY <1>1
  <2>2. \A m \in Launches : state'[m] = "stopping" => state[m] = "stopping"
    BY <1>0, <1>1
  <2> QED BY <1>2, <2>1, <2>2 DEF Reached, Marked
<1> QED BY <1>0, <1>6, <1>7, <1>8 DEF Reached

\* A run that stop() has marked has a runner whose own Event is set (stop, launch and
\* _thread_target each read the dictionaries without a lock): when a run id is not
\* launched a second time.
THEOREM StopCorrect == ASSUME ~Reuse PROVE Spec => []StopReachesRunner
<1>1. Init => Reached
  <2> SUFFICES ASSUME Init PROVE Reached
    OBVIOUS
  <2>1. Threads
    BY ThreadsAtFirst
  <2>2. /\ \A c \in Callers : caller[c].pc = "idle"
        /\ launched = 0 /\ \A l \in Launches : worker[l].pc = "none"
        /\ \A r \in RunIds : flags[r] = 0
        /\ \A l \in Launches : state[l] = "none"
    BY RestIsCaller DEF Init
  <2> QED BY <2>1, <2>2 DEF Reached, Flagged, Stopping, Marked
<1>2. Reached /\ [Next]_vars => Reached'
  <2> SUFFICES ASSUME Reached, [Next]_vars PROVE Reached'
    OBVIOUS
  <2>1. CASE UNCHANGED <<surfaceVars, caller, worker>>
    BY <2>1 DEF surfaceVars, Reached, Threads, Typed, InHand, Apart, Begun, Flagged, Stopping, Marked
  <2> QED BY <2>1, StepKinds, LaunchStatusReaches, MovesOnReaches, LaunchStartReaches, WorkerReaches
<1>3. Reached => StopReachesRunner
  BY DEF Reached, Flagged, Marked, StopReachesRunner, WorkerAt, CallerAt
<1> QED BY <1>1, <1>2, <1>3, PTL DEF Spec

---------------------------------------------------------------------------
(* The surface publishes on the bus, and does nothing else to it. *)

\* A run whose end is not announced yet is finished, has raised, or has been marked since.
Ended == \A l \in Launches : worker[l].pc \in {"clear", "announce", "done"} => state[l] \in {"stopping"} \cup Terminal

\* The states of the other launches, and how an ended one may still change.
LEMMA EndedKept == Spec => [](Threads /\ Ended)
<1>1. Init => Ended
  BY DEF Init, Ended
<1>2. Threads /\ Ended /\ [Next]_vars => Ended'
  <2> SUFFICES ASSUME Threads, Ended, [Next]_vars PROVE Ended'
    OBVIOUS
  <2>0. /\ state \in [Launches -> {"none", "running", "stopping"} \cup Terminal]
        /\ worker \in [Launches -> Work] /\ launched \in 0..MaxLaunches /\ MaxLaunches \in Nat
    BY SurfaceConstants DEF Threads, Typed
  <2>1. CASE UNCHANGED <<surfaceVars, caller, worker>>
    BY <2>1 DEF surfaceVars, Ended
  <2>2. ASSUME NEW c \in Callers, NEW r \in RunIds, LaunchStatus(c, r)
        PROVE  Ended'
    <3>1. /\ state' = [state EXCEPT ![launched + 1] = "running"] /\ worker'[launched + 1].pc = "none"
          /\ \A l \in Launches : l # launched + 1 => worker'[l] = worker[l]
      BY <2>2, LaunchStatusFacts
    <3> QED BY <2>0, <3>1 DEF Ended
  <2>3. ASSUME NEW c \in Callers, MovesOn(c)
        PROVE  Ended'
    <3>1. worker' = worker
      BY <2>3, MovesOnKeeps DEF CallerMoves
    <3>2. state' = state \/ state' = [state EXCEPT ![caller[c].launch] = "stopping"]
      BY <2>3, StopMoves
    <3> QED BY <2>0, <3>1, <3>2 DEF Ended
  <2>4. ASSUME NEW c \in Callers, LaunchStart(c)
        PROVE  Ended'
    <3>1. /\ state' = state /\ worker'[caller[c].launch].pc = "ready"
          /\ \A l \in Launches : l # caller[c].launch => worker'[l] = worker[l]
      BY <2>4, LaunchStartKeeps
    <3> QED BY <3>1 DEF Ended
  <2>5. ASSUME NEW l \in Launches, Worker(l)
        PROVE  Ended'
    <3>1. /\ \A m \in Launches : m # l => worker'[m] = worker[m]
          /\ state' = state \/ \E how \in Terminal : state' = [state EXCEPT ![l] = how]
      BY <2>5, WorkerMovesKeep DEF WorkerMoves
    <3>2. worker'[l].pc \in {"clear", "announce", "done"} => state'[l] \in {"stopping"} \cup Terminal
      <4>1. CASE RunEnd(l)
        BY <2>0, <4>1 DEF RunEnd
      <4>2. CASE RunBegin(l)
        <5>1. worker'[l].pc = "running"
          BY <2>0, <4>2 DEF RunBegin, Work
        <5> QED BY <5>1
      <4>3. CASE RunTick(l)
        BY <4>3 DEF RunTick, WorkerAt
      <4>4. CASE RunClear(l) \/ RunAnnounce(l)
        <5>1. worker[l].pc \in {"clear", "announce"} /\ state' = state
          BY <4>4 DEF RunClear, RunAnnounce, WorkerAt, surfaceVars
        <5> QED BY <5>1 DEF Ended
      <4> QED BY <2>5, <4>1, <4>2, <4>3, <4>4 DEF Worker
    <3> QED BY <2>0, <3>1, <3>2 DEF Ended
  <2> QED BY <2>1, <2>2, <2>3, <2>4, <2>5, StepKinds
<1> QED BY <1>1, <1>2, ThreadsKept, PTL DEF Spec

\* Every event the surface publishes is one the bus may carry.
LEMMA PayloadsHave == \A t \in Types, l \in Launches, h \in Hows : Event(t, l, h) \in Payloads
  BY SMT DEF Payloads

\* A stop is announced before it has happened, an end by how it came.
LEMMA HowsHave == "" \in Hows /\ {"stopping"} \cup Terminal \subseteq Hows
  BY Zenon DEF Hows

\* Everything the orchestration layer does on its bus is a behaviour of the bus: it
\* publishes, with what event_bus.py allows, and the subscribers go on by themselves.
THEOREM BusUsed == Spec => Bus!Spec
<1>1. Init => Bus!Init
  BY DEF Init
<1>2. Threads /\ Ended /\ [Next]_vars => [Bus!Next]_(Bus!vars)
  <2> SUFFICES ASSUME Threads, Ended, [Next]_vars PROVE [Bus!Next]_(Bus!vars)
    OBVIOUS
  <2>0. 1..launched \subseteq Launches
    BY SurfaceConstants DEF Threads, Typed, Launches
  <2>1. ASSUME NEW p \in Callers \cup Launches, NEW load \in Payloads, Bus!Publish(p, load)
        PROVE  Bus!Next
    BY <2>1, BusSteps
  <2>2. CASE UNCHANGED busVars
    BY <2>2 DEF busVars, Bus!vars, Bus!busVars, Bus!ghosts
  <2>3. ASSUME NEW c \in Callers, LaunchAnnounce(c) \/ StopSignal(c)
        PROVE  Bus!Next
    <3>1. caller[c].launch \in Launches
      BY <2>0, <2>3 DEF LaunchAnnounce, StopSignal, CallerAt, Threads, InHand, Launching
    <3>2. Event("RUN_STARTED", caller[c].launch, "") \in Payloads
          /\ Event("RUN_STOP_SIGNAL", caller[c].launch, "") \in Payloads
      BY <3>1, PayloadsHave, HowsHave DEF Types
    <3> QED BY <2>1, <2>3, <3>2 DEF LaunchAnnounce, StopSignal
  <2>4. ASSUME NEW l \in Launches, RunTick(l)
        PROVE  Bus!Next
    <3>1. Event("TICK", l, "") \in Payloads
      BY PayloadsHave, HowsHave DEF Types
    <3> QED BY <2>1, <2>4, <3>1 DEF RunTick
  <2>5. ASSUME NEW l \in Launches, RunAnnounce(l)
        PROVE  Bus!Next
    <3>1. state[l] \in {"stopping"} \cup Terminal
      BY <2>5 DEF RunAnnounce, WorkerAt, Ended
    <3>2. Event("RUN_FINISHED", l, state[l]) \in Payloads
      BY <3>1, PayloadsHave, HowsHave DEF Types
    <3> QED BY <2>1, <2>5, <3>2 DEF RunAnnounce
  <2>6. ASSUME NEW c \in Callers, Launch(c) \/ Stop(c)
        PROVE  [Bus!Next]_(Bus!vars)
    BY <2>2, <2>3, <2>6 DEF Launch, Stop, LaunchStatus, LaunchFlag, LaunchPlugins, LaunchStart, StopFlag,
       StopCheck, StopMark, StopSet, StopReturn
  <2>7. ASSUME NEW l \in Launches, Worker(l)
        PROVE  [Bus!Next]_(Bus!vars)
    BY <2>2, <2>4, <2>5, <2>7 DEF Worker, RunBegin, RunEnd, RunClear
  <2>8. CASE (\E p \in Callers \cup Launches : Deliver(p)) \/ Subscriber
    BY <2>8, BusSteps DEF Deliver, Subscriber
  <2>9. CASE UNCHANGED vars
    BY <2>2, <2>9 DEF vars
  <2> QED BY <2>6, <2>7, <2>8, <2>9 DEF Next
<1> QED BY <1>1, <1>2, EndedKept, PTL DEF Spec, Bus!Spec

\* Nothing falls between a subscriber's backlog and its live feed, through the surface's
\* own use of the bus.
THEOREM FeedCorrect == Spec => []NothingBetween
<1>1. Bus!EventBusConstants
  BY BusConstants
<1>2. Bus!Spec => []Bus!NothingBetween
  BY <1>1, BusCorrect
<1>3. Bus!NothingBetween => NothingBetween
  BY DEF NothingBetween
<1> QED BY <1>2, <1>3, BusUsed, PTL

---------------------------------------------------------------------------
(* A run's start is seen before its end. *)

\* What the threads' steps do, as far as starts and ends are concerned: a run thread is
\* started by the call that launched it, does not come back once it is done, and a call
\* leaves the place after its announcement when its publish has returned.
LEMMA ThreadSteps ==
  ASSUME Threads, [Next]_vars
  PROVE  /\ \A l \in Launches : worker'[l].pc # "none" =>
              worker[l].pc # "none" \/ \E c \in Callers : caller[c].pc = "start" /\ caller[c].launch = l
         /\ \A l \in Launches : worker[l].pc = "done" => worker'[l].pc = "done"
         /\ \A c \in Callers : caller'[c].pc \in {"plugins", "start"} =>
              /\ caller'[c].launch = caller[c].launch
              /\ caller[c].pc \in {"plugins", "start"} \/ (caller[c].pc = "announce" /\ LaunchAnnounce(c))
         /\ \A c \in Callers : caller[c].pc = "plugins" => caller'[c] = caller[c] \/ outbox[c].to = {}
<1>1. CASE UNCHANGED <<surfaceVars, caller, worker>>
  BY <1>1
<1>2. ASSUME NEW c \in Callers, NEW r \in RunIds, LaunchStatus(c, r)
      PROVE  /\ \A l \in Launches : worker'[l].pc = worker[l].pc \/ worker'[l].pc = "none"
             /\ \A l \in Launches : worker[l].pc = "done" => worker'[l].pc = "done"
             /\ caller[c].pc = "idle" /\ caller'[c].pc = "flag"
             /\ \A d \in Callers : d # c => caller'[d] = caller[d]
  <2>1. /\ launched + 1 \in Launches /\ caller[c].pc = "idle" /\ caller'[c].pc = "flag"
        /\ \A d \in Callers : d # c => caller'[d] = caller[d]
        /\ worker'[launched + 1].pc = "none" /\ \A l \in Launches : l # launched + 1 => worker'[l] = worker[l]
    <3>1. /\ launched + 1 \in Launches /\ caller[c].pc = "idle"
          /\ caller'[c] = [pc |-> "flag", run |-> r, launch |-> launched + 1, flag |-> 0]
          /\ \A d \in Callers : d # c => caller'[d] = caller[d]
          /\ worker'[launched + 1].pc = "none" /\ \A l \in Launches : l # launched + 1 => worker'[l] = worker[l]
      BY <1>2, LaunchStatusFacts
    <3>2. caller'[c].pc = "flag"
      BY <3>1
    <3> QED BY <3>1, <3>2
  <2>2. worker[launched + 1].pc = "none"
    <3>1. launched + 1 \notin 1..launched
      BY SurfaceConstants DEF Threads, Typed
    <3> QED BY <2>1, <3>1 DEF Threads, Begun
  <2> QED BY <2>1, <2>2
<1>3. ASSUME NEW c \in Callers, MovesOn(c)
      PROVE  /\ worker' = worker /\ \A d \in Callers : d # c => caller'[d] = caller[d]
             /\ caller'[c].pc \in {"plugins", "start"} =>
                  /\ caller'[c].launch = caller[c].launch
                  /\ caller[c].pc \in {"plugins", "start"} \/ (caller[c].pc = "announce" /\ LaunchAnnounce(c))
             /\ caller[c].pc = "plugins" => outbox[c].to = {}
  <2>0. caller \in [Callers -> Caller]
    BY DEF Threads, Typed
  <2>1. worker' = worker /\ \A d \in Callers : d # c => caller'[d] = caller[d]
    BY <1>3, MovesOnKeeps DEF CallerMoves
  <2>2. CASE caller[c].pc = "flag"
    <3>1. GoCaller(c, "announce")
      BY <1>3, <2>2 DEF MovesOn, LaunchFlag, LaunchAnnounce, LaunchPlugins, StopFlag, StopCheck, StopMark, StopSet,
         StopSignal, StopReturn, CallerAt
    <3>2. caller'[c].pc = "announce"
      BY <2>0, <3>1, CallerGoes DEF CallerPlaces, Launching
    <3> QED BY <2>1, <2>2, <3>2
  <2>3. CASE caller[c].pc = "announce"
    <3>1. LaunchAnnounce(c)
      BY <1>3, <2>3 DEF MovesOn, LaunchFlag, LaunchAnnounce, LaunchPlugins, StopFlag, StopCheck, StopMark, StopSet,
         StopSignal, StopReturn, CallerAt
    <3>2. caller'[c].launch = caller[c].launch
      BY <2>0, <3>1, CallerGoes DEF LaunchAnnounce, CallerPlaces, Launching
    <3> QED BY <2>1, <2>3, <3>1, <3>2
  <2>4. CASE caller[c].pc = "plugins"
    <3>1. GoCaller(c, "start") /\ outbox[c].to = {}
      BY <1>3, <2>4 DEF MovesOn, LaunchFlag, LaunchAnnounce, LaunchPlugins, StopFlag, StopCheck, StopMark, StopSet,
         StopSignal, StopReturn, CallerAt, Bus!Published
    <3>2. caller'[c].launch = caller[c].launch
      BY <2>0, <3>1, CallerGoes DEF CallerPlaces, Launching
    <3> QED BY <2>1, <2>4, <3>1, <3>2
  <2>5. CASE caller[c].pc \notin {"flag", "announce", "plugins"}
    <3>1. caller'[c].pc \notin {"plugins", "start"}
      <4>1. caller'[c].pc \in {"announce", "plugins", "start"} => caller[c].pc \in {"flag", "announce", "plugins"}
        BY <1>3, StopMoves
      <4> QED BY <2>5, <4>1
    <3> QED BY <2>1, <2>5, <3>1
  <2> QED BY <2>2, <2>3, <2>4, <2>5
<1>4. ASSUME NEW c \in Callers, LaunchStart(c)
      PROVE  /\ caller[c].pc = "start" /\ caller'[c].pc = "idle" /\ \A d \in Callers : d # c => caller'[d] = caller[d]
             /\ worker[caller[c].launch].pc = "none"
             /\ \A l \in Launches : l # caller[c].launch => worker'[l] = worker[l]
  <2>1. caller'[c] = AtRest /\ AtRest.pc = "idle"
    BY <1>4, LaunchStartKeeps, RestIsCaller
  <2> QED BY <1>4, <2>1, LaunchStartKeeps
<1>5. ASSUME NEW l \in Launches, Worker(l)
      PROVE  /\ caller' = caller /\ worker[l].pc \notin {"none", "done"}
             /\ \A m \in Launches : m # l => worker'[m] = worker[m]
  BY <1>5, WorkerMovesKeep DEF WorkerMoves
<1>6. CASE \E c \in Callers, r \in RunIds : LaunchStatus(c, r)
  <2>1. PICK c \in Callers, r \in RunIds : LaunchStatus(c, r)
    BY <1>6
  <2>2. /\ \A l \in Launches : worker'[l].pc = worker[l].pc \/ worker'[l].pc = "none"
        /\ \A l \in Launches : worker[l].pc = "done" => worker'[l].pc = "done"
        /\ caller[c].pc = "idle" /\ caller'[c].pc = "flag"
        /\ \A d \in Callers : d # c => caller'[d] = caller[d]
    BY <1>2, <2>1
  <2> QED BY <2>2
<1>7. CASE \E c \in Callers : MovesOn(c)
  <2>1. PICK c \in Callers : MovesOn(c)
    BY <1>7
  <2> QED BY <1>3, <2>1
<1>8. CASE \E c \in Callers : LaunchStart(c)
  <2>1. PICK c \in Callers : LaunchStart(c)
    BY <1>8
  <2>2. /\ caller[c].pc = "start" /\ caller'[c].pc = "idle" /\ \A d \in Callers : d # c => caller'[d] = caller[d]
        /\ worker[caller[c].launch].pc = "none"
        /\ \A l \in Launches : l # caller[c].launch => worker'[l] = worker[l]
    BY <1>4, <2>1
  <2> QED BY <2>2
<1>9. CASE \E l \in Launches : Worker(l)
  <2>1. PICK l \in Launches : Worker(l)
    BY <1>9
  <2>2. /\ caller' = caller /\ worker[l].pc \notin {"none", "done"}
        /\ \A m \in Launches : m # l => worker'[m] = worker[m]
    BY <1>5, <2>1
  <2> QED BY <2>2
<1> QED BY <1>1, <1>6, <1>7, <1>8, <1>9, StepKinds

\* The event at a place of what was published.
Is(type, l, i) == published[i].load.type = type /\ published[i].load.launch = l

Before(s, i) == joined[s] = <<>> \/ joined[s][Len(joined[s])].no < i

Have(s) == got[s] \o queue[s]

\* A run thread that was started has its start published, and in nobody's hands; and
\* an end is of a run that is over and whose start was published before it.
StartsAndEnds ==
  /\ \A l \in Launches : worker[l].pc # "none" => \E i \in 1..Len(published) : Is("RUN_STARTED", l, i)
  /\ \A c \in Callers : caller[c].pc \in {"plugins", "start"} =>
       \E i \in 1..Len(published) : Is("RUN_STARTED", caller[c].launch, i)
  /\ \A p \in Callers \cup Launches, l \in Launches :
       outbox[p].to # {} /\ Is("RUN_STARTED", l, outbox[p].event.no) =>
         p \in Callers /\ caller[p].pc = "plugins" /\ caller[p].launch = l
  /\ \A i \in 1..Len(published), l \in Launches :
       Is("RUN_FINISHED", l, i) => worker[l].pc = "done" /\ \E j \in 1..(i - 1) : Is("RUN_STARTED", l, j)

\* Who was there before a start has it before any end of that run, or has lost it.
SeenInOrder ==
  \A s \in subs, l \in Launches, i \in 1..Len(published) : \A k \in 1..Len(Have(s)) :
    Is("RUN_STARTED", l, i) /\ Before(s, i) /\ Is("RUN_FINISHED", l, Have(s)[k].no) =>
      i \in lost[s] \/ \E j \in 1..(k - 1) : Have(s)[j].no = i

\* What the surface publishes, and where the thread is that does.
PublishStep(p, load) ==
  /\ Bus!Publish(p, load)
  /\ \/ p \in Callers /\ load = Event("RUN_STARTED", caller[p].launch, "") /\ caller[p].pc = "announce"
        /\ caller'[p].pc = "plugins" /\ caller'[p].launch = caller[p].launch
     \/ \E h : load = Event("RUN_FINISHED", p, h) /\ p \in Launches /\ worker[p].pc = "announce" /\ worker'[p].pc = "done"
     \/ load.type \notin {"RUN_STARTED", "RUN_FINISHED"}
  /\ load \in Payloads

\* The steps of the module, by what they do to the bus.
LEMMA BusStepKinds ==
  ASSUME Threads, Ended, Bus!EventBusConstants, BusInv, [Next]_vars
  PROVE  \/ UNCHANGED busVars
         \/ \E p \in Callers \cup Launches, load \in Payloads : PublishStep(p, load)
         \/ \E s \in Bus!Sids, e \in Bus!Event : PutStep(s, e) /\ UNCHANGED <<caller, worker>>
         \/ QuietStep /\ UNCHANGED <<caller, worker>>
<1>0. /\ 1..launched \subseteq Launches /\ caller \in [Callers -> Caller] /\ worker \in [Launches -> Work]
  BY SurfaceConstants DEF Threads, Typed, Launches
<1>1. ASSUME NEW c \in Callers, LaunchAnnounce(c)
      PROVE  \E load \in Payloads : PublishStep(c, load)
  <2> DEFINE load == Event("RUN_STARTED", caller[c].launch, "")
  <2>1. caller[c].pc = "announce" /\ Bus!Publish(c, load) /\ GoCaller(c, "plugins")
    BY <1>1 DEF LaunchAnnounce, CallerAt
  <2>2. caller[c].launch \in Launches
    BY <1>0, <2>1 DEF Threads, InHand, Launching
  <2>3. load \in Payloads
    BY <2>2, PayloadsHave, HowsHave DEF Types
  <2>4. caller'[c].pc = "plugins" /\ caller'[c].launch = caller[c].launch
    BY <1>0, <2>1, CallerGoes DEF CallerPlaces, Launching
  <2>5. Bus!Publish(c, load)
    BY <2>1
  <2> QED BY <2>1, <2>3, <2>4, <2>5 DEF PublishStep
<1>2. ASSUME NEW c \in Callers, StopSignal(c)
      PROVE  \E load \in Payloads : PublishStep(c, load)
  <2> DEFINE load == Event("RUN_STOP_SIGNAL", caller[c].launch, "")
  <2>1. caller[c].pc = "signal" /\ Bus!Publish(c, load)
    BY <1>2 DEF StopSignal, CallerAt
  <2>2. caller[c].launch \in Launches
    BY <1>0, <2>1 DEF Threads, InHand
  <2>3. load \in Payloads /\ Bus!Publish(c, load)
    BY <2>1, <2>2, PayloadsHave, HowsHave DEF Types
  <2>4. load.type \notin {"RUN_STARTED", "RUN_FINISHED"}
    BY DEF Event
  <2> QED BY <2>3, <2>4 DEF PublishStep
<1>3. ASSUME NEW l \in Launches, RunTick(l)
      PROVE  \E load \in Payloads : PublishStep(l, load)
  <2> DEFINE load == Event("TICK", l, "")
  <2>1. load \in Payloads /\ Bus!Publish(l, load)
    BY <1>3, PayloadsHave, HowsHave DEF Types, RunTick
  <2>2. load.type \notin {"RUN_STARTED", "RUN_FINISHED"}
    BY DEF Event
  <2> QED BY <2>1, <2>2 DEF PublishStep
<1>4. ASSUME NEW l \in Launches, RunAnnounce(l)
      PROVE  \E load \in Payloads : PublishStep(l, load)
  <2> DEFINE load == Event("RUN_FINISHED", l, state[l])
  <2>1. worker[l].pc = "announce" /\ Bus!Publish(l, load) /\ GoWorker(l, "done")
    BY <1>4 DEF RunAnnounce, WorkerAt
  <2>2. state[l] \in {"stopping"} \cup Terminal
    BY <2>1 DEF Ended
  <2>3. load \in Payloads
    BY <2>2, PayloadsHave, HowsHave DEF Types
  <2>4. worker'[l].pc = "done"
    BY <1>0, <2>1, WorkerGoes DEF WorkerPlaces
  <2>5. Bus!Publish(l, load)
    BY <2>1
  <2> QED BY <2>1, <2>3, <2>4, <2>5 DEF PublishStep
<1>5. ASSUME NEW p \in Callers \cup Launches, Deliver(p)
      PROVE  \E s \in Bus!Sids, e \in Bus!Event : PutStep(s, e) /\ UNCHANGED <<caller, worker>>
  <2>1. Bus!Deliver(p) /\ UNCHANGED <<caller, worker>>
    BY <1>5 DEF Deliver
  <2>2. \E s \in Bus!Sids, e \in Bus!Event : PutStep(s, e)
    BY <2>1, DeliverIsPut
  <2> QED BY <2>1, <2>2
<1>6. ASSUME Subscriber
      PROVE  \/ \E s \in Bus!Sids, e \in Bus!Event : PutStep(s, e) /\ UNCHANGED <<caller, worker>>
             \/ QuietStep /\ UNCHANGED <<caller, worker>>
  <2>1. Bus!SubscriberStep /\ UNCHANGED <<caller, worker>>
    BY <1>6 DEF Subscriber
  <2>2. CASE Bus!Subscribe \/ \E s \in Bus!Sids : Bus!Get(s) \/ Bus!Unsubscribe(s)
    BY <2>1, <2>2, OthersAreQuiet
  <2>3. CASE \E s \in Bus!Sids : Bus!PutBacklog(s)
    BY <2>1, <2>3, BacklogIsPut
  <2> QED BY <2>1, <2>2, <2>3 DEF Bus!SubscriberStep
<1>7. ASSUME NEW c \in Callers, Launch(c) \/ Stop(c)
      PROVE  UNCHANGED busVars \/ \E load \in Payloads : PublishStep(c, load)
  BY <1>1, <1>2, <1>7 DEF Launch, Stop, LaunchStatus, LaunchFlag, LaunchPlugins, LaunchStart, StopFlag,
     StopCheck, StopMark, StopSet, StopReturn
<1>8. ASSUME NEW l \in Launches, Worker(l)
      PROVE  UNCHANGED busVars \/ \E load \in Payloads : PublishStep(l, load)
  BY <1>3, <1>4, <1>8 DEF Worker, RunBegin, RunEnd, RunClear
<1>9. CASE UNCHANGED vars
  BY <1>9 DEF vars
<1> QED BY <1>5, <1>6, <1>7, <1>8, <1>9 DEF Next

\* What is published is not unpublished, and a publish adds one event.
LEMMA PublishFacts ==
  ASSUME Bus!EventBusConstants, BusInv, NEW p \in Callers \cup Launches, NEW load \in Payloads,
         PublishStep(p, load)
  PROVE  /\ Len(published) \in Nat /\ Len(published') = Len(published) + 1
         /\ \A i \in 1..Len(published) : published'[i] = published[i]
         /\ published'[Len(published) + 1].load = load
         /\ outbox'[p].event.no = Len(published) + 1 /\ outbox[p].to = {}
         /\ \A q \in Callers \cup Launches : q # p => outbox'[q] = outbox[q]
         /\ UNCHANGED <<subs, queue, got, lost, joined>>
<1> DEFINE e == [no |-> Len(published) + 1, load |-> load]
           o == [event |-> e, to |-> Bus!Registered]
<1>1. /\ published \in Seq(Bus!Event) /\ Len(published) \in Nat
      /\ outbox \in [Callers \cup Launches -> Outbox]
  BY DEF BusInv, Shapes
<1>2. /\ published' = Append(published, e) /\ outbox' = [outbox EXCEPT ![p] = o] /\ outbox[p].to = {}
      /\ UNCHANGED <<subs, queue, got, lost, joined>>
  BY DEF PublishStep, Bus!Publish
<1>3. e \in Bus!Event
  <2>1. e \in [no : Nat \ {0}, load : Payloads] => e \in Bus!Event
    BY PTL DEF Bus!Event, Payloads, Types, Hows
  <2>2. Len(published) + 1 \in Nat \ {0}
    BY <1>1
  <2> QED BY <2>1, <2>2
<1>4. e.load = load /\ e.no = Len(published) + 1 /\ o.event = e
  OBVIOUS
<1> HIDE DEF e, o
<1>5. /\ Len(published') = Len(published) + 1 /\ published'[Len(published) + 1] = e
      /\ \A i \in 1..Len(published) : published'[i] = published[i]
  <2>1. Append(published, e)[Len(published) + 1] = e /\ Len(Append(published, e)) = Len(published) + 1
        /\ \A i \in 1..Len(published) : Append(published, e)[i] = published[i]
    BY <1>1, <1>3
  <2> QED BY <1>2, <2>1
<1>6. outbox'[p] = o /\ \A q \in Callers \cup Launches : q # p => outbox'[q] = outbox[q]
  BY <1>1, <1>2
<1> QED BY <1>1, <1>2, <1>4, <1>5, <1>6

\* Where the thread is that publishes a start or an end.
LEMMA PublishedIs ==
  ASSUME NEW p, NEW load, PublishStep(p, load)
  PROVE  /\ load.type = "RUN_STARTED" => /\ p \in Callers /\ load.launch = caller[p].launch /\ caller[p].pc = "announce"
                                         /\ caller'[p].pc = "plugins" /\ caller'[p].launch = caller[p].launch
         /\ load.type = "RUN_FINISHED" => /\ p \in Launches /\ load.launch = p /\ worker[p].pc = "announce"
                                          /\ worker'[p].pc = "done"
<1>1. ASSUME NEW t, NEW l, NEW h, load = Event(t, l, h)
      PROVE  load.type = t /\ load.launch = l
  BY <1>1 DEF Event
<1>2. "RUN_STARTED" # "RUN_FINISHED"
  OBVIOUS
<1>3. CASE p \in Callers /\ load = Event("RUN_STARTED", caller[p].launch, "") /\ caller[p].pc = "announce"
        /\ caller'[p].pc = "plugins" /\ caller'[p].launch = caller[p].launch
  <2>1. load.type = "RUN_STARTED" /\ load.launch = caller[p].launch
    BY <1>1, <1>3
  <2> QED BY <1>2, <1>3, <2>1
<1>4. ASSUME NEW h, load = Event("RUN_FINISHED", p, h), p \in Launches, worker[p].pc = "announce", worker'[p].pc = "done"
      PROVE  /\ load.type # "RUN_STARTED" /\ load.launch = p
  <2>1. load.type = "RUN_FINISHED" /\ load.launch = p
    BY <1>1, <1>4
  <2> QED BY <1>2, <2>1
<1> QED BY <1>3, <1>4 DEF PublishStep

\* The steps that publish nothing.
Unpublishing ==
  /\ published' = published
  /\ \A p \in Callers \cup Launches : outbox'[p].to \subseteq outbox[p].to /\ outbox'[p].event = outbox[p].event

\* A step keeps each start published before the end.
LEMMA StartsAndEndsStep ==
  ASSUME Threads, Ended, Bus!EventBusConstants, BusInv, StartsAndEnds, [Next]_vars
  PROVE  StartsAndEnds'
<1> DEFINE n == Len(published)
<1>0. /\ n \in Nat
      /\ \A p \in Callers \cup Launches : outbox[p].to # {} => outbox[p].event.no \in 1..n
  <2>1. n \in Nat /\ HandsApart
    BY BusFacts DEF BusInv
  <2> QED BY <2>1 DEF HandsApart
<1>1. \/ Unpublishing
      \/ \E p \in Callers \cup Launches, load \in Payloads : PublishStep(p, load)
  <2>1. CASE UNCHANGED busVars
    BY <2>1 DEF busVars, Unpublishing
  <2>2. ASSUME NEW s \in Bus!Sids, NEW e \in Bus!Event, PutStep(s, e)
        PROVE  Unpublishing
    BY <2>2 DEF PutStep, Unpublishing
  <2>3. CASE QuietStep
    BY <2>3 DEF QuietStep, Unpublishing
  <2> QED BY <2>1, <2>2, <2>3, BusStepKinds
<1>2. n <= Len(published') /\ \A i \in 1..n : published'[i] = published[i]
  <2>1. CASE Unpublishing
    BY <1>0, <2>1 DEF Unpublishing
  <2>2. ASSUME NEW p \in Callers \cup Launches, NEW load \in Payloads, PublishStep(p, load)
        PROVE  n <= Len(published') /\ \A i \in 1..n : published'[i] = published[i]
    BY <1>0, <2>2, PublishFacts
  <2> QED BY <1>1, <2>1, <2>2
<1>3. Len(published') \in Nat
  <2>1. CASE Unpublishing
    BY <1>0, <2>1 DEF Unpublishing
  <2>2. ASSUME NEW p \in Callers \cup Launches, NEW load \in Payloads, PublishStep(p, load)
        PROVE  Len(published') \in Nat
    <3>1. Len(published') = n + 1
      BY <2>2, PublishFacts
    <3> HIDE DEF n
    <3> QED BY <1>0, <3>1
  <2> QED BY <1>1, <2>1, <2>2
<1>4. 1..n \subseteq 1..Len(published')
  BY <1>0, <1>2, <1>3
<1>5. \A t, l : \A i \in 1..n : Is(t, l, i)' <=> Is(t, l, i)
  BY <1>2 DEF Is
<1>6. ASSUME NEW l, \E i \in 1..n : Is("RUN_STARTED", l, i)
      PROVE  \E i \in 1..Len(published') : Is("RUN_STARTED", l, i)'
  BY <1>4, <1>5, <1>6
<1>7. ASSUME NEW l \in Launches, worker'[l].pc # "none"
      PROVE  \E i \in 1..Len(published') : Is("RUN_STARTED", l, i)'
  <2>1. worker[l].pc # "none" \/ \E c \in Callers : caller[c].pc = "start" /\ caller[c].launch = l
    BY <1>7, ThreadSteps
  <2> QED BY <1>6, <2>1 DEF StartsAndEnds
<1>8. ASSUME NEW c \in Callers, NEW l, caller'[c].pc \in {"plugins", "start"}, caller[c].launch = l
      PROVE  \E i \in 1..Len(published') : Is("RUN_STARTED", l, i)'
  <2>1. caller[c].pc \in {"plugins", "start"} \/ (caller[c].pc = "announce" /\ LaunchAnnounce(c))
    BY <1>8, ThreadSteps
  <2>2. CASE caller[c].pc \in {"plugins", "start"}
    BY <1>6, <1>8, <2>2 DEF StartsAndEnds
  <2>3. CASE LaunchAnnounce(c)
    <3> DEFINE load == Event("RUN_STARTED", caller[c].launch, "")
               e == [no |-> n + 1, load |-> load]
    <3>1. published' = Append(published, e) /\ published \in Seq(Bus!Event)
      BY <2>3 DEF LaunchAnnounce, Bus!Publish, BusInv, Shapes
    <3>2. e.load = load /\ load.type = "RUN_STARTED" /\ load.launch = l
      BY <1>8 DEF Event
    <3> HIDE DEF e, load
    <3>3. Len(published') = n + 1 /\ published'[n + 1] = e
      <4>1. Append(published, e)[Len(published) + 1] = e /\ Len(Append(published, e)) = Len(published) + 1
        BY <3>1
      <4> QED BY <3>1, <4>1
    <3>4. PICK m : m = n + 1
      OBVIOUS
    <3>5. m \in 1..Len(published') /\ Is("RUN_STARTED", l, m)'
      <4>1. m \in 1..Len(published')
        BY <1>0, <3>3, <3>4
      <4> QED BY <3>2, <3>3, <3>4, <4>1 DEF Is
    <3> QED BY <3>5
  <2> QED BY <2>1, <2>2, <2>3
<1>9. ASSUME NEW p \in Callers \cup Launches, NEW l \in Launches, NEW m, outbox'[p].to # {},
             m = outbox'[p].event.no, Is("RUN_STARTED", l, m)'
      PROVE  p \in Callers /\ caller'[p].pc = "plugins" /\ caller'[p].launch = l
  <2>1. ASSUME outbox[p].to # {}, outbox'[p].event = outbox[p].event
        PROVE  p \in Callers /\ caller'[p].pc = "plugins" /\ caller'[p].launch = l
    <3>1. m = outbox[p].event.no /\ m \in 1..n
      BY <1>0, <1>9, <2>1
    <3>2. Is("RUN_STARTED", l, m)
      BY <1>5, <1>9, <3>1
    <3>3. p \in Callers /\ caller[p].pc = "plugins" /\ caller[p].launch = l
      BY <2>1, <3>1, <3>2 DEF StartsAndEnds
    <3>4. caller'[p] = caller[p]
      BY <2>1, <3>3, ThreadSteps
    <3> QED BY <3>3, <3>4
  <2>2. CASE Unpublishing
    BY <1>9, <2>1, <2>2 DEF Unpublishing
  <2>3. ASSUME NEW q \in Callers \cup Launches, NEW load \in Payloads, PublishStep(q, load)
        PROVE  p \in Callers /\ caller'[p].pc = "plugins" /\ caller'[p].launch = l
    <3>1. CASE p # q
      <4>1. outbox'[p] = outbox[p]
        BY <2>3, <3>1, PublishFacts
      <4> QED BY <1>9, <2>1, <4>1
    <3>2. CASE p = q
      <4>1. m = n + 1 /\ published'[n + 1].load = load
        BY <1>9, <2>3, <3>2, PublishFacts
      <4>2. load.type = "RUN_STARTED" /\ load.launch = l
        BY <1>9, <4>1 DEF Is
      <4> QED BY <2>3, <3>2, <4>2, PublishedIs
    <3> QED BY <3>1, <3>2
  <2> QED BY <1>1, <2>2, <2>3
<1>10. ASSUME NEW i \in 1..Len(published'), NEW l \in Launches, Is("RUN_FINISHED", l, i)'
       PROVE  worker'[l].pc = "done" /\ \E j \in 1..(i - 1) : Is("RUN_STARTED", l, j)'
  <2>1. CASE i \in 1..n
    <3>1. worker[l].pc = "done" /\ \E j \in 1..(i - 1) : Is("RUN_STARTED", l, j)
      BY <1>5, <1>10, <2>1 DEF StartsAndEnds
    <3>2. 1..(i - 1) \subseteq 1..n
      BY <1>0, <2>1
    <3>3. worker'[l].pc = "done"
      BY <3>1, ThreadSteps
    <3> QED BY <1>5, <3>1, <3>2, <3>3
  <2>2. CASE i \notin 1..n
    <3>1. ~Unpublishing
      BY <2>2 DEF Unpublishing
    <3>2. PICK p \in Callers \cup Launches, load \in Payloads : PublishStep(p, load)
      BY <1>1, <3>1
    <3>3. Len(published') = n + 1 /\ published'[n + 1].load = load
      BY <3>2, PublishFacts
    <3>4. i = n + 1
      <4> HIDE DEF n
      <4> QED BY <1>0, <2>2, <3>3
    <3>5. load.type = "RUN_FINISHED" /\ load.launch = l
      BY <1>10, <3>3, <3>4 DEF Is
    <3>6. l = p /\ worker[p].pc = "announce" /\ worker'[p].pc = "done"
      BY <3>2, <3>5, PublishedIs
    <3>7. \E j \in 1..n : Is("RUN_STARTED", l, j)
      BY <3>6 DEF StartsAndEnds
    <3>8. 1..(i - 1) = 1..n
      BY <1>0, <3>4
    <3> QED BY <1>5, <3>6, <3>7, <3>8
  <2> QED BY <2>1, <2>2
<1>11. \A c \in Callers : caller'[c].pc \in {"plugins", "start"} =>
          \E i \in 1..Len(published') : Is("RUN_STARTED", caller[c].launch, i)'
  <2> SUFFICES ASSUME NEW c \in Callers, caller'[c].pc \in {"plugins", "start"}
               PROVE  \E i \in 1..Len(published') : Is("RUN_STARTED", caller[c].launch, i)'
    OBVIOUS
  <2>1. PICK l : l = caller[c].launch
    OBVIOUS
  <2>2. caller'[c].launch = l
    BY <2>1, ThreadSteps
  <2>3. PICK i \in 1..Len(published') : Is("RUN_STARTED", l, i)'
    BY <1>8, <2>1
  <2> QED BY <2>2, <2>3 DEF Is
<1>12. \A p \in Callers \cup Launches, l \in Launches :
          outbox'[p].to # {} /\ Is("RUN_STARTED", l, outbox[p].event.no)' =>
            p \in Callers /\ caller'[p].pc = "plugins" /\ caller'[p].launch = l
  BY <1>9 DEF Is
<1> QED BY <1>7, <1>10, <1>11, <1>12 DEF StartsAndEnds
\* What a subscriber has is of what was published.
LEMMA HaveFacts ==
  ASSUME Bus!EventBusConstants, BusInv, NEW s \in subs
  PROVE  /\ s \in Bus!Sids /\ Have(s) \in Seq(Bus!Event) /\ Len(published) \in Nat
         /\ got[s] \in Seq(Bus!Event) /\ queue[s] \in Seq(Bus!Event) /\ Len(Have(s)) \in Nat
         /\ Bus!UnderWay(s) \subseteq 1..Len(published)
         /\ \A k \in 1..Len(Have(s)) : Have(s)[k].no \in 1..Len(published)
<1>1. /\ s \in Bus!Sids /\ Len(published) \in Nat /\ got[s] \in Seq(Bus!Event)
      /\ queue[s] \in Seq(Bus!Event) /\ Have(s) \in Seq(Bus!Event)
      /\ Bus!UnderWay(s) \subseteq 1..Len(published)
  BY BusFacts DEF Have
<1>2. Bus!Numbers(Have(s)) \subseteq 1..Len(published)
  BY BusFacts DEF Have
<1>3. ASSUME NEW k \in 1..Len(Have(s))
      PROVE  Have(s)[k].no \in Bus!Numbers(Have(s))
  BY <1>1, NumbersByPlace
<1> QED BY <1>1, <1>2, <1>3

\* A run whose end was published is not being launched, so its start is in nobody's hands.
LEMMA NotLaunching ==
  ASSUME Threads, StartsAndEnds, NEW l \in Launches, NEW m \in 1..Len(published), Is("RUN_FINISHED", l, m)
  PROVE  /\ \A c \in Callers : caller[c].pc \in Launching => caller[c].launch # l
         /\ \A s, i : Is("RUN_STARTED", l, i) => i \notin InHands(s)
<1>1. worker[l].pc = "done"
  BY DEF StartsAndEnds
<1>2. \A c \in Callers : caller[c].pc \in Launching => caller[c].launch # l
  BY <1>1 DEF Threads, InHand
<1>3. ASSUME NEW s, NEW i, Is("RUN_STARTED", l, i), i \in InHands(s)
      PROVE  FALSE
  <2>1. PICK p \in Callers \cup Launches : s \in outbox[p].to /\ outbox[p].event.no = i
    BY <1>3 DEF InHands
  <2>2. p \in Callers /\ caller[p].pc = "plugins" /\ caller[p].launch = l
    BY <1>3, <2>1 DEF StartsAndEnds
  <2> QED BY <1>2, <2>2 DEF Launching
<1> QED BY <1>2, <1>3

\* A step keeps what a subscriber sees in the order of publication.
LEMMA SeenInOrderStep ==
  ASSUME Threads, Ended, Bus!EventBusConstants, BusInv, StartsAndEnds, SeenInOrder, [Next]_vars
  PROVE  SeenInOrder'
<1> DEFINE n == Len(published)
<1>2. ASSUME NEW p \in Callers \cup Launches, NEW load \in Payloads, PublishStep(p, load)
      PROVE  SeenInOrder'
  <2>1. /\ n \in Nat /\ Len(published') = n + 1 /\ \A i \in 1..n : published'[i] = published[i]
        /\ published'[n + 1].load = load /\ UNCHANGED <<subs, queue, got, lost, joined>>
    BY <1>2, PublishFacts
  <2>0. \A s : Have(s)' = Have(s) /\ \A i : Before(s, i)' <=> Before(s, i)
    BY <2>1 DEF Have, Before
  <2> SUFFICES ASSUME NEW s \in subs, NEW l \in Launches, NEW i \in 1..Len(published'), NEW k \in 1..Len(Have(s)),
                      Is("RUN_STARTED", l, i)', Before(s, i), NEW m, m = Have(s)[k].no, Is("RUN_FINISHED", l, m)'
               PROVE  i \in lost[s] \/ \E j \in 1..(k - 1) : Have(s)[j].no = i
    BY <2>0, <2>1, SMTT(30) DEF SeenInOrder, Is
  <2>2. m \in 1..n /\ Is("RUN_FINISHED", l, m)
    BY <2>1, HaveFacts DEF Is
  <2>3. CASE i \in 1..n
    <3>1. Is("RUN_STARTED", l, i)
      BY <2>1, <2>3 DEF Is
    <3> QED BY <2>2, <2>3, <3>1 DEF SeenInOrder
  <2>4. CASE i \notin 1..n
    <3>1. i = n + 1
      <4> HIDE DEF n
      <4> QED BY <2>1, <2>4
    <3>2. load.type = "RUN_STARTED" /\ load.launch = l
      BY <2>1, <3>1 DEF Is
    <3>3. p \in Callers /\ caller[p].pc = "announce" /\ caller[p].launch = l
      BY <1>2, <3>2, PublishedIs
    <3> QED BY <2>2, <3>3, NotLaunching DEF Launching
  <2> QED BY <2>3, <2>4
<1>3. ASSUME NEW t \in Bus!Sids, NEW e \in Bus!Event, PutStep(t, e)
      PROVE  SeenInOrder'
  <2>1. /\ UNCHANGED <<subs, joined, published, got>> /\ e.no \in Bus!UnderWay(t)
        /\ \A s \in Bus!Sids : lost[s] \subseteq lost'[s]
        /\ \A s \in Bus!Sids : s # t => queue'[s] = queue[s]
        /\ queue'[t] = queue[t] \/ queue'[t] = Append(queue[t], e)
    BY <1>3 DEF PutStep
  <2>0. \A s, i : Before(s, i)' <=> Before(s, i)
    BY <2>1 DEF Before
  <2> SUFFICES ASSUME NEW s \in subs, NEW l \in Launches, NEW i \in 1..n, NEW k \in 1..Len(Have(s)'),
                      Is("RUN_STARTED", l, i), Before(s, i), NEW m, m = Have(s)'[k].no, Is("RUN_FINISHED", l, m)
               PROVE  i \in lost'[s] \/ \E j \in 1..(k - 1) : Have(s)'[j].no = i
    BY <2>0, <2>1 DEF SeenInOrder, Is
  <2>2. s \in Bus!Sids /\ n \in Nat
    BY HaveFacts
  <2>3. CASE Have(s)' = Have(s)
    BY <2>1, <2>2, <2>3 DEF SeenInOrder
  <2>4. CASE s = t /\ Have(s)' = got[s] \o Append(queue[s], e)
    <3>1. /\ Len(Have(s)) \in Nat /\ Len(Have(s)') = Len(Have(s)) + 1 /\ Have(s)'[Len(Have(s)) + 1] = e
          /\ \A j \in 1..Len(Have(s)) : Have(s)'[j] = Have(s)[j]
      <4>1. got[s] \in Seq(Bus!Event) /\ queue[s] \in Seq(Bus!Event)
        BY HaveFacts
      <4>2. PICK new : new = got[s] \o Append(queue[s], e)
        OBVIOUS
      <4>3. PICK old : old = got[s] \o queue[s]
        OBVIOUS
      <4>4. Len(old) \in Nat /\ Len(new) = Len(old) + 1 /\ new[Len(old) + 1] = e
            /\ \A j \in 1..Len(old) : new[j] = old[j]
        BY <4>1, <4>2, <4>3, PutAtEnd
      <4>5. Have(s)' = new /\ Have(s) = old
        BY <2>4, <4>2, <4>3 DEF Have
      <4> QED BY <4>4, <4>5
    <3>2. CASE k \in 1..Len(Have(s))
      <4>1. i \in lost[s] \/ \E j \in 1..(k - 1) : Have(s)[j].no = i
        BY <3>1, <3>2 DEF SeenInOrder
      <4>2. 1..(k - 1) \subseteq 1..Len(Have(s))
        BY <3>1, <3>2
      <4> QED BY <2>1, <2>2, <3>1, <4>1, <4>2
    <3>3. CASE k \notin 1..Len(Have(s))
      <4>1. k = Len(Have(s)) + 1
        BY <3>1, <3>3
      <4>2. m = e.no
        BY <3>1, <4>1
      <4>3. m \in 1..n
        BY <2>1, <2>4, <4>2, HaveFacts
      <4>4. i \notin InHands(s)
        BY <4>3, NotLaunching
      <4>5. i \in Bus!Numbers(Have(s)) \cup lost[s]
        BY <4>4, SeenOrLost DEF Before, Have
      <4>6. CASE i \in Bus!Numbers(Have(s))
        <5>1. PICK j \in 1..Len(Have(s)) : Have(s)[j].no = i
          BY <4>6, HaveFacts, NumbersByPlace
        <5>2. j \in 1..(k - 1)
          BY <3>1, <4>1
        <5> QED BY <3>1, <5>1, <5>2
      <4> QED BY <2>1, <2>2, <4>5, <4>6
    <3> QED BY <3>2, <3>3
  <2>5. Have(s)' = Have(s) \/ (s = t /\ Have(s)' = got[s] \o Append(queue[s], e))
    BY <2>1, <2>2 DEF Have
  <2> QED BY <2>3, <2>4, <2>5
<1>4. CASE QuietStep \/ UNCHANGED busVars
  <2>1. /\ UNCHANGED <<published, lost>>
        /\ \A s \in subs' : \/ s \in subs /\ Have(s)' = Have(s) /\ joined'[s] = joined[s]
                            \/ Have(s)' = <<>>
    BY <1>4 DEF QuietStep, Have, busVars
  <2> SUFFICES ASSUME NEW s \in subs', NEW l \in Launches, NEW i \in 1..n, NEW k \in 1..Len(Have(s)'),
                      Is("RUN_STARTED", l, i), Before(s, i)', NEW m, m = Have(s)'[k].no, Is("RUN_FINISHED", l, m)
               PROVE  i \in lost[s] \/ \E j \in 1..(k - 1) : Have(s)'[j].no = i
    BY <2>1 DEF SeenInOrder, Is
  <2>2. CASE Have(s)' = <<>>
    <3>1. Len(Have(s)') = 0
      BY <2>2
    <3> QED BY <3>1
  <2>3. CASE s \in subs /\ Have(s)' = Have(s) /\ joined'[s] = joined[s]
    <3>1. Before(s, i)
      BY <2>3 DEF Before
    <3> QED BY <2>3, <3>1 DEF SeenInOrder
  <2> QED BY <2>1, <2>2, <2>3
<1> QED BY <1>2, <1>3, <1>4, BusStepKinds
\* EventAt is the place of such an event, or 0 if there is none.
LEMMA EventAtFacts ==
  ASSUME published \in Seq(Bus!Event), NEW type, NEW l
  PROVE  /\ EventAt(type, l) # 0 => EventAt(type, l) \in 1..Len(published) /\ Is(type, l, EventAt(type, l))
         /\ \A i \in 1..Len(published) : Is(type, l, i) => EventAt(type, l) # 0
<1> DEFINE at == {i \in DOMAIN published : published[i].load.type = type
                                           /\ published[i].load.launch = l}
<1>1. /\ at \subseteq 1..Len(published) /\ at \in SUBSET Nat
      /\ \A i \in 1..Len(published) : i \in at <=> Is(type, l, i)
  BY DEF Is
<1>2. EventAt(type, l) = IF at = {} THEN 0 ELSE CHOOSE i \in at : \A j \in at : i <= j
  BY DEF EventAt
<1> HIDE DEF at
<1>3. at # {} => (CHOOSE i \in at : \A j \in at : i <= j) \in at
  BY <1>1, LeastIsIn
<1>4. CASE at = {}
  BY <1>1, <1>2, <1>4
<1>5. CASE at # {}
  <2>1. EventAt(type, l) \in at
    BY <1>2, <1>3, <1>5
  <2>2. 0 \notin 1..Len(published)
    OBVIOUS
  <2> QED BY <1>1, <2>1, <2>2
<1> QED BY <1>4, <1>5

\* PlaceOf is the place of that event, of which there is only one.
LEMMA PlaceOfFacts ==
  ASSUME Bus!EventBusConstants, BusInv, NEW s \in subs, NEW n
  PROVE  /\ PlaceOf(s, n) # 0 => PlaceOf(s, n) \in 1..Len(Have(s)) /\ Have(s)[PlaceOf(s, n)].no = n
         /\ \A k \in 1..Len(Have(s)) : Have(s)[k].no = n => PlaceOf(s, n) = k
<1> DEFINE at == {i \in DOMAIN Have(s) : Have(s)[i].no = n}
<1>1. Have(s) \in Seq(Bus!Event) /\ Len(Have(s)) \in Nat
  BY HaveFacts
<1>2. PlaceOf(s, n) = IF at = {} THEN 0 ELSE CHOOSE i \in at : TRUE
  BY DEF PlaceOf, Have
<1>3. \A i, j \in 1..Len(Have(s)) : Have(s)[i].no = Have(s)[j].no => i = j
  BY DEF BusInv, Once, Distinct, Have
<1>4. \A i : i \in at <=> i \in 1..Len(Have(s)) /\ Have(s)[i].no = n
  BY <1>1
<1> HIDE DEF at
<1>5. at # {} => PlaceOf(s, n) \in at
  BY <1>2
<1>6. at = {} => PlaceOf(s, n) = 0
  BY <1>2
<1> QED BY <1>3, <1>4, <1>5, <1>6

\* Who was there before a run's start was published sees the start before the end or has
\* lost it to a full queue, whatever the order in which the queues are filled.
THEOREM StartCorrect == Spec => []StartSeenBeforeEnd
<1>0. Bus!EventBusConstants
  BY BusConstants
<1>1. Spec => []BusInv
  <2>1. Bus!Spec => []BusInv
    BY <1>0, BusInvariant
  <2> QED BY <2>1, BusUsed, PTL
<1>2. Init => StartsAndEnds /\ SeenInOrder
  <2>1. ASSUME Init
        PROVE  /\ published = <<>> /\ subs = {} /\ \A p \in Callers \cup Launches : outbox[p].to = {}
               /\ \A c \in Callers : caller[c].pc = "idle"
               /\ \A l \in Launches : worker[l].pc = "none"
    BY <2>1, RestIsCaller DEF Init, Bus!Init, Bus!Idle
  <2>2. \A i \in 1..Len(<<>>) : FALSE
    OBVIOUS
  <2> QED BY <2>1, <2>2 DEF StartsAndEnds, SeenInOrder
<1>3. Spec => [](StartsAndEnds /\ SeenInOrder)
  <2>1. /\ Threads /\ Ended /\ BusInv /\ StartsAndEnds /\ SeenInOrder /\ [Next]_vars
        => StartsAndEnds' /\ SeenInOrder'
    BY <1>0, StartsAndEndsStep, SeenInOrderStep
  <2> QED BY <1>1, <1>2, <2>1, EndedKept, PTL DEF Spec
<1>4. BusInv /\ StartsAndEnds /\ SeenInOrder => StartSeenBeforeEnd
  <2> SUFFICES ASSUME BusInv, StartsAndEnds, SeenInOrder, NEW s \in subs, NEW l \in Launches,
                      NEW start, start = EventAt("RUN_STARTED", l), NEW end, end = EventAt("RUN_FINISHED", l)
               PROVE  /\ end # 0 => start # 0
                      /\ /\ joined[s] = <<>> \/ joined[s][Len(joined[s])].no < start
                         /\ PlaceOf(s, end) # 0
                         => PlaceOf(s, start) \in 1..(PlaceOf(s, end) - 1) \/ start \in lost[s]
    BY DEF StartSeenBeforeEnd
  <2>0. published \in Seq(Bus!Event) /\ Len(published) \in Nat
    BY DEF BusInv, Shapes
  <2>1. ASSUME end # 0
        PROVE  /\ end \in 1..Len(published) /\ Is("RUN_FINISHED", l, end)
               /\ start \in 1..Len(published) /\ Is("RUN_STARTED", l, start) /\ start # 0
    <3>1. end \in 1..Len(published) /\ Is("RUN_FINISHED", l, end)
      BY <2>0, <2>1, EventAtFacts
    <3>2. PICK j \in 1..(end - 1) : Is("RUN_STARTED", l, j)
      BY <3>1 DEF StartsAndEnds
    <3>3. j \in 1..Len(published)
      BY <2>0, <3>1
    <3>4. start # 0
      BY <2>0, <3>2, <3>3, EventAtFacts
    <3> QED BY <2>0, <3>1, <3>4, EventAtFacts
  <2>2. ASSUME Before(s, start), PlaceOf(s, end) # 0
        PROVE  PlaceOf(s, start) \in 1..(PlaceOf(s, end) - 1) \/ start \in lost[s]
    <3>1. PICK k : k = PlaceOf(s, end)
      OBVIOUS
    <3>2. k \in 1..Len(Have(s)) /\ Have(s)[k].no = end /\ Len(Have(s)) \in Nat
      BY <1>0, <2>2, <3>1, PlaceOfFacts, HaveFacts
    <3>3. end \in 1..Len(published)
      BY <1>0, <3>2, HaveFacts
    <3>4. Is("RUN_FINISHED", l, end) /\ start \in 1..Len(published) /\ Is("RUN_STARTED", l, start)
      BY <2>0, <2>1, <3>3
    <3>5. start \in lost[s] \/ \E j \in 1..(k - 1) : Have(s)[j].no = start
      BY <2>2, <3>2, <3>4 DEF SeenInOrder
    <3>6. ASSUME NEW j \in 1..(k - 1), Have(s)[j].no = start
          PROVE  PlaceOf(s, start) = j
      <4>1. j \in 1..Len(Have(s))
        BY <3>2
      <4> QED BY <1>0, <3>6, <4>1, PlaceOfFacts
    <3> QED BY <3>1, <3>5, <3>6
  <2> QED BY <2>1, <2>2 DEF Before
<1> QED BY <1>1, <1>3, <1>4, PTL
=============================================================================
