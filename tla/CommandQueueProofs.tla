------------------------- MODULE CommandQueueProofs -------------------------
(* Theorems about CommandQueue, for every set of sources and correlation   *)
(* ids, every limit and both modes.                                        *)
EXTENDS CommandQueue, FiniteSetTheorems, TLAPS

(* The whole periods in an elapsed time are a natural number.              *)
LEMMA PeriodsNat ==
  ASSUME NEW e \in Nat, NEW r \in Nat \ {0}
  PROVE  e \div r \in Nat
  OBVIOUS

(* A refill leaves a bucket between empty and full, with a stamp that is   *)
(* not in the future (RateLimiter.allow).                                  *)
LEMMA RefilledType ==
  ASSUME NEW l \in Limiter, now \in Nat
  PROVE  Refilled(l) \in Limiter
<1> USE QueueConstants
<1>1. CASE now >= l.lastRefill
  <2>1. (now - l.lastRefill) \div RefillSeconds \in Nat
    BY <1>1, PeriodsNat DEF Limiter
  <2> QED BY <2>1 DEF Refilled, Limiter
<1>2. CASE now < l.lastRefill
  <2>1. (now - l.lastRefill) \div RefillSeconds \in Int
    BY <1>2 DEF Limiter
  <2> QED BY <2>1 DEF Refilled, Limiter
<1> QED BY <1>1, <1>2 DEF Limiter

\* Taking a granted token from a well-formed bucket leaves it well formed.
LEMMA TakeToken ==
  ASSUME NEW l \in Limiter, l.available > 0
  PROVE  [l EXCEPT !.available = @ - 1] \in Limiter
  BY QueueConstants DEF Limiter

\* RateLimiter.allow leaves a source's bucket well formed.
LEMMA AfterAllowType ==
  ASSUME TypeOK, NEW s \in Sources
  PROVE  AfterAllow(s) \in Limiter
<1>1. GetLimiter(s) \in Limiter
  BY QueueConstants DEF GetLimiter, TypeOK, Limiter
<1>2. Refilled(GetLimiter(s)) \in Limiter
  BY <1>1, RefilledType DEF TypeOK
<1> QED BY <1>2, TakeToken DEF AfterAllow

\* CircuitBreaker.record leaves a breaker well formed.
LEMMA RecordedType ==
  ASSUME now \in Nat, NEW b \in Breaker, NEW success \in BOOLEAN
  PROVE  Recorded(b, success) \in Breaker
<1>1. [b EXCEPT !.consecutive = 0] \in Breaker
  BY DEF Breaker
<1>2. b.consecutive + 1 \in Nat /\ now + CoolDown \in Nat /\ b.trippedUntil \in Nat
  BY QueueConstants DEF Breaker
<1> QED BY <1>1, <1>2 DEF Recorded, Breaker

(* Counting keeps the counters natural numbers (CommandQueue.stats).       *)
LEMMA CountRejected ==
  ASSUME stats \in Stats, NEW r \in Reasons
  PROVE  [stats EXCEPT !.rejected[r] = @ + 1] \in Stats
  BY DEF Stats

\* The same for the counter of accepted commands (enqueue).
LEMMA CountEnqueued ==
  ASSUME stats \in Stats
  PROVE  [stats EXCEPT !.enqueued = @ + 1] \in Stats
  BY DEF Stats

\* The same for the counter of executed commands (record_outcome).
LEMMA CountExecuted ==
  ASSUME stats \in Stats
  PROVE  [stats EXCEPT !.executed = @ + 1] \in Stats
  BY DEF Stats

(* Asking the limiter adds at most the source to the dict and keeps every  *)
(* bucket well formed.                                                     *)
LEMMA AskLimiterType ==
  ASSUME TypeOK, NEW c \in Command, AskLimiter(c)
  PROVE  /\ DOMAIN limiter' \subseteq Sources
         /\ limiter' \in [DOMAIN limiter' -> Limiter]
<1>1. c.source \in Sources
  BY DEF Command
<1>2. AfterAllow(c.source) \in Limiter
  BY <1>1, AfterAllowType
<1>3. CASE PutLimiter(c.source, AfterAllow(c.source))
  BY <1>1, <1>2, <1>3 DEF PutLimiter, TypeOK
<1>4. CASE UNCHANGED limiter
  BY <1>4 DEF TypeOK
<1> QED BY <1>3, <1>4 DEF AskLimiter

\* Recording a result with a source's breaker keeps all breakers and the history well formed.
LEMMA RecordType ==
  ASSUME TypeOK, NEW s \in Sources, NEW success \in BOOLEAN, Record(s, success)
  PROVE  /\ breaker' \in [Sources -> Breaker]
         /\ results' \in [Sources -> Seq(Result)]
<1>1. Recorded(breaker[s], success) \in Breaker
  BY RecordedType DEF TypeOK
<1>2. [ok |-> success, at |-> now] \in Result
  BY DEF TypeOK, Result
<1>3. Append(results[s], [ok |-> success, at |-> now]) \in Seq(Result)
  BY <1>2 DEF TypeOK
<1> QED BY <1>1, <1>3 DEF Record, TypeOK

(* The variables keep their types, the buckets among them: no bucket holds *)
(* more than its size, whatever the clock did between two requests.        *)
THEOREM TypeCorrect == Spec => []TypeOK
<1>1. Init => TypeOK
  BY QueueConstants DEF Init, TypeOK, Limiter, Breaker, Stats
<1>2. TypeOK /\ [Next]_vars => TypeOK'
  <2> SUFFICES ASSUME TypeOK, [Next]_vars
               PROVE  TypeOK'
    OBVIOUS
  <2>0. stats \in Stats
    BY DEF TypeOK
  <2>1. CASE Tick
    BY <2>1 DEF Tick, TypeOK, history
  <2>2. ASSUME NEW c \in Command, Refuse(c)
        PROVE  TypeOK'
    <3>1. c.source \in Sources /\ Verdict(c) \in Reasons
      BY <2>2 DEF Command, Refuse, Reasons
    <3>2. DOMAIN limiter' \subseteq Sources /\ limiter' \in [DOMAIN limiter' -> Limiter]
      BY <2>2, AskLimiterType DEF Refuse
    <3>3. breaker' \in [Sources -> Breaker] /\ results' \in [Sources -> Seq(Result)]
      <4>1. CASE Record(c.source, FALSE)
        BY <3>1, <4>1, RecordType
      <4>2. CASE UNCHANGED <<breaker, results>>
        BY <4>2 DEF TypeOK
      <4> QED BY <4>1, <4>2, <2>2 DEF Refuse
    <3>4. stats' \in Stats
      BY <2>2, <3>1, <2>0, CountRejected DEF Refuse
    <3> QED BY <2>2, <3>2, <3>3, <3>4 DEF Refuse, TypeOK
  <2>3. ASSUME NEW c \in Command, Accept(c)
        PROVE  TypeOK'
    <3>1. c.source \in Sources /\ c.cid \in Cids /\ c.body \in Bodies /\ c.replay \in BOOLEAN
      BY DEF Command
    <3>2. DOMAIN limiter' \subseteq Sources /\ limiter' \in [DOMAIN limiter' -> Limiter]
      BY <2>3, AskLimiterType DEF Accept
    <3>3. q' \in Seq(Payload)
      BY <2>3, <3>1 DEF Accept, TypeOK, Payload
    <3>4. accepted' \in Seq(Acceptance)
      BY <2>3, <3>1 DEF Accept, TypeOK, Acceptance
    <3>5. perSource' \in [Sources -> Nat] /\ seen' \subseteq Cids
      BY <2>3, <3>1 DEF Accept, TypeOK
    <3>6. stats' \in Stats
      BY <2>3, <2>0, CountEnqueued DEF Accept
    <3> QED BY <2>3, <3>2, <3>3, <3>4, <3>5, <3>6 DEF Accept, TypeOK
  <2>4. CASE Drain
    BY <2>4 DEF Drain, TypeOK
  <2>5. ASSUME NEW s \in Sources, OutcomeExecuted(s)
        PROVE  TypeOK'
    <3>1. breaker' \in [Sources -> Breaker] /\ results' \in [Sources -> Seq(Result)]
      BY <2>5, RecordType DEF OutcomeExecuted
    <3>2. stats' \in Stats
      BY <2>5, <2>0, CountExecuted DEF OutcomeExecuted
    <3> QED BY <2>5, <3>1, <3>2 DEF OutcomeExecuted, TypeOK
  <2>6. ASSUME NEW s \in Sources, NEW r \in OutcomeReasons, OutcomeRejected(s, r)
        PROVE  TypeOK'
    <3>1. breaker' \in [Sources -> Breaker] /\ results' \in [Sources -> Seq(Result)]
      BY <2>6, RecordType DEF OutcomeRejected
    <3>2. r \in Reasons
      BY DEF Reasons
    <3>3. stats' \in Stats
      BY <2>6, <3>2, <2>0, CountRejected DEF OutcomeRejected
    <3> QED BY <2>6, <3>1, <3>3 DEF OutcomeRejected, TypeOK
  <2>7. CASE UNCHANGED vars
    BY <2>7 DEF vars, queueVars, history, TypeOK
  <2> QED BY <2>1, <2>2, <2>3, <2>4, <2>5, <2>6, <2>7 DEF Next, Enqueue
<1> QED BY <1>1, <1>2, PTL DEF Spec

-----------------------------------------------------------------------------
(* The queue's limits, counters and order.                                 *)

\* What is known of a command that `enqueue` accepts.
LEMMA AcceptedVerdict ==
  ASSUME NEW c \in Command, Verdict(c) = "accepted"
  PROVE  /\ c.form = "ok"
         /\ c.cid \notin seen
         /\ ~c.replay => /\ ~(Len(q) >= QueueMax)
                         /\ ~(perSource[c.source] >= Quota)
                         /\ BreakerAllows(c.source)
                         /\ HasToken(c.source)
<1>1. c.form \in Forms /\ c.form # "accepted"
  BY DEF Command, Forms
<1> QED BY <1>1 DEF Verdict

\* The correlation ids remembered are those that were accepted.
SeenIsAccepted == seen = {accepted[i].cid : i \in DOMAIN accepted}

(* The per-source counters are the number of commands queued, through      *)
(* every interleaving of intake and drain.                                 *)
THEOREM CountsCorrect == Spec => []CountsMatchQueue
<1>1. Init => CountsMatchQueue
  <2> SUFFICES ASSUME Init, NEW s \in Sources
               PROVE  perSource[s] = Cardinality(QueuedFrom(s))
    BY DEF CountsMatchQueue
  <2>1. QueuedFrom(s) = {}
    BY DEF Init, QueuedFrom
  <2> QED BY <2>1, FS_EmptySet DEF Init
<1>2. TypeOK /\ CountsMatchQueue /\ [Next]_vars => CountsMatchQueue'
  <2> SUFFICES ASSUME TypeOK, CountsMatchQueue, [Next]_vars, NEW s \in Sources
               PROVE  perSource'[s] = Cardinality(QueuedFrom(s)')
    BY DEF CountsMatchQueue
  <2>1. ASSUME NEW c \in Command, Accept(c)
        PROVE  perSource'[s] = Cardinality(QueuedFrom(s)')
    <3> DEFINE n == Len(q) + 1
               p == [cid |-> c.cid, source |-> c.source, body |-> c.body]
    <3>1. q' = Append(q, p) /\ q \in Seq(Payload) /\ p \in Payload
      BY <2>1 DEF Accept, TypeOK, Command, Payload
    <3>2. DOMAIN q = 1..Len(q) /\ DOMAIN q' = 1..n /\ Len(q) \in Nat
      BY <3>1
    <3>3. \A i \in 1..n : q'[i] = IF i <= Len(q) THEN q[i] ELSE p
      BY <3>1
    <3>4. QueuedFrom(s) \subseteq 1..Len(q) /\ n \notin QueuedFrom(s)
      BY <3>2 DEF QueuedFrom
    <3>5. IsFiniteSet(QueuedFrom(s))
      <4>1. IsFiniteSet(1..Len(q))
        BY <3>2, FS_Interval
      <4> QED BY <3>4, <4>1, FS_Subset
    <3>6. CASE s = c.source
      <4>1. QueuedFrom(s)' = QueuedFrom(s) \cup {n}
        BY <3>2, <3>3, <3>6 DEF QueuedFrom
      <4>2. Cardinality(QueuedFrom(s)') = Cardinality(QueuedFrom(s)) + 1
        BY <3>4, <3>5, <4>1, FS_AddElement
      <4> QED BY <2>1, <3>6, <4>2 DEF Accept, TypeOK, CountsMatchQueue
    <3>7. CASE s # c.source
      <4>1. QueuedFrom(s)' = QueuedFrom(s)
        BY <3>2, <3>3, <3>7 DEF QueuedFrom
      <4> QED BY <2>1, <3>7, <4>1 DEF Accept, TypeOK, CountsMatchQueue
    <3> QED BY <3>6, <3>7
  <2>2. CASE Drain
    <3>1. QueuedFrom(s)' = {}
      BY <2>2 DEF Drain, QueuedFrom
    <3> QED BY <2>2, <3>1, FS_EmptySet DEF Drain
  <2>3. CASE UNCHANGED <<q, perSource>>
    BY <2>3 DEF CountsMatchQueue, QueuedFrom
  <2> QED BY <2>1, <2>2, <2>3
       DEF Next, Enqueue, Tick, Refuse, OutcomeExecuted, OutcomeRejected, vars, queueVars
<1> QED BY <1>1, <1>2, TypeCorrect, PTL DEF Spec

(* Whatever was accepted is handed over in the same order or is still      *)
(* queued: enqueue and drain together lose and reorder nothing.            *)
THEOREM OrderCorrect == Spec => []HandedOverInOrder
<1>1. Init => HandedOverInOrder
  BY DEF Init, HandedOverInOrder
<1>2. TypeOK /\ HandedOverInOrder /\ [Next]_vars => HandedOverInOrder'
  <2> SUFFICES ASSUME TypeOK, HandedOverInOrder, [Next]_vars
               PROVE  HandedOverInOrder'
    OBVIOUS
  <2>0. /\ q \in Seq(Payload) /\ delivered \in Seq(Payload)
        /\ accepted \in Seq(Acceptance)
    BY DEF TypeOK
  <2>1. ASSUME NEW c \in Command, Accept(c)
        PROVE  HandedOverInOrder'
    <3> DEFINE p == [cid |-> c.cid, source |-> c.source, body |-> c.body]
               a == [cid |-> c.cid, source |-> c.source, at |-> now, replay |-> c.replay]
               all == delivered \o q
    <3>1. p \in Payload /\ a \in Acceptance
      BY DEF Command, Payload, Acceptance, TypeOK
    <3>2. q' = Append(q, p) /\ accepted' = Append(accepted, a) /\ delivered' = delivered
      BY <2>1 DEF Accept
    <3>3. all \in Seq(Payload) /\ delivered \o Append(q, p) = Append(all, p)
      BY <2>0, <3>1
    <3>4. Len(all) = Len(accepted)
          /\ \A i \in DOMAIN accepted :
               all[i].cid = accepted[i].cid /\ all[i].source = accepted[i].source
      BY DEF HandedOverInOrder
    <3> HIDE DEF all, p, a
    <3>0. all \in Seq(Payload) /\ Len(all) \in Nat /\ Len(all) = Len(accepted)
      BY <3>3, <3>4
    <3>5. Len(Append(all, p)) = Len(Append(accepted, a))
      BY <2>0, <3>1, <3>3, <3>4
    <3>6. ASSUME NEW i \in DOMAIN Append(accepted, a)
          PROVE  /\ Append(all, p)[i].cid = Append(accepted, a)[i].cid
                 /\ Append(all, p)[i].source = Append(accepted, a)[i].source
      <4>1. i \in 1..(Len(accepted) + 1)
        BY <2>0, <3>1
      <4>2. CASE i = Len(accepted) + 1
        <5>1. Append(all, p)[i] = p
          BY <3>0, <3>1, <4>2
        <5>2. Append(accepted, a)[i] = a
          BY <2>0, <3>1, <4>2
        <5>3. p.cid = a.cid /\ p.source = a.source
          BY DEF p, a
        <5> QED BY <5>1, <5>2, <5>3
      <4>3. CASE i \in 1..Len(accepted)
        <5>1. Append(all, p)[i] = all[i]
          BY <3>0, <3>1, <4>3
        <5>2. Append(accepted, a)[i] = accepted[i]
          BY <2>0, <3>1, <4>3
        <5>3. i \in DOMAIN accepted
          BY <2>0, <4>3
        <5>4. all[i].cid = accepted[i].cid /\ all[i].source = accepted[i].source
          BY <3>4, <5>3
        <5> QED BY <5>1, <5>2, <5>4
      <4>4. i = Len(accepted) + 1 \/ i \in 1..Len(accepted)
        BY <3>0, <4>1
      <4> QED BY <4>2, <4>3, <4>4
    <3> QED BY <3>2, <3>3, <3>5, <3>6 DEF HandedOverInOrder, p, a
  <2>2. CASE Drain
    <3>1. delivered' \o q' = delivered \o q
      BY <2>0, <2>2 DEF Drain
    <3> QED BY <2>2, <3>1 DEF Drain, HandedOverInOrder
  <2>3. CASE UNCHANGED <<q, delivered, accepted>>
    BY <2>3 DEF HandedOverInOrder
  <2> QED BY <2>1, <2>2, <2>3
       DEF Next, Enqueue, Tick, Refuse, OutcomeExecuted, OutcomeRejected, vars, queueVars, history
<1> QED BY <1>1, <1>2, TypeCorrect, PTL DEF Spec

(* A command that came without the mark is queued within the queue's limit  *)
(* and its source's quota, with whatever came before it counted in.        *)
THEOREM LimitsCorrect == Spec => []LimitsHeld
<1> DEFINE Inv == HandedOverInOrder /\ CountsMatchQueue
<1>1. Init => LimitsHeld
  BY DEF Init, LimitsHeld
<1>2. TypeOK /\ Inv /\ LimitsHeld /\ [Next]_vars => LimitsHeld'
  <2> SUFFICES ASSUME TypeOK, HandedOverInOrder, CountsMatchQueue, LimitsHeld, [Next]_vars
               PROVE  LimitsHeld'
    OBVIOUS
  <2>0. /\ q \in Seq(Payload) /\ delivered \in Seq(Payload) /\ accepted \in Seq(Acceptance)
        /\ Len(q) \in Nat /\ Len(delivered) \in Nat
        /\ DOMAIN q = 1..Len(q) /\ DOMAIN accepted = 1..Len(accepted)
    BY DEF TypeOK
  <2>1. Len(accepted) = Len(delivered) + Len(q)
    BY <2>0 DEF HandedOverInOrder
  <2>2. ASSUME NEW c \in Command, Accept(c)
        PROVE  LimitsHeld'
    <3> DEFINE m == Len(q) + 1
               p == [cid |-> c.cid, source |-> c.source, body |-> c.body]
               a == [cid |-> c.cid, source |-> c.source, at |-> now, replay |-> c.replay]
    <3>1. /\ p \in Payload /\ a \in Acceptance /\ p.source = c.source /\ a.replay = c.replay
          /\ c.source \in Sources
      BY DEF Command, Payload, Acceptance, TypeOK
    <3>2. q' = Append(q, p) /\ accepted' = Append(accepted, a) /\ delivered' = delivered
      BY <2>2 DEF Accept
    <3> HIDE DEF p, a
    <3>3. DOMAIN q' = 1..m /\ \A n \in 1..m : q'[n] = IF n = m THEN p ELSE q[n]
      BY <2>0, <3>1, <3>2
    <3>4. \A n \in 1..m : accepted'[Len(delivered) + n] = IF n = m THEN a ELSE accepted[Len(delivered) + n]
      BY <2>0, <2>1, <3>1, <3>2
    <3> DEFINE Upto(n) == {i \in 1..m : q'[i].source = q'[n].source /\ i <= n}
    <3>5. \A n \in 1..m : {i \in {j \in DOMAIN q' : q'[j].source = q'[n].source} : i <= n} = Upto(n)
      BY <3>3
    <3> SUFFICES ASSUME NEW n \in 1..m, ~accepted'[Len(delivered) + n].replay
                 PROVE  n <= QueueMax /\ Cardinality(Upto(n)) <= Quota
      <4> HIDE DEF m, Upto
      <4> QED BY <3>2, <3>3, <3>5 DEF LimitsHeld, Marked, QueuedFrom
    <3>6. CASE n = m
      <4> DEFINE S == QueuedFrom(c.source)
      <4>1. ~c.replay
        BY <3>1, <3>4, <3>6
      <4>2. Len(q) < QueueMax /\ perSource[c.source] < Quota
        <5>1. ~(Len(q) >= QueueMax) /\ ~(perSource[c.source] >= Quota)
          BY <2>2, <4>1, AcceptedVerdict DEF Accept
        <5>2. perSource[c.source] \in Nat
          BY <3>1 DEF TypeOK
        <5> QED BY <2>0, <5>1, <5>2, QueueConstants
      <4>3. q'[m] = p /\ \A i \in 1..Len(q) : q'[i] = q[i] /\ i # m
        BY <2>0, <3>3
      <4>4. Upto(n) = S \cup {m}
        BY <2>0, <3>1, <3>6, <4>3 DEF QueuedFrom
      <4>5. IsFiniteSet(S) /\ m \notin S
        <5>1. IsFiniteSet(1..Len(q)) /\ S \subseteq 1..Len(q)
          BY <2>0, FS_Interval DEF QueuedFrom
        <5> QED BY <2>0, <5>1, FS_Subset
      <4>6. Cardinality(S) = perSource[c.source] /\ perSource[c.source] \in Nat
        BY <3>1 DEF CountsMatchQueue, TypeOK
      <4>7. m \in Nat /\ m <= QueueMax
        BY <2>0, <4>2, QueueConstants
      <4> HIDE DEF S, m, Upto
      <4>8. Cardinality(S \cup {m}) = Cardinality(S) + 1
        BY <4>5, FS_AddElement
      <4> QED BY <3>6, <4>2, <4>4, <4>6, <4>7, <4>8, QueueConstants
    <3>7. CASE n \in 1..Len(q)
      <4>1. ~accepted[Len(delivered) + n].replay /\ q'[n] = q[n]
        BY <2>0, <3>3, <3>4, <3>7
      <4>2. \A i \in 1..Len(q) : q'[i] = q[i]
        BY <2>0, <3>3
      <4>3. Upto(n) = {i \in QueuedFrom(q[n].source) : i <= n}
        BY <2>0, <3>7, <4>2 DEF QueuedFrom
      <4> HIDE DEF Upto
      <4> QED BY <2>0, <3>7, <4>1, <4>3 DEF LimitsHeld, Marked
    <3> QED BY <2>0, <3>6, <3>7
  <2>3. CASE Drain
    BY <2>3 DEF Drain, LimitsHeld
  <2>4. CASE UNCHANGED <<q, accepted, delivered>>
    BY <2>4 DEF LimitsHeld, Marked, QueuedFrom
  <2> QED BY <2>2, <2>3, <2>4
       DEF Next, Enqueue, Tick, Refuse, OutcomeExecuted, OutcomeRejected, vars, queueVars, history
<1> QED BY <1>1, <1>2, TypeCorrect, CountsCorrect, OrderCorrect, PTL DEF Spec

(* The set of remembered ids, which only enqueue extends, is exactly the   *)
(* set of the accepted ones, and keeps each from being accepted again.     *)
LEMMA SeenCorrect == Spec => [](SeenIsAccepted /\ AcceptedAtMostOnce)
<1> DEFINE Inv == SeenIsAccepted /\ AcceptedAtMostOnce
<1>1. Init => Inv
  BY DEF Init, SeenIsAccepted, AcceptedAtMostOnce
<1>2. TypeOK /\ Inv /\ [Next]_vars => Inv'
  <2> SUFFICES ASSUME TypeOK, Inv, [Next]_vars
               PROVE  Inv'
    OBVIOUS
  <2>1. ASSUME NEW c \in Command, Accept(c)
        PROVE  Inv'
    <3> DEFINE a == [cid |-> c.cid, source |-> c.source, at |-> now, replay |-> c.replay]
               n == Len(accepted) + 1
    <3>1. accepted \in Seq(Acceptance) /\ a \in Acceptance
      BY DEF Command, Acceptance, TypeOK
    <3>2. accepted' = Append(accepted, a) /\ seen' = seen \cup {c.cid}
      BY <2>1 DEF Accept
    <3>3. DOMAIN accepted = 1..Len(accepted) /\ DOMAIN accepted' = 1..n /\ Len(accepted) \in Nat
      BY <3>1, <3>2
    <3>4. \A i \in 1..n : accepted'[i] = IF i = n THEN a ELSE accepted[i]
      BY <3>1, <3>2
    <3>5. c.cid \notin seen
      BY <2>1, AcceptedVerdict DEF Accept
    <3>6. \A i \in 1..Len(accepted) : accepted[i].cid # c.cid
      BY <3>3, <3>5 DEF SeenIsAccepted
    <3>7. \A i \in 1..n : accepted'[i].cid = IF i = n THEN c.cid ELSE accepted[i].cid
      BY <3>4
    <3>8. AcceptedAtMostOnce'
      BY <3>3, <3>6, <3>7 DEF AcceptedAtMostOnce
    <3>9. SeenIsAccepted'
      BY <3>2, <3>3, <3>7 DEF SeenIsAccepted
    <3> QED BY <3>8, <3>9
  <2>2. CASE UNCHANGED <<seen, accepted>>
    BY <2>2 DEF SeenIsAccepted, AcceptedAtMostOnce
  <2> QED BY <2>1, <2>2
       DEF Next, Enqueue, Tick, Refuse, Drain, OutcomeExecuted, OutcomeRejected, vars, queueVars, history
<1> QED BY <1>1, <1>2, TypeCorrect, PTL DEF Spec

(* A correlation id is accepted at most once in the life of the queue.     *)
THEOREM AcceptedOnceCorrect == Spec => []AcceptedAtMostOnce
  BY SeenCorrect, PTL

-----------------------------------------------------------------------------
(* The circuit breaker.                                                    *)

\* The breaker's counter is the length of the streak of failures that ends
\* the source's record, and once it reaches consecutive_rejects the source
\* is shut out for cool_down_seconds from its latest failure.
StreakTracked(s) ==
  LET k == breaker[s].consecutive
      n == Len(results[s])
  IN  /\ k <= n
      /\ \A i \in (n - k + 1)..n : ~results[s][i].ok
      /\ n > k => results[s][n - k].ok
      /\ k >= MaxRejects => breaker[s].trippedUntil >= results[s][n].at + CoolDown

BreakerInv == \A s \in Sources : StreakTracked(s)

(* Recording one result keeps the counter equal to the streak.             *)
LEMMA RecordKeepsStreak ==
  ASSUME TypeOK, BreakerInv, NEW s \in Sources, NEW success \in BOOLEAN, Record(s, success)
  PROVE  BreakerInv'
<1> USE QueueConstants
<1> DEFINE r == [ok |-> success, at |-> now]
           n == Len(results[s])
<1>1. /\ results[s] \in Seq(Result) /\ r \in Result /\ now \in Nat
      /\ breaker[s] \in Breaker
  BY DEF TypeOK, Result
<1>2. results'[s] = Append(results[s], r) /\ breaker'[s] = Recorded(breaker[s], success)
  BY DEF Record, TypeOK
<1>3. /\ n \in Nat /\ Len(results'[s]) = n + 1
      /\ \A i \in 1..n : results'[s][i] = results[s][i]
      /\ results'[s][n + 1] = r
  BY <1>1, <1>2
<1>4. r.ok = success /\ r.at = now
  OBVIOUS
<1> HIDE DEF r
<1>5. StreakTracked(s)
  BY DEF BreakerInv
<1>6. breaker[s].consecutive \in Nat /\ breaker[s].trippedUntil \in Nat
  BY <1>1 DEF Breaker
<1>7. StreakTracked(s)'
  <2>1. CASE success
    <3>1. breaker'[s].consecutive = 0
      BY <1>1, <1>2, <2>1 DEF Recorded, Breaker
    <3>2. results'[s][n + 1].ok
      BY <1>3, <1>4, <2>1
    <3> QED BY <1>3, <3>1, <3>2 DEF StreakTracked
  <2>2. CASE ~success
    <3> DEFINE k == breaker[s].consecutive
    <3>1. /\ breaker'[s].consecutive = k + 1
          /\ k + 1 >= MaxRejects => breaker'[s].trippedUntil = now + CoolDown
      BY <1>1, <1>2, <2>2 DEF Recorded, Breaker
    <3>2. k <= n /\ (\A i \in (n - k + 1)..n : ~results[s][i].ok) /\ (n > k => results[s][n - k].ok)
      BY <1>5 DEF StreakTracked
    <3>3. \A i \in (n - k + 1)..(n + 1) : ~results'[s][i].ok
      <4> SUFFICES ASSUME NEW i \in (n - k + 1)..(n + 1)
                   PROVE  ~results'[s][i].ok
        OBVIOUS
      <4>1. CASE i = n + 1
        BY <1>3, <1>4, <2>2, <4>1
      <4>2. CASE i # n + 1
        <5>1. i \in (n - k + 1)..n /\ i \in 1..n
          BY <1>3, <1>6, <3>2, <4>2
        <5> QED BY <1>3, <3>2, <5>1
      <4> QED BY <4>1, <4>2
    <3>4. n > k => results'[s][n - k].ok
      <4> SUFFICES ASSUME n > k
                   PROVE  results'[s][n - k].ok
        OBVIOUS
      <4>1. n - k \in 1..n
        BY <1>3, <1>6
      <4> QED BY <1>3, <3>2, <4>1
    <3>0. n \in Nat /\ k \in Nat
      BY <1>3, <1>6
    <3>5. (n + 1) - (k + 1) = n - k /\ (n + 1) - (k + 1) + 1 = n - k + 1
      BY <3>0, SMTT(30)
    <3>6. k + 1 <= n + 1 /\ ((n + 1 > k + 1) => n > k)
      BY <3>0, <3>2
    <3>7. k + 1 >= MaxRejects => breaker'[s].trippedUntil >= results'[s][n + 1].at + CoolDown
      BY <1>1, <1>3, <1>4, <3>1
    <3> QED BY <1>3, <3>1, <3>3, <3>4, <3>5, <3>6, <3>7 DEF StreakTracked
  <2> QED BY <2>1, <2>2
<1>8. ASSUME NEW t \in Sources, t # s
      PROVE  StreakTracked(t)'
  <2>1. breaker'[t] = breaker[t] /\ results'[t] = results[t]
    BY <1>8 DEF Record, TypeOK
  <2> QED BY <2>1 DEF BreakerInv, StreakTracked
<1> QED BY <1>7, <1>8 DEF BreakerInv

\* In every reachable state each breaker's counter is its source's streak.
LEMMA BreakerTracks == Spec => []BreakerInv
<1>1. Init => BreakerInv
  BY QueueConstants DEF Init, BreakerInv, StreakTracked
<1>2. TypeOK /\ BreakerInv /\ [Next]_vars => BreakerInv'
  <2> SUFFICES ASSUME TypeOK, BreakerInv, [Next]_vars
               PROVE  BreakerInv'
    OBVIOUS
  <2>1. CASE UNCHANGED <<breaker, results>>
    BY <2>1 DEF BreakerInv, StreakTracked
  <2>2. ASSUME NEW c \in Command, Refuse(c)
        PROVE  BreakerInv'
    <3>1. CASE Record(c.source, FALSE)
      BY <3>1, RecordKeepsStreak DEF Command
    <3> QED BY <2>1, <2>2, <3>1 DEF Refuse
  <2>3. ASSUME NEW s \in Sources, OutcomeExecuted(s)
        PROVE  BreakerInv'
    BY <2>3, RecordKeepsStreak DEF OutcomeExecuted
  <2>4. ASSUME NEW s \in Sources, NEW r \in OutcomeReasons, OutcomeRejected(s, r)
        PROVE  BreakerInv'
    BY <2>4, RecordKeepsStreak DEF OutcomeRejected
  <2> QED BY <2>1, <2>2, <2>3, <2>4
       DEF Next, Enqueue, Tick, Accept, Drain, vars, queueVars, history
<1> QED BY <1>1, <1>2, TypeCorrect, PTL DEF Spec

(* A source whose last consecutive_rejects results are failures has        *)
(* nothing accepted without the mark until cool_down_seconds after the     *)
(* latest of them.                                                         *)
THEOREM TripCorrect == Spec => NothingAcceptedWhileTripped
<1> DEFINE Step == Len(accepted') > Len(accepted) /\ ~accepted'[Len(accepted')].replay =>
        LET s == accepted'[Len(accepted')].source
            n == Len(results[s])
        IN  FailedLast(s, MaxRejects) => now >= results[s][n].at + CoolDown
<1>1. TypeOK /\ BreakerInv /\ [Next]_vars => [Step]_vars
  <2> SUFFICES ASSUME TypeOK, BreakerInv, [Next]_vars,
                      Len(accepted') > Len(accepted), ~accepted'[Len(accepted')].replay,
                      NEW s, s = accepted'[Len(accepted')].source,
                      FailedLast(s, MaxRejects)
               PROVE  now >= results[s][Len(results[s])].at + CoolDown
    OBVIOUS
  <2>1. PICK c \in Command : Accept(c)
    <3>1. CASE UNCHANGED accepted
      BY <3>1 DEF TypeOK
    <3> QED BY <3>1 DEF Next, Enqueue, Tick, Refuse, Drain, OutcomeExecuted,
                        OutcomeRejected, vars, queueVars, history
  <2>2. s = c.source /\ s \in Sources /\ ~c.replay
    <3> DEFINE a == [cid |-> c.cid, source |-> c.source, at |-> now, replay |-> c.replay]
    <3>1. accepted \in Seq(Acceptance) /\ a \in Acceptance
      BY DEF TypeOK, Command, Acceptance
    <3>2. accepted' = Append(accepted, a)
      BY <2>1 DEF Accept
    <3>3. accepted'[Len(accepted')] = a
      BY <3>1, <3>2
    <3> QED BY <3>3 DEF Command
  <2>3. now >= breaker[s].trippedUntil
    BY <2>1, <2>2, AcceptedVerdict DEF Accept, BreakerAllows
  <2> DEFINE k == breaker[s].consecutive
             n == Len(results[s])
  <2>4. k \in Nat /\ n \in Nat /\ breaker[s].trippedUntil \in Nat /\ now \in Nat
        /\ results[s] \in Seq(Result)
    BY <2>2 DEF TypeOK, Breaker
  <2>5. StreakTracked(s)
    BY <2>2 DEF BreakerInv
  <2>6. k >= MaxRejects
    <3> SUFFICES ASSUME k < MaxRejects
                 PROVE  FALSE
      BY <2>4, QueueConstants
    <3>1. n >= MaxRejects /\ \A i \in (n - MaxRejects + 1)..n : ~results[s][i].ok
      BY DEF FailedLast
    <3>2. n > k /\ n - k \in (n - MaxRejects + 1)..n
      <4> HIDE DEF k, n
      <4> QED BY <2>4, <3>1, QueueConstants
    <3>3. results[s][n - k].ok
      BY <2>5, <3>2 DEF StreakTracked
    <3> QED BY <3>1, <3>2, <3>3
  <2>7. breaker[s].trippedUntil >= results[s][n].at + CoolDown
    BY <2>5, <2>6 DEF StreakTracked
  <2>8. results[s][n].at \in Nat
    <3>1. n \in 1..n
      BY <2>4, QueueConstants DEF FailedLast
    <3>2. results[s][n] \in Result
      BY <2>4, <3>1
    <3> QED BY <3>2 DEF Result
  <2> QED BY <2>3, <2>4, <2>7, <2>8, QueueConstants, SMTT(30)
<1> QED BY <1>1, TypeCorrect, BreakerTracks, PTL DEF Spec, NothingAcceptedWhileTripped

(* A trip of the breaker leaves a streak of consecutive_rejects failures   *)
(* in the source's record, and the record only grows.                      *)
LEMMA RecordKeepsCause ==
  ASSUME TypeOK, BreakerInv, TripNeedsStreak,
         NEW s \in Sources, NEW success \in BOOLEAN, Record(s, success)
  PROVE  TripNeedsStreak'
<1> USE QueueConstants
<1> DEFINE r == [ok |-> success, at |-> now]
           n == Len(results[s])
           k == breaker'[s].consecutive
<1>1. /\ results[s] \in Seq(Result) /\ r \in Result /\ now \in Nat
      /\ breaker[s] \in Breaker /\ n \in Nat
  BY DEF TypeOK, Result
<1>2. results'[s] = Append(results[s], r) /\ breaker'[s] = Recorded(breaker[s], success)
  BY DEF Record, TypeOK
<1> HIDE DEF r
<1>3. /\ Len(results'[s]) = n + 1
      /\ \A i \in 1..n : results'[s][i] = results[s][i]
  BY <1>1, <1>2
<1>4. k \in Nat
  BY <1>1, <1>2, RecordedType DEF Breaker
<1>5. /\ k <= n + 1
      /\ \A i \in (n + 1 - k + 1)..(n + 1) : ~results'[s][i].ok
  <2>1. BreakerInv'
    BY RecordKeepsStreak
  <2>2. StreakTracked(s)'
    BY <2>1 DEF BreakerInv
  <2>3. LET m == Len(results'[s])
        IN  k <= m /\ \A i \in (m - k + 1)..m : ~results'[s][i].ok
    BY <2>2 DEF StreakTracked
  <2>4. Len(results'[s]) = n + 1 /\ n \in Nat /\ k \in Nat
    BY <1>1, <1>3, <1>4
  <2> HIDE DEF n, k
  <2> QED BY <2>3, <2>4
<1>6. CASE k >= MaxRejects
  <2>1. n + 1 \in MaxRejects..Len(results'[s])
    BY <1>1, <1>3, <1>4, <1>5, <1>6
  <2>2. \A i \in (n + 1 - MaxRejects + 1)..(n + 1) : i \in (n + 1 - k + 1)..(n + 1)
    <3>1. n \in Nat /\ k \in Nat /\ k >= MaxRejects /\ MaxRejects \in Nat
      BY <1>1, <1>4, <1>6
    <3> HIDE DEF n, k
    <3> QED BY <3>1
  <2>3. \A i \in (n + 1 - MaxRejects + 1)..(n + 1) : ~results'[s][i].ok
    BY <1>5, <2>2
  <2>4. ASSUME NEW t \in Sources, t # s
        PROVE  breaker'[t] = breaker[t] /\ results'[t] = results[t]
    BY <2>4 DEF Record, TypeOK
  <2>5. \E m \in MaxRejects..Len(results'[s]) :
           \A i \in (m - MaxRejects + 1)..m : ~results'[s][i].ok
    <3> DEFINE m == n + 1
    <3>1. m \in MaxRejects..Len(results'[s])
      BY <2>1
    <3>2. \A i \in (m - MaxRejects + 1)..m : ~results'[s][i].ok
      BY <2>3
    <3> HIDE DEF m
    <3> QED BY <3>1, <3>2
  <2> QED BY <2>4, <2>5 DEF TripNeedsStreak
<1>7. CASE k < MaxRejects
  <2>1. breaker'[s].trippedUntil = breaker[s].trippedUntil
    BY <1>1, <1>2, <1>7 DEF Recorded, Breaker
  <2>2. ASSUME breaker'[s].trippedUntil > 0
        PROVE  \E m \in MaxRejects..Len(results'[s]) :
                 \A i \in (m - MaxRejects + 1)..m : ~results'[s][i].ok
    <3>1. PICK m \in MaxRejects..n : \A i \in (m - MaxRejects + 1)..m : ~results[s][i].ok
      BY <2>1, <2>2 DEF TripNeedsStreak
    <3>2. m \in MaxRejects..(n + 1) /\ \A i \in (m - MaxRejects + 1)..m : i \in 1..n
      <4> n \in Nat /\ MaxRejects \in Nat \ {0}
        BY <1>1
      <4> HIDE DEF n
      <4> QED OBVIOUS
    <3>3. m \in MaxRejects..Len(results'[s])
      BY <1>3, <3>2
    <3>4. \A i \in (m - MaxRejects + 1)..m : ~results'[s][i].ok
      BY <1>3, <3>1, <3>2
    <3> HIDE DEF n, k
    <3> QED BY <3>3, <3>4
  <2>3. ASSUME NEW t \in Sources, t # s
        PROVE  breaker'[t] = breaker[t] /\ results'[t] = results[t]
    BY <2>3 DEF Record, TypeOK
  <2> QED BY <2>2, <2>3 DEF TripNeedsStreak
<1> QED BY <1>1, <1>4, <1>6, <1>7

(* A source without a streak of consecutive_rejects failures on record is  *)
(* never shut out by its breaker.                                          *)
THEOREM CauseCorrect == Spec => []TripNeedsStreak
<1>1. Init => TripNeedsStreak
  BY DEF Init, TripNeedsStreak
<1>2. TypeOK /\ BreakerInv /\ TripNeedsStreak /\ [Next]_vars => TripNeedsStreak'
  <2> SUFFICES ASSUME TypeOK, BreakerInv, TripNeedsStreak, [Next]_vars
               PROVE  TripNeedsStreak'
    OBVIOUS
  <2>1. CASE UNCHANGED <<breaker, results>>
    BY <2>1 DEF TripNeedsStreak
  <2>2. ASSUME NEW c \in Command, Refuse(c)
        PROVE  TripNeedsStreak'
    <3>1. CASE Record(c.source, FALSE)
      BY <3>1, RecordKeepsCause DEF Command
    <3> QED BY <2>1, <2>2, <3>1 DEF Refuse
  <2>3. ASSUME NEW s \in Sources, OutcomeExecuted(s)
        PROVE  TripNeedsStreak'
    BY <2>3, RecordKeepsCause DEF OutcomeExecuted
  <2>4. ASSUME NEW s \in Sources, NEW r \in OutcomeReasons, OutcomeRejected(s, r)
        PROVE  TripNeedsStreak'
    BY <2>4, RecordKeepsCause DEF OutcomeRejected
  <2> QED BY <2>1, <2>2, <2>3, <2>4
       DEF Next, Enqueue, Tick, Accept, Drain, vars, queueVars, history
<1> QED BY <1>1, <1>2, TypeCorrect, BreakerTracks, PTL DEF Spec

---------------------------------------------------------------------------
(* The rate bound, for every limit and any pattern of pauses: first the    *)
(* arithmetic of refill periods, then an account that each token bucket    *)
(* keeps of what its source has had accepted.                              *)

\* Whole periods are ordered as the times they take.
LEMMA FewerPeriods ==
  ASSUME NEW x \in Int, NEW y \in Int, NEW r \in Nat \ {0}, x * r < y * r + r
  PROVE  x <= y
<1> SUFFICES ASSUME x >= y + 1
             PROVE  FALSE
  OBVIOUS
<1>1. (x - (y + 1)) * r >= 0
  OBVIOUS
<1>2. (x - (y + 1)) * r = x * r - (y * r + r)
  OBVIOUS
<1> QED BY <1>1, <1>2

\* The periods in an elapsed time fit in it, and one more would not.
LEMMA WholePeriods ==
  ASSUME NEW e \in Nat, NEW r \in Nat \ {0}
  PROVE  /\ e \div r \in Nat
         /\ (e \div r) * r <= e
         /\ e < (e \div r) * r + r
<1>1. e \div r \in Nat
  BY PeriodsNat
<1>2. e = r * (e \div r) + (e % r) /\ e % r \in 0..(r - 1)
  OBVIOUS
<1> QED BY <1>1, <1>2

\* The refill periods begun in d seconds.
Begun(d) == (d + RefillSeconds - 1) \div RefillSeconds

\* The periods begun cover the time, and one less would not.
LEMMA BegunPeriods ==
  ASSUME NEW d \in Nat
  PROVE  /\ Begun(d) \in Nat
         /\ d <= Begun(d) * RefillSeconds
         /\ Begun(d) * RefillSeconds < d + RefillSeconds
<1> DEFINE e == d + RefillSeconds - 1
<1>1. e \in Nat /\ RefillSeconds \in Nat \ {0} /\ Begun(d) = e \div RefillSeconds
  BY QueueConstants DEF Begun
<1>2. /\ e \div RefillSeconds \in Nat
      /\ (e \div RefillSeconds) * RefillSeconds <= e
      /\ e < (e \div RefillSeconds) * RefillSeconds + RefillSeconds
  BY <1>1, WholePeriods
<1> QED BY <1>1, <1>2

\* Periods begun before a moment and periods completed after it are all
\* begun in the whole time.
LEMMA BegunThenCompleted ==
  ASSUME NEW a \in Nat, NEW b \in Nat
  PROVE  Begun(a) + (b \div RefillSeconds) <= Begun(a + b)
<1> DEFINE p == Begun(a)
           f == b \div RefillSeconds
           m == Begun(a + b)
<1>1. RefillSeconds \in Nat \ {0}
  BY QueueConstants
<1>2. p \in Nat /\ p * RefillSeconds < a + RefillSeconds
  BY BegunPeriods
<1>3. f \in Nat /\ f * RefillSeconds <= b
  BY <1>1, WholePeriods
<1>4. m \in Nat /\ a + b <= m * RefillSeconds
  BY BegunPeriods
<1> HIDE DEF p, f, m
<1>5. (p + f) * RefillSeconds = p * RefillSeconds + f * RefillSeconds
  BY <1>1, <1>2, <1>3
<1>6. /\ p * RefillSeconds \in Int /\ f * RefillSeconds \in Int /\ m * RefillSeconds \in Int
  BY <1>1, <1>2, <1>3, <1>4
<1>7. (p + f) * RefillSeconds < m * RefillSeconds + RefillSeconds
  BY <1>1, <1>2, <1>3, <1>4, <1>5, <1>6
<1>8. p + f <= m
  BY <1>1, <1>2, <1>3, <1>4, <1>7, FewerPeriods
<1> QED BY <1>8 DEF p, f, m

\* A longer time begins at least as many periods.
LEMMA BegunGrows ==
  ASSUME NEW a \in Nat, NEW b \in Nat
  PROVE  Begun(a) <= Begun(a + b)
<1>1. b \div RefillSeconds \in Nat
  BY QueueConstants, PeriodsNat
<1>2. Begun(a) \in Nat /\ Begun(a + b) \in Nat
  BY BegunPeriods
<1> QED BY <1>1, <1>2, BegunThenCompleted

\* Less than one period into a time, as many periods begin in what is left
\* as are completed in all of it.
LEMMA CompletedAreBegun ==
  ASSUME NEW e \in Nat, NEW d \in Nat, e < d + RefillSeconds
  PROVE  e \div RefillSeconds <= Begun(d)
<1> DEFINE f == e \div RefillSeconds
           m == Begun(d)
<1>1. RefillSeconds \in Nat \ {0}
  BY QueueConstants
<1>2. f \in Nat /\ f * RefillSeconds <= e
  BY <1>1, WholePeriods
<1>3. m \in Nat /\ d <= m * RefillSeconds
  BY BegunPeriods
<1> HIDE DEF f, m
<1>4. f * RefillSeconds \in Int /\ m * RefillSeconds \in Int
  BY <1>1, <1>2, <1>3
<1>5. f * RefillSeconds < m * RefillSeconds + RefillSeconds
  BY <1>1, <1>2, <1>3, <1>4
<1>6. f <= m
  BY <1>1, <1>2, <1>3, <1>5, FewerPeriods
<1> QED BY <1>6 DEF f, m

-----------------------------------------------------------------------------

\* An acceptance that took a token of source s.
TookFrom(s, a) == a.source = s /\ ~a.replay

\* Those in `acc` from time t on.
Since(acc, s, t) == {i \in DOMAIN acc : TookFrom(s, acc[i]) /\ acc[i].at >= t}

\* At time `time` the bucket l accounts for what source s has had accepted for a token:
\* over any window, the acceptances and the tokens left come to at most a
\* full bucket and the periods begun up to the bucket's stamp; and nothing
\* was accepted a whole period or more after that stamp.
Accounts(acc, time, s, l) ==
  /\ l.lastRefill <= time
  /\ \A i \in DOMAIN acc : TookFrom(s, acc[i]) => acc[i].at < l.lastRefill + RefillSeconds
  /\ \A t \in 0..time :
       Cardinality(Since(acc, s, t)) + l.available
         <= Tokens + (IF t <= l.lastRefill THEN Begun(l.lastRefill - t) ELSE 0)

AcceptedInPast == \A i \in DOMAIN accepted : accepted[i].at <= now

BucketInv ==
  \A s \in Sources :
    IF s \in DOMAIN limiter
    THEN Accounts(accepted, now, s, limiter[s])
    ELSE \A i \in DOMAIN accepted : ~TookFrom(s, accepted[i])

\* Acceptances are finitely many.
LEMMA SinceFinite ==
  ASSUME NEW acc \in Seq(Acceptance), NEW s, NEW t
  PROVE  IsFiniteSet(Since(acc, s, t)) /\ Cardinality(Since(acc, s, t)) \in Nat
<1>1. Len(acc) \in Nat /\ DOMAIN acc = 1..Len(acc)
  OBVIOUS
<1>2. IsFiniteSet(1..Len(acc))
  BY <1>1, FS_Interval
<1>3. IsFiniteSet(Since(acc, s, t))
  BY <1>1, <1>2, FS_Subset DEF Since
<1> QED BY <1>3, FS_CardinalityType

\* The bucket that `_get_limiter` returns accounts for its source.
LEMMA GetLimiterAccounts ==
  ASSUME TypeOK, BucketInv, NEW s \in Sources
  PROVE  GetLimiter(s) \in Limiter /\ Accounts(accepted, now, s, GetLimiter(s))
<1>1. GetLimiter(s) \in Limiter
  BY QueueConstants DEF GetLimiter, TypeOK, Limiter
<1>2. CASE s \in DOMAIN limiter
  BY <1>1, <1>2 DEF BucketInv, GetLimiter
<1>3. CASE s \notin DOMAIN limiter
  <2> DEFINE l == GetLimiter(s)
  <2>1. l.available = Tokens /\ l.lastRefill = now /\ now \in Nat /\ Tokens \in Nat
    BY <1>3, QueueConstants DEF GetLimiter, TypeOK
  <2>2. \A i \in DOMAIN accepted : ~TookFrom(s, accepted[i])
    BY <1>3 DEF BucketInv
  <2>3. \A t \in 0..now : Since(accepted, s, t) = {}
    BY <2>2 DEF Since
  <2> HIDE DEF l
  <2>4. ASSUME NEW t \in 0..now
        PROVE  Cardinality(Since(accepted, s, t)) + l.available
                 <= Tokens + (IF t <= l.lastRefill THEN Begun(l.lastRefill - t) ELSE 0)
    <3>1. Cardinality(Since(accepted, s, t)) = 0
      BY <2>3, FS_EmptySet
    <3>2. now - t \in Nat
      BY <2>1
    <3>3. Begun(now - t) \in Nat
      BY <3>2, BegunPeriods
    <3> QED BY <2>1, <3>1, <3>3
  <2>5. Accounts(accepted, now, s, l)
    BY <2>1, <2>2, <2>4 DEF Accounts
  <2> QED BY <1>1, <2>5 DEF l
<1> QED BY <1>2, <1>3

\* A refill keeps the account straight, and afterwards less than a period
\* has passed since the stamp.
LEMMA RefilledAccounts ==
  ASSUME TypeOK, AcceptedInPast, NEW s \in Sources, NEW l \in Limiter,
         Accounts(accepted, now, s, l)
  PROVE  /\ Accounts(accepted, now, s, Refilled(l))
         /\ now < Refilled(l).lastRefill + RefillSeconds
<1> USE QueueConstants
<1> DEFINE f == (now - l.lastRefill) \div RefillSeconds
           n == Refilled(l)
<1>1. /\ now \in Nat /\ l.available \in Nat /\ l.lastRefill \in Nat
      /\ l.available <= Tokens /\ l.lastRefill <= now
  BY DEF TypeOK, Limiter, Accounts
<1>2. now - l.lastRefill \in Nat
  BY <1>1
<1>3. /\ f \in Nat
      /\ now - l.lastRefill < f * RefillSeconds + RefillSeconds
  BY <1>2, WholePeriods
<1>4. CASE f > 0
  <2>1. n.lastRefill = now /\ n.available \in Nat
        /\ n.available <= Tokens /\ n.available <= l.available + f
    BY <1>1, <1>3, <1>4 DEF Refilled
  <2> HIDE DEF n
  <2>2. \A i \in DOMAIN accepted :
          TookFrom(s, accepted[i]) => accepted[i].at < n.lastRefill + RefillSeconds
    <3> SUFFICES ASSUME NEW i \in DOMAIN accepted
                 PROVE  accepted[i].at < now + RefillSeconds
      BY <2>1
    <3>1. accepted[i] \in Acceptance
      BY DEF TypeOK
    <3>2. accepted[i].at \in Nat /\ accepted[i].at <= now
      BY <3>1 DEF Acceptance, AcceptedInPast
    <3> QED BY <1>1, <3>2
  <2>3. ASSUME NEW t \in 0..now
        PROVE  Cardinality(Since(accepted, s, t)) + n.available <= Tokens + Begun(now - t)
    <3> DEFINE a == Cardinality(Since(accepted, s, t))
    <3>1. a \in Nat /\ t \in Nat /\ now - t \in Nat
      BY <1>1, SinceFinite, SMTT(30) DEF TypeOK
    <3>2. Begun(now - t) \in Nat
      BY <3>1, BegunPeriods
    <3>3. a + l.available
            <= Tokens + (IF t <= l.lastRefill THEN Begun(l.lastRefill - t) ELSE 0)
      BY DEF Accounts
    <3> HIDE DEF a, f
    <3>4. CASE t <= l.lastRefill
      <4>1. l.lastRefill - t \in Nat
        BY <1>1, <3>1, <3>4
      <4>2. Begun(l.lastRefill - t) + f <= Begun((l.lastRefill - t) + (now - l.lastRefill))
        BY <1>2, <4>1, BegunThenCompleted DEF f
      <4>3. (l.lastRefill - t) + (now - l.lastRefill) = now - t
        BY <1>1, <3>1
      <4>4. Begun(l.lastRefill - t) \in Nat
        BY <4>1, BegunPeriods
      <4>5. Begun(l.lastRefill - t) + f <= Begun(now - t)
        BY <4>2, <4>3
      <4> QED BY <1>1, <1>3, <2>1, <3>1, <3>2, <3>3, <3>4, <4>4, <4>5 DEF a
    <3>5. CASE t > l.lastRefill /\ t < l.lastRefill + RefillSeconds
      <4>1. now - l.lastRefill < (now - t) + RefillSeconds
        BY <1>1, <3>1, <3>5
      <4>2. f <= Begun(now - t)
        BY <1>2, <3>1, <4>1, CompletedAreBegun DEF f
      <4> QED BY <1>1, <1>3, <2>1, <3>1, <3>2, <3>3, <3>5, <4>2 DEF a
    <3>6. CASE t >= l.lastRefill + RefillSeconds
      <4>1. Since(accepted, s, t) = {}
        <5> SUFFICES ASSUME NEW i \in Since(accepted, s, t)
                     PROVE  FALSE
          OBVIOUS
        <5>1. i \in DOMAIN accepted /\ TookFrom(s, accepted[i]) /\ accepted[i].at >= t
          BY DEF Since
        <5>2. accepted[i] \in Acceptance
          BY <5>1 DEF TypeOK
        <5>3. accepted[i].at \in Nat /\ accepted[i].at < l.lastRefill + RefillSeconds
          BY <5>1, <5>2 DEF Acceptance, Accounts
        <5> QED BY <1>1, <3>1, <3>6, <5>1, <5>3
      <4>2. a = 0
        BY <4>1, FS_EmptySet DEF a
      <4> QED BY <1>1, <2>1, <3>2, <4>2 DEF a
    <3> QED BY <1>1, <3>1, <3>4, <3>5, <3>6
  <2>4. Accounts(accepted, now, s, n)
    BY <1>1, <2>1, <2>2, <2>3 DEF Accounts
  <2>5. now < n.lastRefill + RefillSeconds
    BY <1>1, <2>1
  <2> QED BY <2>4, <2>5 DEF n
<1>5. CASE f = 0
  <2>1. n = l
    BY <1>5 DEF Refilled
  <2>2. now < l.lastRefill + RefillSeconds
    <3> HIDE DEF f
    <3>1. f * RefillSeconds = 0
      BY <1>5
    <3> QED BY <1>1, <1>2, <1>3, <3>1
  <2> QED BY <2>1, <2>2
<1> QED BY <1>3, <1>4, <1>5

\* A bucket that has less than it could have accounts all the more.
LEMMA FewerTokensAccount ==
  ASSUME TypeOK, NEW s \in Sources, NEW l \in Limiter, NEW m \in Limiter,
         Accounts(accepted, now, s, l),
         m.lastRefill = l.lastRefill, m.available <= l.available
  PROVE  Accounts(accepted, now, s, m)
<1>1. \A t \in 0..now : Cardinality(Since(accepted, s, t)) \in Nat
  BY SinceFinite DEF TypeOK
<1>2. /\ l.available \in Nat /\ m.available \in Nat /\ l.lastRefill \in Nat
      /\ now \in Nat /\ Tokens \in Nat
  BY QueueConstants DEF Limiter, TypeOK
<1>3. ASSUME NEW t \in 0..now
      PROVE  Cardinality(Since(accepted, s, t)) + m.available
               <= Tokens + (IF t <= l.lastRefill THEN Begun(l.lastRefill - t) ELSE 0)
  <2>1. Cardinality(Since(accepted, s, t)) + l.available
          <= Tokens + (IF t <= l.lastRefill THEN Begun(l.lastRefill - t) ELSE 0)
    BY DEF Accounts
  <2>2. t <= l.lastRefill => l.lastRefill - t \in Nat
    BY <1>2
  <2>3. t <= l.lastRefill => Begun(l.lastRefill - t) \in Nat
    BY <2>2, BegunPeriods
  <2> QED BY <1>1, <1>2, <2>1, <2>3
<1> QED BY <1>3 DEF Accounts

\* Taking a token for an acceptance keeps the account straight: each window
\* up to now has one acceptance more, and the bucket one token less.
LEMMA AcceptanceAccounts ==
  ASSUME TypeOK, NEW s \in Sources, NEW l \in Limiter, NEW m \in Limiter, NEW a \in Acceptance,
         Accounts(accepted, now, s, l), now < l.lastRefill + RefillSeconds,
         TookFrom(s, a), a.at = now,
         m.lastRefill = l.lastRefill, m.available = l.available - 1
  PROVE  Accounts(Append(accepted, a), now, s, m)
<1> DEFINE n == Len(accepted) + 1
           b == Append(accepted, a)
<1>1. /\ accepted \in Seq(Acceptance) /\ Len(accepted) \in Nat
      /\ DOMAIN accepted = 1..Len(accepted) /\ b \in Seq(Acceptance)
      /\ DOMAIN b = 1..n
      /\ \A i \in 1..n : b[i] = IF i = n THEN a ELSE accepted[i]
  BY DEF TypeOK
<1>2. /\ l.available \in Nat /\ m.available \in Nat /\ l.lastRefill \in Nat
      /\ now \in Nat /\ Tokens \in Nat
  BY QueueConstants DEF Limiter, TypeOK
<1> HIDE DEF b
<1>3. ASSUME NEW i \in DOMAIN b, TookFrom(s, b[i])
      PROVE  b[i].at < m.lastRefill + RefillSeconds
  <2>1. CASE i = n
    BY <1>1, <2>1
  <2>2. CASE i # n
    BY <1>1, <1>3, <2>2 DEF Accounts
  <2> QED BY <2>1, <2>2
<1>4. ASSUME NEW t \in 0..now
      PROVE  Cardinality(Since(b, s, t)) + m.available
               <= Tokens + (IF t <= m.lastRefill THEN Begun(m.lastRefill - t) ELSE 0)
  <2>1. Since(b, s, t) = Since(accepted, s, t) \cup {n} /\ n \notin Since(accepted, s, t)
    BY <1>1, <1>2 DEF Since
  <2>2. IsFiniteSet(Since(accepted, s, t)) /\ Cardinality(Since(accepted, s, t)) \in Nat
    BY SinceFinite DEF TypeOK
  <2>3. Cardinality(Since(b, s, t)) = Cardinality(Since(accepted, s, t)) + 1
    <3> DEFINE S == Since(accepted, s, t)
    <3> HIDE DEF S, n
    <3>1. n \notin S /\ IsFiniteSet(S) /\ Since(b, s, t) = S \cup {n}
      BY <2>1, <2>2 DEF S
    <3>2. Cardinality(S \cup {n}) = Cardinality(S) + 1
      BY <3>1, FS_AddElement
    <3> QED BY <3>1, <3>2 DEF S
  <2>4. Cardinality(Since(accepted, s, t)) + l.available
          <= Tokens + (IF t <= l.lastRefill THEN Begun(l.lastRefill - t) ELSE 0)
    BY DEF Accounts
  <2>5. Cardinality(Since(b, s, t)) + m.available = Cardinality(Since(accepted, s, t)) + l.available
    BY <1>2, <2>2, <2>3
  <2> QED BY <2>4, <2>5
<1>5. m.lastRefill <= now
  BY DEF Accounts
<1>6. Accounts(b, now, s, m)
  BY <1>3, <1>4, <1>5 DEF Accounts
<1> QED BY <1>6 DEF b

\* Granting or refusing a token leaves a bucket that accounts for its source.
LEMMA TakenTokenAccounts ==
  ASSUME TypeOK, NEW s \in Sources, NEW l \in Limiter, Accounts(accepted, now, s, l)
  PROVE  Accounts(accepted, now, s, IF l.available > 0 THEN [l EXCEPT !.available = @ - 1] ELSE l)
<1>1. CASE l.available > 0
  <2> DEFINE m == [l EXCEPT !.available = @ - 1]
  <2>1. m \in Limiter
    BY <1>1, TakeToken
  <2>2. m.lastRefill = l.lastRefill /\ m.available = l.available - 1 /\ l.available \in Nat
    BY DEF Limiter
  <2> HIDE DEF m
  <2>3. Accounts(accepted, now, s, m)
    BY <2>1, <2>2, FewerTokensAccount
  <2> QED BY <1>1, <2>3 DEF m
<1> QED BY <1>1

\* The account stays straight as time passes.
LEMMA TickAccounts ==
  ASSUME TypeOK, AcceptedInPast, NEW s \in Sources, NEW l \in Limiter,
         Accounts(accepted, now, s, l)
  PROVE  Accounts(accepted, now + 1, s, l)
<1>1. now \in Nat /\ l.available \in 0..Tokens /\ l.lastRefill \in Nat /\ l.lastRefill <= now
      /\ Tokens \in Nat
  BY QueueConstants DEF TypeOK, Limiter, Accounts
<1>2. Since(accepted, s, now + 1) = {}
  <2> SUFFICES ASSUME NEW i \in DOMAIN accepted, accepted[i].at >= now + 1
               PROVE  FALSE
    BY DEF Since
  <2>1. accepted[i] \in Acceptance
    BY DEF TypeOK
  <2> QED BY <1>1, <2>1 DEF Acceptance, AcceptedInPast
<1>3. Cardinality(Since(accepted, s, now + 1)) = 0
  BY <1>2, FS_EmptySet
<1>4. ASSUME NEW t \in 0..(now + 1)
      PROVE  Cardinality(Since(accepted, s, t)) + l.available
               <= Tokens + (IF t <= l.lastRefill THEN Begun(l.lastRefill - t) ELSE 0)
  <2>1. CASE t \in 0..now
    BY <2>1 DEF Accounts
  <2>2. CASE t = now + 1
    BY <1>1, <1>3, <2>2
  <2> QED BY <1>1, <2>1, <2>2
<1> QED BY <1>1, <1>4 DEF Accounts

\* An acceptance from one source, and one that took no token, leaves the other
\* sources' accounts alone.
LEMMA OthersAccount ==
  ASSUME TypeOK, NEW s \in Sources, NEW l, NEW a \in Acceptance, ~TookFrom(s, a),
         Accounts(accepted, now, s, l)
  PROVE  Accounts(Append(accepted, a), now, s, l)
<1> DEFINE n == Len(accepted) + 1
           b == Append(accepted, a)
<1>1. /\ Len(accepted) \in Nat
      /\ DOMAIN accepted = 1..Len(accepted) /\ DOMAIN b = 1..n
      /\ \A i \in 1..n : b[i] = IF i = n THEN a ELSE accepted[i]
  BY DEF TypeOK
<1> HIDE DEF b
<1>2. \A i \in DOMAIN b : TookFrom(s, b[i]) => i \in DOMAIN accepted /\ b[i] = accepted[i]
  BY <1>1
<1>3. \A i \in DOMAIN accepted : i \in DOMAIN b /\ b[i] = accepted[i]
  BY <1>1
<1>4. \A t \in 0..now : Since(b, s, t) = Since(accepted, s, t)
  BY <1>2, <1>3 DEF Since
<1>5. Accounts(b, now, s, l)
  BY <1>2, <1>4 DEF Accounts
<1> QED BY <1>5 DEF b

\* Every step keeps the buckets' accounts.
LEMMA StepKeepsAccounts ==
  ASSUME TypeOK, TypeOK', AcceptedInPast, BucketInv, [Next]_vars
  PROVE  BucketInv'
<1> SUFFICES ASSUME NEW s \in Sources
             PROVE  IF s \in DOMAIN limiter'
                    THEN Accounts(accepted', now', s, limiter'[s])
                    ELSE \A i \in DOMAIN accepted' : ~TookFrom(s, accepted'[i])
  BY DEF BucketInv
<1>1. CASE UNCHANGED <<now, limiter, accepted>>
  BY <1>1 DEF BucketInv
<1>2. CASE Tick
  <2>1. limiter' = limiter /\ accepted' = accepted /\ now' = now + 1 /\ now \in Nat
    BY <1>2 DEF Tick, history, TypeOK
  <2>2. CASE s \in DOMAIN limiter
    <3> DEFINE l == limiter[s]
    <3>1. l \in Limiter /\ Accounts(accepted, now, s, l)
      BY <2>2 DEF BucketInv, TypeOK
    <3>2. Accounts(accepted, now + 1, s, l)
      BY <2>1, <3>1, TickAccounts
    <3> QED BY <2>1, <2>2, <3>2
  <2>3. CASE s \notin DOMAIN limiter
    BY <2>1, <2>3 DEF BucketInv
  <2> QED BY <2>2, <2>3
<1>3. ASSUME NEW c \in Command, Refuse(c)
      PROVE  IF s \in DOMAIN limiter'
             THEN Accounts(accepted', now', s, limiter'[s])
             ELSE \A i \in DOMAIN accepted' : ~TookFrom(s, accepted'[i])
  <2>1. accepted' = accepted /\ now' = now
    BY <1>3 DEF Refuse
  <2>2. CASE limiter' = limiter
    BY <1>1, <2>1, <2>2
  <2>3. CASE PutLimiter(c.source, AfterAllow(c.source))
    <3>1. CASE s = c.source
      <4>1. limiter'[s] = AfterAllow(s) /\ s \in DOMAIN limiter'
        BY <2>3, <3>1 DEF PutLimiter
      <4>2. GetLimiter(s) \in Limiter /\ Accounts(accepted, now, s, GetLimiter(s))
        BY GetLimiterAccounts
      <4>3. Refilled(GetLimiter(s)) \in Limiter /\ Accounts(accepted, now, s, Refilled(GetLimiter(s)))
        BY <4>2, RefilledAccounts, RefilledType DEF TypeOK
      <4>4. Accounts(accepted, now, s, AfterAllow(s))
        BY <4>3, TakenTokenAccounts DEF AfterAllow
      <4> QED BY <2>1, <4>1, <4>4
    <3>2. CASE s # c.source
      <4>1. /\ s \in DOMAIN limiter' <=> s \in DOMAIN limiter
            /\ s \in DOMAIN limiter => limiter'[s] = limiter[s]
        BY <2>3, <3>2 DEF PutLimiter
      <4> QED BY <2>1, <4>1 DEF BucketInv
    <3> QED BY <3>1, <3>2
  <2> QED BY <1>3, <2>2, <2>3 DEF Refuse, AskLimiter
<1>4. ASSUME NEW c \in Command, Accept(c)
      PROVE  IF s \in DOMAIN limiter'
             THEN Accounts(accepted', now', s, limiter'[s])
             ELSE \A i \in DOMAIN accepted' : ~TookFrom(s, accepted'[i])
  <2> DEFINE a == [cid |-> c.cid, source |-> c.source, at |-> now, replay |-> c.replay]
  <2>1. accepted' = Append(accepted, a) /\ now' = now /\ a \in Acceptance
    BY <1>4 DEF Accept, Command, Acceptance, TypeOK
  <2>2. a.at = now /\ (TookFrom(s, a) <=> s = c.source /\ ~c.replay)
    BY DEF TookFrom
  <2>3. IF c.replay THEN limiter' = limiter ELSE PutLimiter(c.source, AfterAllow(c.source))
    BY <1>4 DEF Accept, AskLimiter, Command
  <2> HIDE DEF a
  <2>4. CASE s = c.source /\ ~c.replay
    <3> DEFINE l == Refilled(GetLimiter(s))
    <3>1. limiter'[s] = AfterAllow(s) /\ s \in DOMAIN limiter'
      BY <2>3, <2>4 DEF PutLimiter
    <3>2. GetLimiter(s) \in Limiter /\ Accounts(accepted, now, s, GetLimiter(s))
      BY GetLimiterAccounts
    <3>3. l \in Limiter /\ Accounts(accepted, now, s, l) /\ now < l.lastRefill + RefillSeconds
      BY <3>2, RefilledAccounts, RefilledType DEF TypeOK
    <3>4. l.available > 0
      BY <1>4, <2>4, AcceptedVerdict DEF Accept, HasToken
    <3>5. AfterAllow(s) = [l EXCEPT !.available = @ - 1]
      BY <3>4 DEF AfterAllow
    <3> HIDE DEF l
    <3>6. /\ AfterAllow(s).lastRefill = l.lastRefill
          /\ AfterAllow(s).available = l.available - 1
      BY <3>3, <3>5 DEF Limiter
    <3>7. AfterAllow(s) \in Limiter
      BY AfterAllowType
    <3>8. Accounts(Append(accepted, a), now, s, AfterAllow(s))
      BY <2>2, <2>1, <2>4, <3>3, <3>6, <3>7, AcceptanceAccounts
    <3> QED BY <2>1, <3>1, <3>8
  <2>5. CASE ~(s = c.source /\ ~c.replay)
    <3>1. /\ s \in DOMAIN limiter' <=> s \in DOMAIN limiter
          /\ s \in DOMAIN limiter => limiter'[s] = limiter[s]
      BY <2>3, <2>5 DEF PutLimiter
    <3>2. CASE s \in DOMAIN limiter
      <4>1. Accounts(accepted, now, s, limiter[s])
        BY <3>2 DEF BucketInv
      <4>2. Accounts(Append(accepted, a), now, s, limiter[s])
        BY <2>1, <2>2, <2>5, <4>1, OthersAccount
      <4> QED BY <2>1, <3>1, <3>2, <4>2
    <3>3. CASE s \notin DOMAIN limiter
      <4>1. accepted \in Seq(Acceptance) /\ \A i \in DOMAIN accepted : ~TookFrom(s, accepted[i])
        BY <3>3 DEF BucketInv, TypeOK
      <4>2. \A i \in DOMAIN Append(accepted, a) : ~TookFrom(s, Append(accepted, a)[i])
        BY <2>1, <2>2, <2>5, <4>1
      <4> QED BY <2>1, <3>1, <3>3, <4>2
    <3> QED BY <3>2, <3>3
  <2> QED BY <2>4, <2>5
<1>5. CASE \/ Drain
           \/ \E t \in Sources : OutcomeExecuted(t)
           \/ \E t \in Sources, r \in OutcomeReasons : OutcomeRejected(t, r)
           \/ UNCHANGED vars
  BY <1>1, <1>5 DEF Drain, OutcomeExecuted, OutcomeRejected, vars, queueVars, history
<1> QED BY <1>2, <1>3, <1>4, <1>5 DEF Next, Enqueue

\* Nothing is accepted in the future, and every bucket accounts for its
\* source.
LEMMA BucketsAccount == Spec => [](AcceptedInPast /\ BucketInv)
<1>1. Init => AcceptedInPast /\ BucketInv
  BY DEF Init, AcceptedInPast, BucketInv
<1>2. TypeOK /\ TypeOK' /\ AcceptedInPast /\ BucketInv /\ [Next]_vars => (AcceptedInPast /\ BucketInv)'
  <2> SUFFICES ASSUME TypeOK, TypeOK', AcceptedInPast, BucketInv, [Next]_vars
               PROVE  AcceptedInPast' /\ BucketInv'
    OBVIOUS
  <2>1. AcceptedInPast'
    <3>1. ASSUME NEW c \in Command, Accept(c)
          PROVE  AcceptedInPast'
      <4> DEFINE a == [cid |-> c.cid, source |-> c.source, at |-> now, replay |-> c.replay]
      <4>1. /\ accepted' = Append(accepted, a) /\ now' = now /\ now \in Nat
            /\ accepted \in Seq(Acceptance) /\ a \in Acceptance
        BY <3>1 DEF Accept, Command, Acceptance, TypeOK
      <4>2. a.at = now
        OBVIOUS
      <4> HIDE DEF a
      <4>3. \A i \in DOMAIN accepted' :
              (i \in DOMAIN accepted /\ accepted'[i] = accepted[i]) \/ accepted'[i] = a
        BY <4>1
      <4> QED BY <4>1, <4>2, <4>3 DEF AcceptedInPast
    <3>2. CASE accepted' = accepted /\ (now' = now \/ now' = now + 1)
      <4>1. ASSUME NEW i \in DOMAIN accepted
            PROVE  accepted[i].at <= now'
        <5>1. accepted[i] \in Acceptance /\ now \in Nat
          BY DEF TypeOK
        <5>2. accepted[i].at \in Nat /\ accepted[i].at <= now
          BY <5>1 DEF Acceptance, AcceptedInPast
        <5> QED BY <3>2, <5>1, <5>2
      <4> QED BY <3>2, <4>1 DEF AcceptedInPast
    <3> QED BY <3>1, <3>2
         DEF Next, Enqueue, Tick, Refuse, Drain, OutcomeExecuted, OutcomeRejected, vars, queueVars, history
  <2> QED BY <2>1, StepKeepsAccounts
<1> QED BY <1>1, <1>2, TypeCorrect, PTL DEF Spec

\* A source never gets more accepted without the mark, over any window that ends
\* now, than one bucket and a token per refill period begun in the window.
THEOREM BurstCorrect == Spec => []BurstBound
<1>1. TypeOK /\ AcceptedInPast /\ BucketInv => BurstBound
  <2> SUFFICES ASSUME TypeOK, BucketInv, NEW s \in Sources, NEW t \in 0..now
               PROVE  Cardinality(AcceptedSince(s, t)) <= Tokens + Begun(now - t)
    BY DEF BurstBound, Begun
  <2>1. AcceptedSince(s, t) = Since(accepted, s, t)
    BY DEF AcceptedSince, Since, TookFrom
  <2>2. now \in Nat /\ t \in Nat /\ now - t \in Nat /\ Tokens \in Nat
    BY QueueConstants DEF TypeOK
  <2>3. Begun(now - t) \in Nat /\ Cardinality(Since(accepted, s, t)) \in Nat
    BY <2>2, BegunPeriods, SinceFinite DEF TypeOK
  <2>4. CASE s \in DOMAIN limiter
    <3> DEFINE l == limiter[s]
    <3>1. l.available \in Nat /\ l.lastRefill \in Nat
      BY <2>4 DEF TypeOK, Limiter
    <3>2. Accounts(accepted, now, s, l)
      BY <2>4 DEF BucketInv
    <3> HIDE DEF l
    <3>3. l.lastRefill <= now
      BY <3>2 DEF Accounts
    <3>4. Cardinality(Since(accepted, s, t)) + l.available
            <= Tokens + (IF t <= l.lastRefill THEN Begun(l.lastRefill - t) ELSE 0)
      BY <3>2 DEF Accounts
    <3>5. CASE t <= l.lastRefill
      <4>1. l.lastRefill - t \in Nat /\ now - l.lastRefill \in Nat
        BY <2>2, <3>1, <3>3, <3>5
      <4>2. Begun(l.lastRefill - t) <= Begun((l.lastRefill - t) + (now - l.lastRefill))
        BY <4>1, BegunGrows
      <4>3. (l.lastRefill - t) + (now - l.lastRefill) = now - t
        BY <2>2, <3>1
      <4>4. Begun(l.lastRefill - t) \in Nat
        BY <4>1, BegunPeriods
      <4>5. Begun(l.lastRefill - t) <= Begun(now - t)
        BY <4>2, <4>3
      <4> QED BY <2>1, <2>2, <2>3, <3>1, <3>4, <3>5, <4>4, <4>5
    <3>6. CASE t > l.lastRefill
      BY <2>1, <2>2, <2>3, <3>1, <3>4, <3>6
    <3> QED BY <2>2, <3>1, <3>5, <3>6
  <2>5. CASE s \notin DOMAIN limiter
    <3>1. Since(accepted, s, t) = {}
      BY <2>5 DEF BucketInv, Since
    <3>2. Cardinality(Since(accepted, s, t)) = 0
      BY <3>1, FS_EmptySet
    <3> QED BY <2>1, <2>2, <2>3, <3>2
  <2> QED BY <2>4, <2>5
<1> QED BY <1>1, TypeCorrect, BucketsAccount, PTL
=============================================================================
