---------------------------- MODULE CommandQueue ----------------------------
(***************************************************************************)
(* The bounded queue between the HTTP intake and the controller            *)
(* (external/command_channel.py).  A command is admitted by `enqueue`      *)
(* after a fixed sequence of checks; the controller takes everything with  *)
(* `drain` and reports what became of each command with `record_outcome`.  *)
(* Each of the three holds the queue's lock from start to end, so each is  *)
(* one action here.  Time is an integer clock that is read once per        *)
(* operation.  The callers are left arbitrary: CommandPipeline composes    *)
(* this module with the threads that call it.                              *)
(***************************************************************************)
EXTENDS Naturals, Sequences, FiniteSets

CONSTANTS
  Sources,        \* the `source` labels of the clients
  Cids,           \* correlation ids
  Bodies,         \* what a command asks for: its action and args, one value
  QueueMax,       \* limits.queue_max_depth
  Quota,          \* limits.per_source_quota
  Tokens,         \* limits.rate.tokens
  RefillSeconds,  \* limits.rate.refill_seconds
  MaxRejects,     \* limits.circuit_breaker.consecutive_rejects
  CoolDown        \* limits.circuit_breaker.cool_down_seconds

ASSUME QueueConstants ==
  /\ QueueMax \in Nat
  /\ Quota \in Nat
  /\ Tokens \in Nat \ {0}        \* max(1, int(tokens))
  /\ RefillSeconds \in Nat \ {0}
  /\ MaxRejects \in Nat \ {0}    \* max(1, int(max_rejects))
  /\ CoolDown \in Nat

\* The shape of a submitted command: well formed, or the first thing wrong
\* with it, in the order `enqueue` looks.
Forms == {"ok", "missing:correlation_id", "missing:key", "unknown_action"}

\* The reasons that `record_outcome` is given by the controller's drain loop.
OutcomeReasons == {"duplicate_roll", "timing"}

RefusalReasons == (Forms \ {"ok"}) \cup
  {"timing:duplicate_correlation_id", "queue_full", "per_source_quota",
   "rate_limited", "circuit_breaker"}

Reasons == RefusalReasons \cup OutcomeReasons

\* `replay` is the mark `_csc_replay`, which `enqueue` takes out of the command,
\* whoever submits it.
Command == [cid : Cids, source : Sources, body : Bodies, form : Forms, replay : BOOLEAN]
Payload == [cid : Cids, source : Sources, body : Bodies]
Limiter == [available : 0..Tokens, lastRefill : Nat]
Breaker == [consecutive : Nat, trippedUntil : Nat]

VARIABLES
  now,        \* time.time()
  q,          \* _q
  seen,       \* _seen
  perSource,  \* _per_source_counts
  limiter,    \* _rate_limiters: a dict filled on first use
  breaker,    \* _circuit_breakers: a breaker made late is in its initial state
  stats,      \* stats
  accepted,   \* history: what was accepted, from whom, when and with what mark
  delivered,  \* history: what `drain` has handed over, in order
  results     \* history: the results recorded with each source's breaker

queueVars == <<now, q, seen, perSource, limiter, breaker, stats>>
history   == <<accepted, delivered, results>>
vars      == <<queueVars, history>>

Init ==
  /\ now = 0
  /\ q = <<>>
  /\ seen = {}
  /\ perSource = [s \in Sources |-> 0]
  /\ limiter = [s \in {} |-> [available |-> Tokens, lastRefill |-> 0]]
  /\ breaker = [s \in Sources |-> [consecutive |-> 0, trippedUntil |-> 0]]
  /\ stats = [enqueued |-> 0, executed |-> 0, rejected |-> [r \in Reasons |-> 0]]
  /\ accepted = <<>>
  /\ delivered = <<>>
  /\ results = [s \in Sources |-> <<>>]

-----------------------------------------------------------------------------
(* The token bucket.                                                       *)

\* The source's limiter, made full and stamped with the clock on first use.
GetLimiter(s) ==
  IF s \in DOMAIN limiter
  THEN limiter[s]
  ELSE [available |-> Tokens, lastRefill |-> now]

\* Fault variant: the stamp is not renewed.
FaultyRefilledStale(l) ==
  LET refill == (now - l.lastRefill) \div RefillSeconds
      sum    == l.available + refill
  IN  [l EXCEPT !.available = IF sum < Tokens THEN sum ELSE Tokens]

\* Whole periods since the last refill add one token each, up to the
\* bucket's size; the unfinished period is forfeited with the new stamp.
Refilled(l) ==
  LET refill == (now - l.lastRefill) \div RefillSeconds
      sum    == l.available + refill
  IN  IF refill > 0
      THEN [available |-> IF sum < Tokens THEN sum ELSE Tokens, lastRefill |-> now]
      ELSE l

HasToken(s) == Refilled(GetLimiter(s)).available > 0

\* `RateLimiter.allow`, which takes the token it grants.
AfterAllow(s) ==
  LET l == Refilled(GetLimiter(s))
  IN  IF l.available > 0 THEN [l EXCEPT !.available = @ - 1] ELSE l

PutLimiter(s, l) ==
  limiter' = [t \in DOMAIN limiter \cup {s} |-> IF t = s THEN l ELSE limiter[t]]

-----------------------------------------------------------------------------
(* The circuit breaker.                                                    *)

\* Fault variants: a success leaves the streak; a streak trips one too late.
FaultyRecordedSticky(b, success) ==
  IF success
  THEN b
  ELSE [consecutive  |-> b.consecutive + 1,
        trippedUntil |-> IF b.consecutive + 1 >= MaxRejects
                         THEN now + CoolDown ELSE b.trippedUntil]

FaultyRecordedLate(b, success) ==
  IF success
  THEN [b EXCEPT !.consecutive = 0]
  ELSE [consecutive  |-> b.consecutive + 1,
        trippedUntil |-> IF b.consecutive + 1 > MaxRejects
                         THEN now + CoolDown ELSE b.trippedUntil]

\* `CircuitBreaker.record`: the state it leaves.
Recorded(b, success) ==
  IF success
  THEN [b EXCEPT !.consecutive = 0]
  ELSE [consecutive  |-> b.consecutive + 1,
        trippedUntil |-> IF b.consecutive + 1 >= MaxRejects
                         THEN now + CoolDown ELSE b.trippedUntil]

Record(s, success) ==
  /\ breaker' = [breaker EXCEPT ![s] = Recorded(@, success)]
  /\ results' = [results EXCEPT ![s] = Append(@, [ok |-> success, at |-> now])]

BreakerAllows(s) == now >= breaker[s].trippedUntil

-----------------------------------------------------------------------------
(* enqueue                                                                 *)

\* Fault variants: limits that are off by one; ids looked up in the queue only.
FaultyVerdictOffByOne(c) ==
  IF c.form # "ok" THEN c.form
  ELSE IF c.cid \in seen THEN "timing:duplicate_correlation_id"
  ELSE IF c.replay THEN "accepted"
  ELSE IF Len(q) >= QueueMax + 1 THEN "queue_full"
  ELSE IF perSource[c.source] > Quota THEN "per_source_quota"
  ELSE IF ~HasToken(c.source) THEN "rate_limited"
  ELSE IF ~BreakerAllows(c.source) THEN "circuit_breaker"
  ELSE "accepted"

FaultyVerdictForgets(c) ==
  IF c.form # "ok" THEN c.form
  ELSE IF \E i \in DOMAIN q : q[i].cid = c.cid THEN "timing:duplicate_correlation_id"
  ELSE IF c.replay THEN "accepted"
  ELSE IF Len(q) >= QueueMax THEN "queue_full"
  ELSE IF perSource[c.source] >= Quota THEN "per_source_quota"
  ELSE IF ~HasToken(c.source) THEN "rate_limited"
  ELSE IF ~BreakerAllows(c.source) THEN "circuit_breaker"
  ELSE "accepted"

\* The first check of `enqueue` that fails, or "accepted".  Commands marked as
\* replayed skip everything that depends on load or time.
Verdict(c) ==
  IF c.form # "ok" THEN c.form
  ELSE IF c.cid \in seen THEN "timing:duplicate_correlation_id"
  ELSE IF c.replay THEN "accepted"
  ELSE IF Len(q) >= QueueMax THEN "queue_full"
  ELSE IF perSource[c.source] >= Quota THEN "per_source_quota"
  ELSE IF ~HasToken(c.source) THEN "rate_limited"
  ELSE IF ~BreakerAllows(c.source) THEN "circuit_breaker"
  ELSE "accepted"

\* The limiter is asked only once the checks before it have passed; its
\* answer costs a token even when the breaker then refuses the command.
AskLimiter(c) ==
  IF ~c.replay /\ Verdict(c) \in {"rate_limited", "circuit_breaker", "accepted"}
  THEN PutLimiter(c.source, AfterAllow(c.source))
  ELSE UNCHANGED limiter

\* `_reject_locked`: a refusal counts as a failure of the source, except the
\* refusal of a breaker that is open already.
Refuse(c) ==
  /\ Verdict(c) \in RefusalReasons
  /\ AskLimiter(c)
  /\ IF Verdict(c) = "circuit_breaker"
     THEN UNCHANGED <<breaker, results>>
     ELSE Record(c.source, FALSE)
  /\ stats' = [stats EXCEPT !.rejected[Verdict(c)] = @ + 1]
  /\ UNCHANGED <<now, q, seen, perSource, accepted, delivered>>

\* Fault variant: the newest command goes to the head of the queue.
FaultyAcceptAtHead(c) ==
  /\ Verdict(c) = "accepted"
  /\ AskLimiter(c)
  /\ seen' = seen \cup {c.cid}
  /\ q' = <<[cid |-> c.cid, source |-> c.source, body |-> c.body]>> \o q
  /\ perSource' = [perSource EXCEPT ![c.source] = @ + 1]
  /\ stats' = [stats EXCEPT !.enqueued = @ + 1]
  /\ accepted' = Append(accepted, [cid |-> c.cid, source |-> c.source, at |-> now, replay |-> c.replay])
  /\ UNCHANGED <<now, breaker, delivered, results>>

Accept(c) ==
  /\ Verdict(c) = "accepted"
  /\ AskLimiter(c)
  /\ seen' = seen \cup {c.cid}
  /\ q' = Append(q, [cid |-> c.cid, source |-> c.source, body |-> c.body])
  /\ perSource' = [perSource EXCEPT ![c.source] = @ + 1]
  /\ stats' = [stats EXCEPT !.enqueued = @ + 1]
  /\ accepted' = Append(accepted, [cid |-> c.cid, source |-> c.source, at |-> now, replay |-> c.replay])
  /\ UNCHANGED <<now, breaker, delivered, results>>

Enqueue(c) == Refuse(c) \/ Accept(c)

-----------------------------------------------------------------------------
(* drain and record_outcome                                                *)

\* Fault variant: the counters of the drained commands are kept.
FaultyDrainKeepsCounts ==
  /\ delivered' = delivered \o q
  /\ q' = <<>>
  /\ UNCHANGED <<now, seen, perSource, limiter, breaker, stats, accepted, results>>

\* Everything queued is handed over and the quotas start again, whatever the
\* controller has still to do with the commands.
Drain ==
  /\ delivered' = delivered \o q
  /\ q' = <<>>
  /\ perSource' = [s \in Sources |-> 0]
  /\ UNCHANGED <<now, seen, limiter, breaker, stats, accepted, results>>

OutcomeExecuted(s) ==
  /\ Record(s, TRUE)
  /\ stats' = [stats EXCEPT !.executed = @ + 1]
  /\ UNCHANGED <<now, q, seen, perSource, limiter, accepted, delivered>>

OutcomeRejected(s, reason) ==
  /\ Record(s, FALSE)
  /\ stats' = [stats EXCEPT !.rejected[reason] = @ + 1]
  /\ UNCHANGED <<now, q, seen, perSource, limiter, accepted, delivered>>

\* What `record_outcome` returns as circuit_breaker_reset: this success ends
\* a streak that had tripped the breaker.
ResetSignalled(s) == breaker[s].consecutive >= MaxRejects

Tick ==
  /\ now' = now + 1
  /\ UNCHANGED <<q, seen, perSource, limiter, breaker, stats, history>>

Next ==
  \/ Tick
  \/ \E c \in Command : Enqueue(c)
  \/ Drain
  \/ \E s \in Sources : OutcomeExecuted(s)
  \/ \E s \in Sources, r \in OutcomeReasons : OutcomeRejected(s, r)

Spec == Init /\ [][Next]_vars

-----------------------------------------------------------------------------
(* Properties                                                              *)

Result == [ok : BOOLEAN, at : Nat]
Acceptance == [cid : Cids, source : Sources, at : Nat, replay : BOOLEAN]
Stats == [enqueued : Nat, executed : Nat, rejected : [Reasons -> Nat]]

TypeOK ==
  /\ now \in Nat
  /\ q \in Seq(Payload)
  /\ seen \subseteq Cids
  /\ perSource \in [Sources -> Nat]
  /\ DOMAIN limiter \subseteq Sources
  /\ limiter \in [DOMAIN limiter -> Limiter]
  /\ breaker \in [Sources -> Breaker]
  /\ stats \in Stats
  /\ accepted \in Seq(Acceptance)
  /\ delivered \in Seq(Payload)
  /\ results \in [Sources -> Seq(Result)]

\* What is queued for a source, by position.
QueuedFrom(s) == {i \in DOMAIN q : q[i].source = s}

\* The per-source counter is kept beside the queue and is reset by another
\* thread's drain: it must equal the number of commands of that source that
\* are queued, or quotas would leak or stick (enqueue, drain).
CountsMatchQueue == \A s \in Sources : perSource[s] = Cardinality(QueuedFrom(s))

\* The n-th command of the queue came with the mark of a replay.
Marked(n) == accepted[Len(delivered) + n].replay

\* A command without the mark is queued within the queue's limit and its source's
\* quota, counting those before it, marked ones too, which no limit holds back
\* (enqueue's queue_full and per_source_quota refusals).
LimitsHeld ==
  \A n \in DOMAIN q : ~Marked(n) =>
    /\ n <= QueueMax
    /\ Cardinality({i \in QueuedFrom(q[n].source) : i <= n}) <= Quota

\* What was accepted is what was handed over followed by what is queued:
\* no command is lost, repeated or overtaken between enqueue and drain.
HandedOverInOrder ==
  LET all == delivered \o q
  IN  /\ Len(all) = Len(accepted)
      /\ \A i \in DOMAIN accepted :
           all[i].cid = accepted[i].cid /\ all[i].source = accepted[i].source

\* No correlation id is accepted twice in a run, however long ago its first
\* command was drained, and in replay too (_seen is never pruned).
AcceptedAtMostOnce ==
  \A i, j \in DOMAIN accepted : accepted[i].cid = accepted[j].cid => i = j

\* The acceptances of a source from time t on that took a token.
AcceptedSince(s, t) ==
  {i \in DOMAIN accepted : accepted[i].source = s /\ accepted[i].at >= t /\ ~accepted[i].replay}

\* Over any window that ends now, a source gets at most one bucket of commands
\* accepted plus one per refill period begun (RateLimiter.allow discards the
\* unfinished period and caps the bucket), marked ones aside.
BurstBound ==
  \A s \in Sources : \A t \in 0..now :
    Cardinality(AcceptedSince(s, t))
      <= Tokens + ((now - t) + RefillSeconds - 1) \div RefillSeconds

\* The last n results recorded for s are all failures.
FailedLast(s, n) ==
  /\ Len(results[s]) >= n
  /\ \A i \in (Len(results[s]) - n + 1)..Len(results[s]) : ~results[s][i].ok

\* Within cool_down_seconds of a failure that ends a streak of
\* consecutive_rejects failures, nothing of that source is accepted without the
\* mark, whether the failures came from enqueue or from the controller's outcomes;
\* marked commands accepted meanwhile neither end the streak nor reopen the source.
NothingAcceptedWhileTripped ==
  [][ Len(accepted') > Len(accepted) /\ ~accepted'[Len(accepted')].replay =>
        LET s == accepted'[Len(accepted')].source
            n == Len(results[s])
        IN  FailedLast(s, MaxRejects) => now >= results[s][n].at + CoolDown ]_vars

\* A source whose recorded results hold no streak of consecutive_rejects
\* failures is never refused by the breaker: failures separated by an
\* executed command do not add up (CircuitBreaker.record).
TripNeedsStreak ==
  \A s \in Sources :
    breaker[s].trippedUntil > 0 =>
      \E n \in MaxRejects..Len(results[s]) :
        \A i \in (n - MaxRejects + 1)..n : ~results[s][i].ok
=============================================================================
