--------------------------- MODULE MCCommandQueue ---------------------------
(* Finite instances of CommandQueue: the clock stops at MaxTime and the    *)
(* queue serves MaxOps operations and accepts MaxMarked marked commands.   *)
(* One malformed shape stands for the three, which the queue treats alike, *)
(* marked or not, and one outcome reason for both.                         *)
EXTENDS CommandQueue, Folds, TLC

CONSTANTS MaxTime, MaxOps, MaxMarked

Symmetry == Permutations(Sources) \cup Permutations(Cids)

MarkedSoFar == Cardinality({i \in DOMAIN accepted : accepted[i].replay})

Submitted ==
  {c \in Command : \/ c.form = "ok" /\ (c.replay => MarkedSoFar < MaxMarked)
                   \/ c.form = "missing:correlation_id" /\ ~c.replay}

\* Operations served so far, as the statistics count them.
Served ==
  MapThenFoldSet(+, stats.enqueued + stats.executed,
                 LAMBDA r : stats.rejected[r], LAMBDA S : CHOOSE r \in S : TRUE, Reasons)

MCNext ==
  \/ now < MaxTime /\ Tick
  \/ Served < MaxOps /\ \E c \in Submitted : Enqueue(c)
  \/ q # <<>> /\ Drain
  \/ Served < MaxOps /\ \E s \in Sources : OutcomeExecuted(s)
  \/ Served < MaxOps /\ \E s \in Sources : OutcomeRejected(s, "duplicate_roll")

MCSpec == Init /\ [][MCNext]_vars
=============================================================================
