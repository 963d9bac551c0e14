-------------------------- MODULE MCCommandPipeline -------------------------
(* Finite instances of CommandPipeline: the clients get MaxAnswers answers *)
(* and the clock stops at MaxTime; MaxMarked marked commands are accepted. *)
(* One malformed shape stands for them all, marked or not.                 *)
EXTENDS CommandPipeline, TLC

CONSTANTS MaxAnswers, MaxTime, MaxMarked

Symmetry == Permutations(Sources) \cup Permutations(Cids) \cup Permutations(Bodies)

MarkedSoFar == Cardinality({i \in DOMAIN accepted : accepted[i].replay})

Submitted ==
  {c \in Queue!Command : \/ c.form = "ok" /\ (c.replay => MarkedSoFar < MaxMarked)
                         \/ c.form \in {"missing:key", "unknown_action"} /\ ~c.replay}

\* The request in progress will be answered too.
Answered == answers + (IF http.pc = "idle" THEN 0 ELSE 1)

MCNext ==
  \/ Answered < MaxAnswers /\ \E c \in Submitted :
       Submit(c) \/ \E r \in {"active", "other"} : RefuseAtIngest(c, r)
  \/ HttpStep
  \/ RollEvent
  \/ CtrlStep
  \/ Finalize
  \/ now < MaxTime /\ Clock

MCSpec == Init /\ [][MCNext]_vars

\* The same fairness as FairSpec.
MCFairSpec == MCSpec /\ WF_vars(HttpStep) /\ WF_vars(CtrlStep) /\ WF_vars(RollEvent)
=============================================================================
