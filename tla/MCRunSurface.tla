---------------------------- MODULE MCRunSurface ----------------------------
(* Finite instances of RunSurface.  A behaviour is one of two scenes: all   *)
(* the launches and no subscriber, or one launch with a subscriber and      *)
(* events of its runner, at most MaxTicks of them.                          *)
EXTENDS RunSurface, TLC

CONSTANTS MaxTicks

VARIABLE scene

MCInit == Init /\ scene \in {"launches", "feed"}

Ticks == Cardinality({i \in DOMAIN published : published[i].load.type = "TICK"})

Runs ==
  \/ \E c \in Callers : Stop(c) \/ ((scene = "launches" \/ launched = 0 \/ ~CallerAt(c, "idle")) /\ Launch(c))
  \/ \E l \in Launches : RunGoesOn(l)
  \/ \E p \in Callers \cup Launches : Deliver(p)

Feed == Subscriber \/ \E l \in Launches : Ticks < MaxTicks /\ RunTick(l)

MCNext == (Runs \/ (scene = "feed" /\ Feed)) /\ UNCHANGED scene

MCVars == <<vars, scene>>

MCSpec == MCInit /\ [][MCNext]_MCVars

\* The same fairness as FairSpec.
MCFairSpec ==
  /\ MCSpec
  /\ \A c \in Callers : WF_vars(CallGoesOn(c) \/ Deliver(c))
  /\ \A l \in Launches : WF_vars(RunGoesOn(l)) /\ WF_vars(Deliver(l))
=============================================================================
