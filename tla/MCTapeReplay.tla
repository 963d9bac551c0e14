---------------------------- MODULE MCTapeReplay -----------------------------
(* Finite instances of TapeReplay: the clients send MaxSent well-formed    *)
(* commands and the game has MaxHands come-outs.                           *)
EXTENDS TapeReplay, TLC

CONSTANTS MaxSent, MaxHands

Symmetry == Permutations(Cids) \cup Permutations(Bodies)

\* Commands sent so far, as they were answered.
Sent == Len(accepted) + Cardinality({l \in tape : l.reason \in Queue!RefusalReasons})

MCNext ==
  \/ Sent < MaxSent /\ \E c \in {d \in Queue!Command : d.form = "ok"} : Submit(c)
  \/ hand < MaxHands /\ Comeout
  \/ Roll
  \/ InjectRefused \/ InjectCommand
  \/ Drain \/ Settle \/ EndRoll
  \/ StartReplay

MCSpec == Init /\ [][MCNext]_vars
=============================================================================
