--------------------------- MODULE CommandLedger ----------------------------
(***************************************************************************)
(* What the external command channel promises its clients, with no queue,  *)
(* threads or files in sight: a command is taken on at most once, and the  *)
(* commands taken on are settled one by one, each exactly once, in the     *)
(* order in which they were taken on.                                      *)
(***************************************************************************)
EXTENDS Naturals, Sequences

CONSTANTS Cids

VARIABLES
  order,    \* the correlation ids taken on, in order
  settled   \* the correlation ids with an outcome on record, in order

ledgerVars == <<order, settled>>

Init == order = <<>> /\ settled = <<>>

TakeOn(cid) ==
  /\ \A i \in DOMAIN order : order[i] # cid
  /\ order' = Append(order, cid)
  /\ UNCHANGED settled

Settle ==
  /\ Len(settled) < Len(order)
  /\ settled' = Append(settled, order[Len(settled) + 1])
  /\ UNCHANGED order

Next == Settle \/ \E cid \in Cids : TakeOn(cid)

Spec == Init /\ [][Next]_ledgerVars
=============================================================================
