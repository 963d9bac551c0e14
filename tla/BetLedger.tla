------------------------------ MODULE BetLedger ------------------------------
(***************************************************************************)
(* The bet ledger (BetLedger) and the attribution by bet type              *)
(* (attach_bet_attrib), as functions of their records.                     *)
(*                                                                         *)
(* An event mentions a bet as [family, said, number]: the name's family, a *)
(* number said in the name ("place_6") and a number beside it; 0 is none.  *)
(***************************************************************************)
EXTENDS Integers, SequencesExt

Numbered == {"place", "lay", "odds"}

\* normalize_bet_type: a number beside the name goes before one in it.
Canon(m) ==
  <<m.family, IF m.family \notin Numbered THEN 0 ELSE IF m.number # 0 THEN m.number ELSE m.said>>

\* _lifo_key: only the number beside the name is part of the key.  The key that
\* resolve falls back to, of the name as it was written, is no entry's.
LifoKey(m) == <<Canon(m), m.number>>

---------------------------------------------------------------------------
(* The ledger.  stack keeps the ids of the bets placed under each key.     *)

NewLedger(keys) ==
  [entries |-> <<>>, stack |-> [k \in keys |-> <<>>], realized |-> 0, exposure |-> 0,
   cycle |-> FALSE, since |-> 0, roll |-> 0, intents |-> <<>>]

\* create_intent.
Intended(l, m) ==
  [l EXCEPT !.intents =
     Append(@, [bet |-> Canon(m), number |-> m.number, status |-> "open", entry |-> 0])]

\* cancel_intent: one that is matched or canceled stays as it is.
Canceled(l, i) ==
  [l EXCEPT !.intents[i].status = IF @ = "open" THEN "canceled" ELSE @]

\* A match by number alone.
FaultyNearest(l, m) ==
  SelectLastInSeq(l.intents, LAMBDA i :
    i.status = "open" /\ (m.number = 0 \/ i.number \in {0, m.number}))

\* _maybe_match_nearest_intent: the latest open intent for the bet, or 0.
Nearest(l, m) ==
  SelectLastInSeq(l.intents, LAMBDA i :
    i.status = "open" /\ i.bet = Canon(m) /\ (m.number = 0 \/ i.number \in {0, m.number}))

\* _mark_intent_matched: an id that is unknown, or no longer open, is let be.
Marked(intents, i, id) ==
  IF i \notin DOMAIN intents THEN intents
  ELSE IF intents[i].status # "open" THEN intents
  ELSE [intents EXCEPT ![i].status = "matched", ![i].entry = id]

\* place; intent is the id the event carries, or 0.
Placed(l, m, amount, intent) ==
  LET id == Len(l.entries) + 1
  IN  [l EXCEPT
         !.intents = Marked(@, IF intent # 0 THEN intent ELSE Nearest(l, m), id),
         !.entries = Append(@, [bet |-> Canon(m), key |-> LifoKey(m), amount |-> amount,
                                open |-> TRUE, pnl |-> 0, intent |-> intent,
                                opened |-> l.roll, closed |-> 0]),
         !.stack[LifoKey(m)] = Append(@, id),
         !.exposure = @ + amount]

\* What becomes of an entry and of the totals when it is closed.
Closed(l, id, payout) ==
  LET pnl == payout - l.entries[id].amount
  IN  [l EXCEPT
         !.entries[id] = [@ EXCEPT !.open = FALSE, !.pnl = pnl, !.closed = l.roll],
         !.exposure = @ - l.entries[id].amount,
         !.realized = @ + pnl,
         !.since = IF l.cycle THEN @ + pnl ELSE @]

\* A resolve that forgets to ask whether the entry is still open.
FaultyResolved(l, m, payout, id) ==
  IF id # 0 THEN IF id \in DOMAIN l.entries THEN Closed(l, id, payout) ELSE l
  ELSE IF l.stack[LifoKey(m)] = <<>> THEN l
  ELSE Closed([l EXCEPT !.stack[LifoKey(m)] = Front(@)], Last(l.stack[LifoKey(m)]), payout)

\* resolve, by an entry's id or, with id 0, by name: then the id is popped off
\* its stack before the entry is found closed.  The errors end in the shim.
Resolved(l, m, payout, id) ==
  IF id # 0
  THEN IF id \in DOMAIN l.entries /\ l.entries[id].open THEN Closed(l, id, payout) ELSE l
  ELSE IF l.stack[LifoKey(m)] = <<>> THEN l
  ELSE LET top == Last(l.stack[LifoKey(m)])
           popped == [l EXCEPT !.stack[LifoKey(m)] = Front(@)]
       IN  IF l.entries[top].open THEN Closed(popped, top, payout) ELSE popped

\* begin_point_cycle, end_point_cycle and touch_roll.
PointCycle(l, on) == [l EXCEPT !.cycle = on, !.since = 0]
Touched(l, roll) == [l EXCEPT !.roll = roll]

---------------------------------------------------------------------------
(* The attribution: a record for each bet, and how many of it are open.    *)

NewStats ==
  [placed |-> 0, resolved |-> 0, wins |-> 0, losses |-> 0, pushes |-> 0, staked |-> 0,
   pnl |-> 0, exposure |-> 0, peak |-> 0, open |-> 0]

StatPlaced(s, amount) ==
  [s EXCEPT !.placed = @ + 1, !.staked = @ + amount, !.open = @ + 1,
            !.peak = IF s.open + 1 > @ THEN s.open + 1 ELSE @]

\* on_bet_cleared, and the end of on_bet_resolved: one unit, if there is one.
StatCleared(s) == [s EXCEPT !.open = IF @ > 0 THEN @ - 1 ELSE 0]

\* pnl is what the event says it paid less what it says was staked.
StatResolved(s, outcome, pnl) ==
  [StatCleared(s) EXCEPT
     !.resolved = @ + 1, !.pnl = @ + pnl,
     !.wins = @ + IF outcome = "win" THEN 1 ELSE 0,
     !.losses = @ + IF outcome = "loss" THEN 1 ELSE 0,
     !.pushes = @ + IF outcome = "push" THEN 1 ELSE 0]

StatRolled(s) == [s EXCEPT !.exposure = @ + s.open]
=============================================================================
