------------------------------ MODULE Accounts ------------------------------
(***************************************************************************)
(* The telemetry tracker and the layers that are attached to it: the bet   *)
(* ledger (wire_ledger), the attribution by bet type (attach_bet_attrib)   *)
(* and the histograms (attach_histograms).  A layer wraps on_roll and the  *)
(* point hooks; on_bet_placed and on_bet_resolved belong to whichever of   *)
(* the first two was attached last.  A table drives the hooks: on_roll for *)
(* every roll, then the hook of what the roll did to the point.            *)
(***************************************************************************)
EXTENDS BetLedger, FiniteSetsExt

CONSTANTS
  Mentions,   \* the ways an event may mention a bet
  Amounts,    \* stakes and payouts
  Totals,     \* the totals the dice may show
  Stacks,     \* the orders the layers may be attached in, sequences of layers
  MaxEvents   \* bound: events but for the hooks that follow a roll

ASSUME AccountsConstants ==
  /\ Amounts \subseteq Nat /\ Totals \subseteq 2..12
  /\ Stacks \subseteq Seq({"ledger", "attrib", "hist"})
  /\ MaxEvents \in Nat

VARIABLES
  layers,   \* what is attached, in order
  due,      \* the hook the last roll calls for
  tracker,  \* Tracker, with the bankroll extras
  ledger,   \* tracker.ledger
  stats,    \* _bet_stats and _bet_open
  hist,     \* the histograms
  events,   \* how many events there have been
  table     \* history: the rolls, and the seven-outs on the first roll after a point

vars == <<layers, due, tracker, ledger, stats, hist, events, table>>

Boxes == {4, 5, 6, 8, 9, 10}
Names == {Canon(m) : m \in Mentions}

Attached(layer) == \E i \in DOMAIN layers : layers[i] = layer

\* The layer whose on_bet_placed and on_bet_resolved are called.
Owner ==
  LET i == SelectLastInSeq(layers, LAMBDA l : l # "hist") IN IF i = 0 THEN "none" ELSE layers[i]

NoHits == [t \in Totals |-> 0]

\* The sum of f over what 1..n has of its domain.  A recursive function, and not a
\* fold of the community modules, so that what it computes can be proved.
SumTo(f, n) ==
  LET upTo[k \in 0..n] == IF k = 0 THEN 0 ELSE upTo[k - 1] + IF k \in DOMAIN f THEN f[k] ELSE 0
  IN  upTo[n]

Sum(f) == SumTo(f, 12)

NewTracker ==
  [point |-> 0, rolls |-> 0, since |-> 0, comeouts |-> 0, naturals |-> 0, craps |-> 0,
   hits |-> NoHits, inside |-> 0, outside |-> 0, near |-> NoHits,
   sevens |-> 0, hands |-> 0, pso |-> 0,
   bank |-> 0, peak |-> 0, draw |-> 0, deepest |-> 0, cycle |-> 0, hand |-> 0, log |-> <<>>]

Init ==
  /\ layers \in Stacks
  /\ due = "none"
  /\ tracker = NewTracker
  /\ ledger = NewLedger({LifoKey(m) : m \in Mentions})
  /\ stats = [b \in Names |-> NewStats]
  /\ hist = [hand |-> NoHits, shooter |-> NoHits]
  /\ events = 0
  /\ table = [rolls |-> 0, straight |-> 0]

Counting == events < MaxEvents /\ events' = events + 1

---------------------------------------------------------------------------
(* The tracker's hooks. *)

\* on_roll: a come-out, or a roll of the point cycle.
Rolled(t, total) ==
  LET all == [t EXCEPT !.hits[total] = @ + 1, !.rolls = @ + 1]
  IN  IF t.point = 0
      THEN [all EXCEPT !.comeouts = @ + 1,
                       !.naturals = @ + IF total \in {7, 11} THEN 1 ELSE 0,
                       !.craps = @ + IF total \in {2, 3, 12} THEN 1 ELSE 0]
      ELSE [all EXCEPT !.since = @ + 1, !.near[total] = @ + 1,
                       !.inside = @ + IF total \in {5, 6, 8, 9} THEN 1 ELSE 0,
                       !.outside = @ + IF total \in {4, 10} THEN 1 ELSE 0]

\* A point that goes off leaves rolls_since_point as it was.
FaultyPointIs(t, p) ==
  [t EXCEPT !.point = p, !.since = IF p = 0 THEN @ ELSE 0,
            !.cycle = 0, !.near = NoHits, !.inside = 0, !.outside = 0]

\* The start and the end of a point cycle: its counters begin again.
PointIs(t, p) ==
  [t EXCEPT !.point = p, !.since = 0, !.cycle = 0, !.near = NoHits, !.inside = 0, !.outside = 0]

\* on_seven_out.
SevenedOut(t) ==
  [PointIs(t, 0) EXCEPT
     !.pso = @ + IF t.since = 1 THEN 1 ELSE 0,
     !.sevens = @ + 1, !.hands = @ + 1, !.rolls = 0,
     !.log = Append(@, t.hand), !.hand = 0]

\* on_bankroll_delta.
Banked(t, delta) ==
  LET bank == t.bank + delta
      peak == Max({t.peak, bank})
  IN  [t EXCEPT !.bank = bank, !.peak = peak, !.draw = peak - bank,
                !.cycle = IF t.point # 0 THEN @ + delta ELSE @,
                !.hand = @ + delta, !.deepest = Max({@, peak - bank})]

---------------------------------------------------------------------------
(* What the table reports. *)

\* The histograms write the total into the tracker's own hits as well.
OnRoll(total) ==
  /\ due = "none"
  /\ Counting
  /\ LET wrapped == IF Attached("hist") THEN [tracker EXCEPT !.hits[total] = @ + 1] ELSE tracker
     IN  tracker' = Rolled(wrapped, total)
  /\ ledger' = IF Attached("ledger") THEN Touched(ledger, tracker.rolls) ELSE ledger
  /\ stats' = IF Attached("attrib") THEN [b \in Names |-> StatRolled(stats[b])] ELSE stats
  /\ hist' = IF Attached("hist")
             THEN [hand |-> [hist.hand EXCEPT ![total] = @ + 1],
                   shooter |-> [hist.shooter EXCEPT ![total] = @ + 1]]
             ELSE hist
  /\ due' = IF tracker.point = 0 THEN IF total \in Boxes THEN "set" ELSE "none"
            ELSE IF total = tracker.point THEN "made" ELSE IF total = 7 THEN "out" ELSE "none"
  /\ table' = [rolls |-> table.rolls + 1,
               straight |-> table.straight
                 + IF tracker.point # 0 /\ total = 7 /\ Sum(tracker.near) = 0 THEN 1 ELSE 0]
  /\ UNCHANGED layers

\* The total the point is set to is one that has been rolled.
OnPointEstablished(p) ==
  /\ due = "set"
  /\ due' = "none"
  /\ tracker' = PointIs(tracker, p)
  /\ ledger' = IF Attached("ledger") THEN PointCycle(ledger, TRUE) ELSE ledger
  /\ UNCHANGED <<layers, stats, hist, events, table>>

OnPointMade ==
  /\ due = "made"
  /\ due' = "none"
  /\ tracker' = PointIs(tracker, 0)
  /\ ledger' = IF Attached("ledger") THEN PointCycle(ledger, FALSE) ELSE ledger
  /\ UNCHANGED <<layers, stats, hist, events, table>>

\* The ledger does not hear of a seven-out: its point cycle goes on.
OnSevenOut ==
  /\ due = "out"
  /\ due' = "none"
  /\ tracker' = SevenedOut(tracker)
  /\ hist' = IF Attached("hist") THEN [hist EXCEPT !.hand = NoHits] ELSE hist
  /\ UNCHANGED <<layers, ledger, stats, events, table>>

OnBankrollDelta(delta) ==
  /\ Counting
  /\ tracker' = Banked(tracker, delta)
  /\ UNCHANGED <<layers, due, ledger, stats, hist, table>>

OnBetPlaced(m, amount, intent) ==
  /\ Counting
  /\ ledger' = IF Owner = "ledger" THEN Placed(ledger, m, amount, intent) ELSE ledger
  /\ stats' = IF Owner = "attrib" THEN [stats EXCEPT ![Canon(m)] = StatPlaced(@, amount)] ELSE stats
  /\ UNCHANGED <<layers, due, tracker, hist, table>>

OnBetResolved(m, outcome, payout, stated, id) ==
  /\ Counting
  /\ ledger' = IF Owner = "ledger" THEN Resolved(ledger, m, payout, id) ELSE ledger
  /\ stats' = IF Owner = "attrib"
              THEN [stats EXCEPT ![Canon(m)] = StatResolved(@, outcome, payout - stated)] ELSE stats
  /\ UNCHANGED <<layers, due, tracker, hist, table>>

OnBetCleared(m) ==
  /\ Attached("attrib")
  /\ Counting
  /\ stats' = [stats EXCEPT ![Canon(m)] = StatCleared(@)]
  /\ UNCHANGED <<layers, due, tracker, ledger, hist, table>>

OnIntentCreated(m) ==
  /\ Attached("ledger")
  /\ Counting
  /\ ledger' = Intended(ledger, m)
  /\ UNCHANGED <<layers, due, tracker, stats, hist, table>>

OnIntentCanceled(i) ==
  /\ Attached("ledger")
  /\ ledger' = Canceled(ledger, i)
  /\ UNCHANGED <<layers, due, tracker, stats, hist, events, table>>

Next ==
  \/ \E total \in Totals : OnRoll(total)
  \/ \E p \in Boxes \cap Totals : tracker.hits[p] > 0 /\ OnPointEstablished(p)
  \/ OnPointMade
  \/ OnSevenOut
  \/ \E a \in Amounts : OnBankrollDelta(a) \/ OnBankrollDelta(-a)
  \/ \E m \in Mentions, a \in Amounts, i \in 0..Len(ledger.intents) : OnBetPlaced(m, a, i)
  \/ \E m \in Mentions, o \in {"win", "loss", "push"}, a \in Amounts,
        s \in Amounts \cup {0}, id \in 0..Len(ledger.entries) : OnBetResolved(m, o, a, s, id)
  \/ \E m \in Mentions : OnBetCleared(m) \/ OnIntentCreated(m)
  \/ \E i \in DOMAIN ledger.intents : OnIntentCanceled(i)

Spec == Init /\ [][Next]_vars
---------------------------------------------------------------------------
(* Properties. *)

OpenEntries == {e \in DOMAIN ledger.entries : ledger.entries[e].open}

\* However bets are resolved - by name, by id, twice, or not at all - the ledger's
\* totals are those of its entries, and an open bet can still be resolved by the
\* name it was placed under: it is once on that name's stack.
LedgerTrue ==
  /\ ledger.exposure = SumTo([e \in OpenEntries |-> ledger.entries[e].amount], Len(ledger.entries))
  /\ ledger.realized =
       SumTo([e \in DOMAIN ledger.entries \ OpenEntries |-> ledger.entries[e].pnl],
             Len(ledger.entries))
  /\ \A e \in OpenEntries :
       Cardinality({i \in DOMAIN ledger.stack[ledger.entries[e].key] :
                      ledger.stack[ledger.entries[e].key][i] = e}) = 1

\* An intent is matched with one entry and an entry with one intent; unless the
\* entry named the intent, the two are for the same bet.
IntentsPaired ==
  LET matched == {i \in DOMAIN ledger.intents : ledger.intents[i].status = "matched"}
  IN  /\ \A i, j \in matched : ledger.intents[i].entry = ledger.intents[j].entry => i = j
      /\ \A i \in matched :
           LET e == ledger.entries[ledger.intents[i].entry]
           IN  e.intent = i \/ (e.intent = 0 /\ e.bet = ledger.intents[i].bet)

\* The counts kept apart agree: the rolls of the hand with the hand's histogram, the
\* rolls since the point with their hits, the point-seven-outs with those there were,
\* the logged hands with the bankroll, the bets open with the bets placed.
CountsAgree ==
  /\ Attached("hist") => tracker.rolls = Sum(hist.hand)
  /\ tracker.since = Sum(tracker.near)
  /\ tracker.pso + (IF due = "out" /\ tracker.since = 1 THEN 1 ELSE 0) = table.straight
  /\ tracker.bank = tracker.hand + SumTo(tracker.log, Len(tracker.log))
  /\ \A b \in Names : stats[b].open <= stats[b].peak /\ stats[b].peak <= stats[b].placed

\* tracker_histograms says it adds its layers "without breaking existing fields":
\* the session's hits are the rolls there have been.
SessionHits == Sum(tracker.hits) = table.rolls
=============================================================================
