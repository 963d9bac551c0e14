---------------------------- MODULE VanillaLive ----------------------------
(***************************************************************************)
(* VanillaAdapter with a live engine: the table and its player are the     *)
(* engine's (external), and the adapter keeps a mirror of them in the same *)
(* record its stub keeps.  Every call first refreshes the mirror, a verb   *)
(* works on the player's bets, and a verb that fails falls back to the     *)
(* stub's handler, which changes the mirror only.                          *)
(*                                                                         *)
(* The engine's bets are recognised by class name, as the code falls back  *)
(* to.  Player.add_bet and remove_bet may do what they are asked, ignore   *)
(* it without a word, or (add_bet) raise.                                  *)
(*                                                                         *)
(* An engine asks the strategy at its table for bets before every roll, or *)
(* never; the strategy bets for the same player the verbs do.              *)
(***************************************************************************)
EXTENDS BetVerbs, TableStrategy, TLC

CONSTANTS
  LineMin,      \* the smallest of the line and field minimums
  PlaceMin,     \* the smallest of the field and place minimums
  MaxBets,      \* bound: bets the player has at a time; the fifth would be read as box 4
  MaxCalls,     \* bound: calls of the adapter
  TableCounts   \* TRUE: the engine's table has hand_id and roll_in_hand

ASSUME LiveConstants ==
  /\ LineMin \in Nat /\ PlaceMin \in Nat /\ MaxBets \in 0..4 /\ MaxCalls \in Nat /\ TableCounts \in BOOLEAN
  /\ \E most \in Amounts : \A a \in Amounts : a <= most

VARIABLES
  table,    \* external: point (0: off), hand, roll, and whether it asks the strategy
  player,   \* external: bankroll in half dollars, bets in the order made
  strategy, \* the strategy at the table
  mirror,   \* the adapter's bankroll, bets, odds, types, levels, comeout
  last,     \* _last_snapshot: point, hand, roll and come_flat
  answer,   \* the last answer
  calls,    \* how many calls there have been
  sevens,   \* history: the seven-outs so far
  thrown    \* history: the bets the dice were last thrown on, the point then, and
            \* how often the strategy has bet since there is a point

vars == <<table, player, strategy, mirror, last, answer, calls, sevens, thrown>>

ComeFlat(p) == [n \in Boxes |-> Total(p.bets, LAMBDA b : b.fam = "come" /\ b.num = n)]

\* _normalize_snapshot of a table and a player: every bet with a box number is
\* that box's, whatever its family; a come bet without one is not seen at all.
TableBets(p) ==
  [k \in Keys |->
     CASE k[1] = "box" -> Total(p.bets, LAMBDA b : b.num = k[2])
       [] k[1] \in {"pass", "dont_pass", "field"} -> Total(p.bets, LAMBDA b : b.fam = k[1])
       [] k[1] = "dc" -> Total(p.bets, LAMBDA b : b.fam = "dc" /\ b.num = 0)
       [] OTHER -> 0]

TableTypes(p) ==
  [n \in Boxes |->
     LET on == SelectSeq(p.bets, LAMBDA b : b.num = n /\ b.fam \in Kinds)
     IN  IF on = <<>> THEN "none" ELSE on[1].fam]

NoOdds == [k \in OddsKeys |-> 0]
NoLevels == [n \in Boxes |-> 0]

\* What an object snapshot makes of the mirror, through
\* _apply_normalized_snapshot: it carries no levels, so the ladder is lost.
Mirrored(t, p) ==
  [bankroll |-> p.bankroll, bets |-> TableBets(p), odds |-> NoOdds, types |-> TableTypes(p),
   levels |-> NoLevels, comeout |-> t.point = 0]

\* A table without hand_id and roll_in_hand is on hand 0 and roll 0.
Seen(t, p) ==
  [point |-> t.point, hand |-> IF TableCounts THEN t.hand ELSE 0,
   roll |-> IF TableCounts THEN t.roll ELSE 0, come |-> ComeFlat(p)]

\* CrapsSimAdapter.snapshot_state: the bets by class name alone, so that no box
\* has one and the don't pass counts as the pass line.
RawBets(p) ==
  [k \in Keys |->
     CASE k = <<"pass", 0>> -> Total(p.bets, LAMBDA b : b.fam \in {"pass", "dont_pass"})
       [] k[1] \in {"come", "dc", "field"} -> Total(p.bets, LAMBDA b : b.fam = k[1])
       [] OTHER -> 0]

\* A refresh that keeps the bankroll the mirror had.
FaultyRefreshed(t, p, m) ==
  LET over == TableBets(p)
      raw == RawBets(p)
  IN  [Mirrored(t, p) EXCEPT
         !.bankroll = m.bankroll,
         !.bets = [over EXCEPT ![<<"come", 0>>] = raw[<<"come", 0>>],
                               ![<<"dc", 0>>] = IF @ > 0 THEN @ ELSE raw[<<"dc", 0>>]],
         !.levels = m.levels]

\* snapshot_state: the engine's own snapshot with the table's laid over it, and
\* the levels the adapter has.
Refreshed(t, p, m) ==
  LET over == TableBets(p)
      raw == RawBets(p)
  IN  [Mirrored(t, p) EXCEPT
         !.bets = [over EXCEPT ![<<"come", 0>>] = raw[<<"come", 0>>],
                               ![<<"dc", 0>>] = IF @ > 0 THEN @ ELSE raw[<<"dc", 0>>]],
         !.levels = m.levels]

---------------------------------------------------------------------------
(* External: what the player does with a bet added or removed. *)

RemoveHow == {"taken", "ignored"}

Add(p, b, how) ==
  IF how = "taken" THEN [bankroll |-> p.bankroll - 2 * b.amt, bets |-> Append(p.bets, b)] ELSE p

Drop(p, i, how) ==
  IF how = "taken" THEN [bankroll |-> p.bankroll + 2 * p.bets[i].amt, bets |-> RemoveAt(p.bets, i)]
  ELSE p

---------------------------------------------------------------------------
(* _apply_engine_action.  Each verb yields the player it leaves and the    *)
(* effect it reports (bank is its bankroll_delta), or Fails.               *)

Fails == [ok |-> FALSE]
Did(p, bank, bets) == [ok |-> TRUE, player |-> p, bank |-> bank, bets |-> bets]

\* Reports the change of the player's bankroll.
Measured(p, q, bets) == Did(q, q.bankroll - p.bankroll, bets)

\* place_bet, buy_bet, lay_bet: the amount is reported paid unless add_bet
\* raises.  A number that is not a box is no bet and no failure.
LiveBoxBet(p, r, add) ==
  LET kind == CASE r.verb = "place_bet" -> "place" [] r.verb = "buy_bet" -> "buy" [] OTHER -> "lay"
  IN  IF r.bare \/ r.amount <= 0 THEN Fails
      ELSE IF r.number \notin Boxes \/ add = "raises" THEN Did(p, 0, <<>>)
      ELSE Did(Add(p, Bet(kind, r.number, r.amount), add), -2 * r.amount, <<"box", r.number>> :> r.amount)

\* _pop_bet: the first of the player's bets with that number, of any family.
FirstOn(p, n) ==
  LET on == {i \in DOMAIN p.bets : p.bets[i].num = n} IN IF n = 0 \/ on = {} THEN 0 ELSE Min(on)

LiveTakeDown(p, r, rem) ==
  LET i == FirstOn(p, r.number)
  IN  IF i = 0 THEN Did(p, 0, <<>>)
      ELSE Did(Drop(p, i, rem), 2 * p.bets[i].amt, <<"box", r.number>> :> -p.bets[i].amt)

\* move_bet: what is not a buy or a lay is put back as a place bet.
LiveMoveBet(p, r, rem, add) ==
  LET i == FirstOn(p, r.number)
      was == p.bets[i]
      kind == IF was.fam \in {"buy", "lay"} THEN was.fam ELSE "place"
      q == Drop(p, i, rem)
      gone == <<"box", r.number>> :> -was.amt
  IN  IF {r.number, r.to} \ Boxes # {} THEN Fails
      ELSE IF i = 0 THEN Did(p, 0, <<>>)
      ELSE IF add = "raises" THEN Did(q, 2 * was.amt, gone)
      ELSE Did(Add(q, Bet(kind, r.to, was.amt), add), 0, (<<"box", r.to>> :> was.amt) @@ gone)

\* The bets whose cost is measured.  fail says what an add_bet that raises is.
Staked(p, b, key, add, fail) ==
  IF add = "raises" THEN fail ELSE Measured(p, Add(p, b, add), key :> b.amt)

LiveLineBet(p, r, add) ==
  IF r.bare THEN Fails
  ELSE Staked(p, Bet(r.side, 0, r.amount), <<r.side, 0>>, add, Did(p, 0, <<>>))

LiveComeBet(p, r, add) ==
  LET fam == IF r.verb = "come_bet" THEN "come" ELSE "dc"
  IN  IF r.bare THEN Fails ELSE Staked(p, Bet(fam, 0, r.amount), <<fam, 0>>, add, Did(p, 0, <<>>))

LiveFieldBet(p, r, add) == Staked(p, Bet("field", 0, r.amount), <<"field", 0>>, add, Fails)

LiveHardwayBet(p, r, add) ==
  IF r.number \notin Boxes THEN Did(p, 0, <<>>)
  ELSE Staked(p, Bet("hardway", r.number, r.amount), <<"hardway", r.number>>, add, Fails)

\* The number odds go to: the one asked for or, on the line, the point.
OddsNumber(t, r) ==
  IF r.number \in Boxes THEN r.number
  ELSE IF r.side \in {"pass", "dont_pass"} THEN t.point ELSE 0

OddsOn(base) ==
  CASE base = "pass" -> "odds_pass" [] base = "dont_pass" -> "odds_dont_pass"
    [] base = "come" -> "odds_come" [] OTHER -> "odds_dc"

LiveSetOdds(t, p, r, add) ==
  IF OddsNumber(t, r) = 0 \/ add = "raises" THEN Fails
  ELSE Staked(p, Bet(OddsOn(r.side), OddsNumber(t, r), r.amount), OddsKey(r), add, Fails)

\* An odds bet that take_odds comes to, and what rides on all of them.
Rides(b, r, n) == b.fam = OddsOn(r.side) /\ n \in {0, b.num}
RidingOn(bets, r, n) == Total(bets, LAMBDA b : Rides(b, r, n))

\* A take_odds that takes the amount asked from each bet it finds.
FaultyLiveTakeOdds(t, p, r, add, rem) ==
  LET n == OddsNumber(t, r)
      Take(acc, b) ==
        LET i == SelectInSeq(acc.p.bets, LAMBDA c : c = b)
            take == Min({r.amount, b.amt})
            rest == [b EXCEPT !.amt = @ - take]
            q == Drop(acc.p, i, rem)
        IN  IF ~Rides(b, r, n) THEN acc
            ELSE [p |-> IF rest.amt > 0 THEN Add(q, rest, add) ELSE q, taken |-> acc.taken + take]
      done == FoldLeft(Take, [p |-> p, taken |-> 0], p.bets)
  IN  IF (n = 0 /\ r.side \in {"come", "dc"}) \/ done.taken = 0 THEN Fails
      ELSE Measured(p, done.p, OddsKey(r) :> -done.taken)

\* One bet on the way of take_odds through them: what it has left is bet again, and
\* nobody looks whether the player took it.
OddsTaken(acc, b, r, n, add, rem) ==
  LET i == SelectInSeq(acc.p.bets, LAMBDA c : c = b)
      take == Min({acc.left, b.amt})
      rest == [b EXCEPT !.amt = @ - take]
      q == Drop(acc.p, i, rem)
  IN  IF ~Rides(b, r, n) \/ take = 0 THEN acc
      ELSE [p |-> IF rest.amt > 0 THEN Add(q, rest, add) ELSE q,
            left |-> acc.left - take, taken |-> acc.taken + take]

\* take_odds goes through the odds of that base and number, or of every number
\* on the line while there is no point.
LiveTakeOdds(t, p, r, add, rem) ==
  LET n == OddsNumber(t, r)
      done == FoldLeft(LAMBDA acc, b : OddsTaken(acc, b, r, n, add, rem),
                       [p |-> p, left |-> r.amount, taken |-> 0], p.bets)
  IN  IF (n = 0 /\ r.side \in {"come", "dc"}) \/ done.taken = 0 THEN Fails
      ELSE Measured(p, done.p, OddsKey(r) :> -done.taken)

LivePropBet(p, r, add) == Staked(p, Bet("prop", 0, r.amount), <<"prop", 0>>, add, Fails)

\* A bonus bet that could not be placed is reported placed and paid for.
LiveAtsBet(p, r, add) ==
  Staked(p, Bet("ats", 0, r.amount), <<"ats", 0>>, add, Did(p, -2 * r.amount, <<"ats", 0>> :> r.amount))

\* The player without the bets of some families.
Without(p, fams, numbered, rem) ==
  LET goes(b) == b.fam \in fams /\ (numbered => b.num # 0)
  IN  IF rem = "ignored" THEN p
      ELSE [bankroll |-> p.bankroll + 2 * Total(p.bets, goes),
            bets |-> FoldLeft(LAMBDA kept, b : IF goes(b) THEN kept ELSE Append(kept, b), <<>>, p.bets)]

LineFams == {"pass", "dont_pass", "odds_pass", "odds_dont_pass"}
FamsOf(base) == {base, OddsOn(base)}

\* The line is measured; come and don't come bets are reported refunded in
\* full, and only those that have travelled are removed.
LiveRemove(p, r, rem) ==
  LET base == IF r.verb = "remove_come" THEN "come" ELSE "dc"
      q == Without(p, FamsOf(base), TRUE, rem)
      lost(b) == b.fam \in FamsOf(base) /\ b.num # 0
      line == {k \in {<<"pass", 0>>, <<"dont_pass", 0>>} : TableBets(p)[k] > 0}
      come == {n \in Boxes : r.verb = "remove_come" /\ ComeFlat(p)[n] > 0}
  IN  IF r.verb = "remove_line"
      THEN Measured(p, Without(p, LineFams, FALSE, rem), [k \in line |-> -TableBets(p)[k]])
      ELSE Did(q, 2 * Total(p.bets, lost), [k \in {"box"} \X come |-> -ComeFlat(p)[k[2]]])

LiveEffect(t, p, r, add, rem) ==
  CASE r.verb \in {"place_bet", "buy_bet", "lay_bet"} -> LiveBoxBet(p, r, add)
    [] r.verb = "take_down" -> LiveTakeDown(p, r, rem)
    [] r.verb = "move_bet" -> LiveMoveBet(p, r, rem, add)
    [] r.verb = "line_bet" -> LiveLineBet(p, r, add)
    [] r.verb \in {"come_bet", "dont_come_bet"} -> LiveComeBet(p, r, add)
    [] r.verb = "field_bet" -> LiveFieldBet(p, r, add)
    [] r.verb = "hardway_bet" -> LiveHardwayBet(p, r, add)
    [] r.verb = "set_odds" -> LiveSetOdds(t, p, r, add)
    [] r.verb = "take_odds" -> LiveTakeOdds(t, p, r, add, rem)
    [] r.verb = "prop_bet" -> LivePropBet(p, r, add)
    [] r.verb = "ats_bet" -> LiveAtsBet(p, r, add)
    [] r.verb \in {"remove_line", "remove_come", "remove_dont_come"} -> LiveRemove(p, r, rem)
    [] OTHER -> Fails    \* apply_policy: not an engine verb

---------------------------------------------------------------------------
(* apply_action. *)

\* An answer names the verb and, for take_odds, the request it answers.
Said(r, ok, via, bank) ==
  [of |-> IF r.verb = "take_odds" THEN r ELSE [verb |-> r.verb],
   ok |-> ok, via |-> via, bank |-> bank, pso |-> FALSE]

\* What a call leaves: the player, the mirror, the answer.
Left(p, m, ans) == [player |-> p, mirror |-> m, answer |-> ans]

\* The stub's handler, on the mirror.
Fallback(p, m, r) ==
  LET e == EffectOf(m, r)
  IN  IF e.ok THEN Left(p, Applied(m, r, e), Said(r, TRUE, "stub", e.bank))
      ELSE Left(p, m, Said(r, FALSE, "stub", 0))

\* The engine does not know press and regress: it answers with nothing done, and
\* the mirror becomes the engine's own snapshot.
Acted(t, p, m, r, add, rem) ==
  LET seen == Refreshed(t, p, m)
      e == LiveEffect(t, p, r, add, rem)
  IN  IF r.verb \in {"press", "regress"}
      THEN Left(p, [Mirrored(t, p) EXCEPT !.bets = RawBets(p), !.types = [n \in Boxes |-> "none"]],
                Said(r, TRUE, "noop", 0))
      ELSE IF e.ok THEN Left(e.player, Mirrored(t, e.player), Said(r, TRUE, "engine", e.bank))
      ELSE Fallback(p, seen, r)

Become(w) == player' = w.player /\ mirror' = w.mirror /\ answer' = w.answer

Calling == calls' = calls + 1

ApplyAction(r, add, rem) ==
  /\ Calling
  /\ Become(Acted(table, player, mirror, r, add, rem))
  /\ Len(player'.bets) <= MaxBets
  /\ last' = Seen(table, player')
  /\ UNCHANGED <<table, strategy, sevens, thrown>>

---------------------------------------------------------------------------
(* External: Table.roll.  A bet stays, is lost, is won at even money, or, a    *)
(* come or don't come bet before it has a number, moves to the number rolled.  *)

Fates == {"stays", "lost", "won", "travels"}

MayTravel(b, total) == b.fam \in {"come", "dc"} /\ b.num = 0 /\ total \in Boxes

Settled(p, fate, total) ==
  FoldLeft(LAMBDA q, i :
             LET b == p.bets[i]
             IN  CASE fate[i] = "stays" -> [q EXCEPT !.bets = Append(@, b)]
                   [] fate[i] = "travels" -> [q EXCEPT !.bets = Append(@, [b EXCEPT !.num = total])]
                   [] fate[i] = "won" -> [q EXCEPT !.bankroll = @ + 4 * b.amt]
                   [] OTHER -> q,
           [bankroll |-> p.bankroll, bets |-> <<>>], [i \in DOMAIN p.bets |-> i])

SevenOut(t, total) == t.point # 0 /\ total = 7

TableRolled(t, total) ==
  [t EXCEPT !.point = IF @ = 0 /\ total \in Boxes THEN total ELSE IF total \in {@, 7} THEN 0 ELSE @,
            !.hand = IF SevenOut(t, total) THEN @ + 1 ELSE @,
            !.roll = IF SevenOut(t, total) THEN 0 ELSE @ + 1]

\* What the strategy makes of the player before the dice are thrown.  The reset
\* an engine may tell it of at a seven-out changes nothing: it then sees a come-out.
Prepared(t, s, p, clear, add) ==
  IF t.asks THEN Asked(s, p, t.point, clear, add) ELSE [strategy |-> s, laid |-> FALSE, player |-> p]

---------------------------------------------------------------------------
(* step_roll. *)

\* _maybe_early_stop on the refreshed mirror, with no policy.  While the point
\* is on the smallest minimum is that of a place bet.
EarlyStop(m) ==
  IF m.bankroll <= 0 THEN "bankroll_exhausted"
  ELSE IF m.bankroll < 2 * (IF m.comeout THEN LineMin ELSE PlaceMin) THEN "unactionable_bankroll" ELSE ""

RollSaid(ok, via, pso) == [of |-> [verb |-> "roll"], ok |-> ok, via |-> via, bank |-> 0, pso |-> pso]

\* Every seven taken for a seven-out.
FaultyPso(was, total) == total = 7

\* _step_roll_live counts from the snapshot before the roll.
Pso(was, total) == was.point # 0 /\ total = 7

Counted(was, t, p, total) ==
  LET now == Seen(t, p)
      seen == IF now.hand = 0 THEN was.hand ELSE now.hand
      hand == IF seen = was.hand /\ Pso(was, total) THEN was.hand + 1 ELSE seen
  IN  [point |-> IF Pso(was, total) THEN 0 ELSE now.point, hand |-> hand,
       roll |-> IF hand # was.hand THEN 1 ELSE was.roll + 1, come |-> now.come]

\* A roll before which the session ends.
StopEarly ==
  LET m == Refreshed(table, player, mirror)
  IN  /\ Calling
      /\ EarlyStop(m) # ""
      /\ Become(Left(player, m, RollSaid(FALSE, EarlyStop(m), FALSE)))
      /\ last' = Seen(table, player)
      /\ UNCHANGED <<table, strategy, sevens, thrown>>

\* The session has no rules.  A roll that raises leaves the table as it was, with
\* the bets the strategy made for it; the mirror is from before them.
StepRoll(total, fate, raises, clear, add) ==
  LET m == Refreshed(table, player, mirror)
      was == Seen(table, player)
      ready == Prepared(table, strategy, player, clear, add)
      t == TableRolled(table, total)
      p == Settled(ready.player, fate, total)
      after == [Mirrored(t, p) EXCEPT !.comeout = @ \/ Pso(was, total)]
  IN  /\ Calling
      /\ EarlyStop(m) = ""
      /\ DOMAIN fate = DOMAIN ready.player.bets
      /\ \A i \in DOMAIN fate : fate[i] = "travels" => MayTravel(ready.player.bets[i], total)
      /\ strategy' = ready.strategy
      /\ IF raises
         THEN /\ total = 7 /\ Range(fate) \subseteq {"stays"}   \* neither is read
              /\ Become(Left(ready.player, m, RollSaid(FALSE, "roll_failed", FALSE)))
              /\ last' = was
              /\ UNCHANGED <<table, sevens>>
         ELSE /\ Become(Left(p, after, RollSaid(TRUE, "engine", Pso(was, total))))
              /\ last' = Counted(was, t, p, total)
              /\ table' = t
              /\ sevens' = sevens + IF SevenOut(table, total) THEN 1 ELSE 0
      /\ thrown' = [point |-> table.point, bets |-> ready.player.bets,
                    laid |-> (IF table.point = 0 THEN 0 ELSE thrown.laid) + IF ready.laid THEN 1 ELSE 0]

---------------------------------------------------------------------------
Sides == {"pass", "dont_pass", "come", "dc"}

\* Requests name positive amounts.  Bounds: odds come in all of them, the others
\* in the largest; of the boxes only a move names another than the first.
Most == {Max(Amounts)}
First == {Min(Boxes)}
Others == Numbers \ Boxes
Requests ==
  [verb : {"place_bet", "buy_bet", "lay_bet"}, number : First \cup Others, amount : Most, bare : {FALSE}]
  \cup {[verb |-> "take_down", number |-> n, keys |-> {<<"box", n>>} \cap Keys] : n \in First \cup Others}
  \cup [verb : {"move_bet"}, number : First \cup Others, to : Numbers]
  \cup [verb : {"line_bet"}, side : {"pass", "dont_pass"}, amount : Most, bare : BOOLEAN]
  \cup [verb : {"come_bet", "dont_come_bet"}, amount : Most, bare : BOOLEAN]
  \cup [verb : {"field_bet", "prop_bet", "ats_bet"}, amount : Most]
  \cup [verb : {"hardway_bet"}, number : First \cup Others, amount : Most]
  \cup [verb : {"set_odds", "take_odds"}, side : Sides, number : First \cup {0}, amount : Amounts]
  \cup [verb : {"remove_line", "remove_come", "remove_dont_come", "press", "regress"}]
  \cup [verb : {"apply_policy"}, number : First, delta : Most, top : {2}]

\* Bound: bets of one family fare alike, those with a number and those without.
Alike(bets, fate) ==
  \A i, j \in DOMAIN bets :
    bets[i].fam = bets[j].fam /\ (bets[i].num = 0 <=> bets[j].num = 0) => fate[i] = fate[j]

\* The verbs that only take off what is there.
Removing == {"take_down", "take_odds", "remove_line", "remove_come", "remove_dont_come", "press", "regress", "apply_policy"}

Init ==
  /\ table \in [point : {0}, hand : {0}, roll : {0}, asks : BOOLEAN]
  /\ player = Seated(2 * Start)
  /\ strategy = FreshStrategy
  /\ mirror = FreshAdapter
  /\ last = Seen(table, player)
  /\ answer = [of |-> [verb |-> ""], ok |-> TRUE, via |-> "", bank |-> 0, pso |-> FALSE]
  /\ calls = 0
  /\ sevens = 0
  /\ thrown = [point |-> 0, bets |-> <<>>, laid |-> 0]

Next ==
  /\ calls < MaxCalls
  /\ \/ \E r \in Requests, add \in AddHow, rem \in RemoveHow :
          /\ add = "taken" \/ rem = "taken"   \* bound: one of the two goes wrong
          /\ add # "taken" => r.verb \notin Removing \ {"take_odds"}
          /\ rem # "taken" => r.verb \in Removing \cup {"move_bet"}
          /\ ApplyAction(r, add, rem)
     \/ StopEarly
     \/ \E clear \in ClearHow, add \in AddHow, total \in Boxes \cup {7}, raises \in BOOLEAN :
          /\ ~table.asks => clear = "none" /\ add = "taken"   \* neither is read
          /\ LET bets == Prepared(table, strategy, player, clear, add).player.bets
             IN  \E fate \in [DOMAIN bets -> Fates] :
                   /\ Alike(bets, fate)
                   /\ StepRoll(total, fate, raises, clear, add)

Spec == Init /\ [][Next]_vars
---------------------------------------------------------------------------
(* Properties. *)

\* A session is stopped early for what the player really has left: not for
\* money that a fallback spent in the mirror alone.
StopJustified ==
  answer.of.verb = "roll" /\ ~answer.ok /\ answer.via # "roll_failed"
    => player.bankroll <= 0 \/ player.bankroll < 2 * (IF table.point = 0 THEN LineMin ELSE PlaceMin)

\* Every seven-out of the table is reported as one, and nothing else is, also
\* after calls that replaced the snapshot the report is made from.
SevensReported == [][calls' # calls => answer'.pso = (sevens' # sevens)]_vars

\* What take_odds gets back is what has stopped riding, also when it is spread over
\* several odds bets; it is what was asked or, where less was riding, all of it.
\* Where it is more, the rest of one bet was not taken again and is lost to the
\* table: never the whole of a bet on top of what was asked.
TakesWhatIsAsked ==
  [][calls' # calls /\ answer'.of.verb = "take_odds" /\ answer'.via = "engine" /\ answer'.bank > 0
       => LET r == answer'.of
              n == OddsNumber(table, r)
              riding == RidingOn(player.bets, r, n)
              gone == riding - RidingOn(player'.bets, r, n)
              asked == Min({r.amount, riding})
          IN  /\ answer'.bank = 2 * gone
              /\ asked <= gone
              /\ asked < gone => \E i \in DOMAIN player.bets :
                                   Rides(player.bets[i], r, n) /\ gone < asked + player.bets[i].amt]_vars

\* Where the engine asks the strategy, the dice of a come-out find at most its pass
\* line, also after verbs and rolls that raised, and those of a point find no more
\* than one round of its bets.
StrategyKeepsPhase ==
  table.asks => IF thrown.point = 0 THEN thrown.bets \in {<<>>, ComeOutBets} ELSE thrown.laid <= 1

\* What docs/CSC_BIBLE.md says of roll outcomes, that they update the hand: the
\* hand of the last snapshot is the number of seven-outs.
HandCounted == last.hand = sevens

\* What a caller of a verb the engine applied counts on, that its bet rides: the dice
\* are thrown on every bet there was before the roll.
BetsRide ==
  [][calls' # calls /\ answer'.of.verb = "roll" /\ answer'.ok
       => \A i \in DOMAIN player.bets : player.bets[i] \in ToSet(thrown'.bets)]_vars
=============================================================================
