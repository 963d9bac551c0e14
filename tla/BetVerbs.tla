------------------------------ MODULE BetVerbs ------------------------------
(***************************************************************************)
(* The verbs of VanillaAdapter's own bookkeeping, as functions of the      *)
(* record it keeps: bankroll, bets, odds, types, levels, comeout.  Bets    *)
(* are in dollars and the bankroll is in half dollars: regress pays half   *)
(* of an odd bet.  come_flat and dc_flat are not part of the record: these *)
(* verbs only ever set them to zero.                                       *)
(***************************************************************************)
EXTENDS Integers, Sequences, FiniteSetsExt, Functions

CONSTANTS
  Boxes,       \* the box numbers
  Numbers,     \* the numbers a request may name: the boxes and some others
  Amounts,     \* the amounts a request may name
  Start        \* the bankroll of a new session, in dollars

ASSUME BetConstants ==
  /\ Boxes \subseteq Nat \ {0} /\ Boxes \subseteq Numbers /\ IsFiniteSet(Boxes)
  /\ Amounts \subseteq Nat /\ Start \in Nat

\* The names bets are kept under: a family and a number, or 0.
Lines == {<<k, 0>> : k \in {"pass", "dont_pass", "come", "dc", "field"}}
LineOdds == {<<"odds_pass", 0>>, <<"odds_dont_pass", 0>>}
ComeOdds == {"odds_come"} \X Boxes
DcOdds == {"odds_dc"} \X Boxes
OddsKeys == LineOdds \cup ComeOdds \cup DcOdds
Keys == ({"box", "hardway"} \X Boxes) \cup Lines \cup OddsKeys
Kinds == {"place", "buy", "lay"}

\* _normalize_snapshot: a name that holds a box number counts as that box,
\* and one that holds "pass" as the pass line.
Normal(k) ==
  IF k[2] \in Boxes THEN <<"box", k[2]>>
  ELSE IF k[1] \in {"pass", "dont_pass", "odds_pass", "odds_dont_pass"} THEN <<"pass", 0>>
  ELSE k

SumOver(bets, keys) == MapThenSumSet(LAMBDA k : bets[k], keys)
Exposure(bets) == SumOver(bets, DOMAIN bets)

\* _reset_stub_state.
FreshAdapter ==
  [bankroll |-> 2 * Start,
   bets |-> [k \in Keys |-> 0],
   odds |-> [k \in OddsKeys |-> 0],
   types |-> [n \in Boxes |-> "none"],
   levels |-> [n \in Boxes |-> 0],
   comeout |-> TRUE]

---------------------------------------------------------------------------
(* The verbs: what each makes of the adapter's bets.  An effect maps names *)
(* to the change of their bet and says what the bankroll gains.            *)

Refused == [ok |-> FALSE, bets |-> <<>>, bank |-> 0, level |-> <<>>]
Effect(bets, bank) == [ok |-> TRUE, bets |-> bets, bank |-> bank, level |-> <<>>]

\* A change of one bet.
On(key, change) == [k \in {key} |-> change]

\* A stake of amount on key.
Stake(key, amount) == IF amount <= 0 THEN Refused ELSE Effect(On(key, amount), -2 * amount)

\* verb_press, verb_place_bet, verb_buy_bet and verb_lay_bet read the amount
\* from a mapping: a bare number, as in a rule's argument, is refused.
Press(r) == IF r.bare THEN Refused ELSE Stake(r.key, r.amount)
BoxBet(r) == IF r.bare \/ r.number \notin Boxes THEN Refused ELSE Stake(<<"box", r.number>>, r.amount)

LineBet(r) == Stake(<<r.side, 0>>, r.amount)
HardwayBet(r) == IF r.number \notin Boxes THEN Refused ELSE Stake(<<"hardway", r.number>>, r.amount)

\* Odds without a usable point, and on any other side, are odds on the line.
OddsKey(r) ==
  CASE r.side = "dont_pass"                      -> <<"odds_dont_pass", 0>>
    [] r.side = "dc" /\ r.number \in Boxes       -> <<"odds_dc", r.number>>
    [] r.side = "come" /\ r.number \in Boxes     -> <<"odds_come", r.number>>
    [] OTHER                                     -> <<"odds_pass", 0>>
SetOdds(r) == Stake(OddsKey(r), r.amount)
TakeOdds(r) == IF r.amount <= 0 THEN Refused ELSE Effect(On(OddsKey(r), -r.amount), 2 * r.amount)

\* Python's rounding of n/2 to a whole number: halves go to the even one.
HalfRounded(n) ==
  LET q == n \div 2 IN IF n % 2 = 0 \/ q % 2 = 0 THEN q ELSE q + 1

\* regress halves each bet it selects and pays out the exact half.
Regress(a, r) ==
  LET some == {k \in r.keys : a.bets[k] > 0}
  IN  IF r.keys = {} THEN Refused
      ELSE Effect([k \in some |-> -HalfRounded(a.bets[k])], Exposure(Restrict(a.bets, some)))

\* Refunds the bets of keys, each from the record that from says holds it.
Refund(keys, from) ==
  LET some == {k \in keys : from[k] > 0}
  IN  Effect([k \in some |-> -from[k]], 2 * Exposure(Restrict(from, some)))

TakeDown(a, r) == Refund(r.keys, a.bets)

\* The target is written last: a move of a bet to itself adds it once more.
MoveBet(a, r) ==
  LET stake == IF r.number \in Boxes THEN a.bets[<<"box", r.number>>] ELSE 0
  IN  IF r.number \notin Boxes \/ r.to \notin Boxes \/ stake <= 0 THEN Refused
      ELSE Effect([k \in {<<"box", r.to>>, <<"box", r.number>>} |-> IF k[2] = r.to THEN stake ELSE -stake], 0)

\* remove_line takes the line bets from bets and their odds from odds_state.
RemoveLine(a) ==
  Refund({<<"pass", 0>>, <<"dont_pass", 0>>} \cup LineOdds,
         [k \in Keys |-> IF k \in OddsKeys THEN a.odds[k] ELSE a.bets[k]])
RemoveCome(a) == Refund(ComeOdds, a.odds)
RemoveDontCome(a) == Refund(DcOdds, a.odds)

\* pol_martingale_v1: one step up the ladder, or back to the bottom.
Martingale(a, r) ==
  LET up == a.levels[r.number] + 1
      level == IF up > r.top THEN 0 ELSE up
      stake == r.delta * level
  IN  IF r.delta <= 0 \/ r.top < 1 THEN Refused
      ELSE [Effect(IF stake > 0 THEN On(<<"box", r.number>>, stake) ELSE <<>>, -2 * stake)
              EXCEPT !.level = On(r.number, level)]

EffectOf(a, r) ==
  CASE r.verb = "press"                                -> Press(r)
    [] r.verb = "regress"                              -> Regress(a, r)
    [] r.verb \in {"place_bet", "buy_bet", "lay_bet"}  -> BoxBet(r)
    [] r.verb = "take_down"                            -> TakeDown(a, r)
    [] r.verb = "move_bet"                             -> MoveBet(a, r)
    [] r.verb \in {"same_bet", "switch_profile"}       -> Effect(<<>>, 0)
    [] r.verb \in {"martingale", "apply_policy"}       -> Martingale(a, r)
    [] r.verb = "line_bet"                             -> LineBet(r)
    [] r.verb = "come_bet"                             -> Stake(<<"come", 0>>, r.amount)
    [] r.verb = "dont_come_bet"                        -> Stake(<<"dc", 0>>, r.amount)
    [] r.verb = "field_bet"                            -> Stake(<<"field", 0>>, r.amount)
    [] r.verb = "hardway_bet"                          -> HardwayBet(r)
    [] r.verb = "set_odds"                             -> SetOdds(r)
    [] r.verb = "take_odds"                            -> TakeOdds(r)
    [] r.verb = "remove_line"                          -> RemoveLine(a)
    [] r.verb = "remove_come"                          -> RemoveCome(a)
    [] r.verb = "remove_dont_come"                     -> RemoveDontCome(a)
    [] OTHER                                           -> Refused  \* not registered

---------------------------------------------------------------------------
(* _apply_effect. *)

Changed(old, e, k) ==
  LET new == old + IF k \in DOMAIN e.bets THEN e.bets[k] ELSE 0 IN IF new > 0 THEN new ELSE 0

\* The odds a verb sets to zero whatever their change.
Cleared(verb) ==
  CASE verb = "remove_line" -> LineOdds
    [] verb = "remove_come" -> ComeOdds
    [] verb = "remove_dont_come" -> DcOdds
    [] OTHER -> {}

\* box_bet_types before the boxes without a bet are dropped.
Retyped(types, r, e) ==
  CASE r.verb \in {"place_bet", "buy_bet", "lay_bet"} ->
         [types EXCEPT ![r.number] =
            CASE r.verb = "place_bet" -> "place" [] r.verb = "buy_bet" -> "buy" [] OTHER -> "lay"]
    [] r.verb = "move_bet" ->
         [n \in Boxes |-> IF n = r.number THEN "none"
                          ELSE IF n = r.to /\ types[r.number] # "none" THEN types[r.number]
                          ELSE types[n]]
    [] r.verb = "take_down" ->
         [n \in Boxes |-> IF <<"box", n>> \in DOMAIN e.bets THEN "none" ELSE types[n]]
    [] OTHER -> types

Levelled(levels, e) == [n \in Boxes |-> IF n \in DOMAIN e.level THEN e.level[n] ELSE levels[n]]

\* Types that are set with a bet and never dropped.
FaultyApplied(a, r, e) ==
  LET typed == r.verb \in {"place_bet", "buy_bet", "lay_bet"}
  IN  [a EXCEPT
         !.bankroll = @ + e.bank,
         !.bets = [k \in Keys |-> Changed(@[k], e, k)],
         !.odds = [k \in OddsKeys |-> Changed(IF k \in Cleared(r.verb) THEN 0 ELSE @[k], e, k)],
         !.types = IF typed THEN Retyped(@, r, e) ELSE @,
         !.levels = Levelled(@, e)]

\* odds_state only ever reset: what set_odds stakes is in bets alone.
FaultyOddsApplied(a, r, e) ==
  [a EXCEPT
     !.bankroll = @ + e.bank,
     !.bets = [k \in Keys |-> Changed(@[k], e, k)],
     !.odds = [k \in OddsKeys |-> IF k \in Cleared(r.verb) THEN 0 ELSE @[k]],
     !.types = [n \in Boxes |-> IF Changed(a.bets[<<"box", n>>], e, <<"box", n>>) = 0
                                THEN "none" ELSE Retyped(a.types, r, e)[n]],
     !.levels = Levelled(@, e)]

\* _apply_effect.
Applied(a, r, e) ==
  LET bets == [k \in Keys |-> Changed(a.bets[k], e, k)]
      retyped == Retyped(a.types, r, e)
  IN  [bankroll |-> a.bankroll + e.bank,
       bets |-> bets,
       odds |-> [k \in OddsKeys |-> Changed(IF k \in Cleared(r.verb) THEN 0 ELSE a.odds[k], e, k)],
       types |-> [n \in Boxes |-> IF bets[<<"box", n>>] = 0 THEN "none" ELSE retyped[n]],
       levels |-> Levelled(a.levels, e),
       comeout |-> a.comeout]
=============================================================================
