---------------------------- MODULE VanillaStub ----------------------------
(***************************************************************************)
(* VanillaAdapter without a live engine: BetVerbs behind the risk policy,  *)
(* the rules fired before a roll, the roll and the early stop.             *)
(***************************************************************************)
EXTENDS StubPromises, BetRules, RiskPolicy

CONSTANTS
  LineMin,     \* table_mins: the smaller of the line's and the field's
  Policies,    \* the risk policies a session may be started with
  MaxCalls     \* bound: calls of the adapter in a session

ASSUME StubConstants == LineMin \in Nat /\ MaxCalls \in Nat

VARIABLES
  policy,    \* _risk_policy
  ruleState, \* RuleEngineState
  answer,    \* the last answer
  calls      \* how many calls the session has taken

vars == <<adapter, session, policy, ruleState, answer, calls, told, firings>>

FreshSession == [terminated |-> "", rolls |-> 0, violations |-> 0, applied |-> 0]

NoAnswer == [verb |-> "", ok |-> TRUE, code |-> "", bank |-> 0]

RuleIds == {Rules[i].id : i \in DOMAIN Rules}

Init ==
  /\ adapter = FreshAdapter
  /\ session = FreshSession
  /\ policy \in Policies
  /\ ruleState = [r \in RuleIds |-> FreshRule]
  /\ answer = NoAnswer
  /\ calls = 0
  /\ told = 0
  /\ firings = [i \in DOMAIN Rules |-> <<>>]

---------------------------------------------------------------------------
(* apply_action. *)

\* What the policy sees of the adapter.  No snapshot carries a peak bankroll,
\* the active bets or the previous loss: PolicyEngine.evaluate's defaults.
PolicySnapshot(a) == [bankroll |-> a.bankroll, peak |-> a.bankroll, active |-> 0, loss |-> 0]

Amount(r) == IF "amount" \in DOMAIN r THEN r.amount ELSE 0

\* apply_action: the policy, the amount it adjusts, the verb, the effect.
Acted(w, r) ==
  LET verdict == PolicyVerdict(policy, r.verb, Amount(r), PolicySnapshot(w.adapter))
      req == IF verdict.adjusted > 0 /\ "amount" \in DOMAIN r
             THEN [r EXCEPT !.amount = verdict.adjusted] ELSE r
      e == EffectOf(w.adapter, req)
      applied == IF verdict.adjusted > 0 THEN w.session.applied + 1 ELSE w.session.applied
  IN  IF verdict.why # "" /\ policy.enforce
      THEN [w EXCEPT !.session.violations = @ + 1,
                     !.answer = [verb |-> r.verb, ok |-> FALSE, code |-> "policy_blocked", bank |-> 0]]
      ELSE IF ~e.ok
      THEN [w EXCEPT !.session.applied = applied,
                     !.answer = [verb |-> r.verb, ok |-> FALSE, code |-> "refused", bank |-> 0]]
      ELSE [adapter |-> Applied(w.adapter, req, e),
            session |-> [w.session EXCEPT !.applied = applied],
            answer |-> [verb |-> r.verb, ok |-> TRUE, code |-> "", bank |-> e.bank],
            told |-> w.told + e.bank]

World == [adapter |-> adapter, session |-> session, answer |-> answer, told |-> told]

Become(w) ==
  /\ adapter' = w.adapter
  /\ session' = w.session
  /\ answer' = w.answer
  /\ told' = w.told

Calling == calls < MaxCalls /\ calls' = calls + 1

ApplyAction(r) ==
  /\ Calling
  /\ Become(Acted(World, r))
  /\ UNCHANGED <<policy, ruleState, firings>>

\* cancel_bet: the verb it calls for each family.  remove_odds is not a verb,
\* and a move to "off" is a move to no box.
Cancel(family, number) ==
  CASE family \in {"place", "buy", "lay"} -> [verb |-> "take_down", keys |-> {<<"box", number>>}]
    [] family = "hardway" -> [verb |-> "take_down", keys |-> {<<"hardway", number>>}]
    [] family = "field" -> [verb |-> "take_down", keys |-> {<<"field", 0>>}]
    [] family = "odds" -> [verb |-> "remove_odds"]
    [] OTHER -> [verb |-> "move_bet", number |-> number, to |-> 0]

CancelBet(family, number) == ApplyAction(Cancel(family, number))

---------------------------------------------------------------------------
(* step_roll. *)

\* _can_any_bet_be_placed, where the point is never on.
CanBet(a) ==
  /\ 2 * LineMin <= a.bankroll
  /\ policy.heat # Unset => PolicySnapshot(a).active < policy.heat
  /\ policy.enforce => PolicyVerdict(policy, "probe", 0, PolicySnapshot(a)).why # "drawdown_limit"
  /\ policy.caps # <<>> => \E v \in DOMAIN policy.caps : policy.caps[v] >= LineMin

\* _maybe_early_stop; a bankroll of at most a cent is none.
EarlyStop(a) ==
  IF a.bankroll <= 0 THEN "bankroll_exhausted"
  ELSE IF ~CanBet(a) THEN "unactionable_bankroll" ELSE ""

\* A roll that pays the bets it renames away.
FaultyRolled(a, total) ==
  [a EXCEPT
     !.bankroll = @ + a.bets[<<"odds_pass", 0>>],
     !.bets = [k \in Keys |-> SumOver(a.bets, {j \in Keys : Normal(j) = k})],
     !.odds = [k \in OddsKeys |-> IF k \in LineOdds THEN a.odds[k] ELSE 0],
     !.comeout = @ /\ total \notin Boxes]

\* _step_roll_stub and _apply_normalized_snapshot.  The snapshot taken at the
\* head of step_roll says no point and hand 0, so a point is never made or
\* lost here, and bets comes back with the names normalised.
Rolled(a, total) ==
  [a EXCEPT
     !.bets = [k \in Keys |-> SumOver(a.bets, {j \in Keys : Normal(j) = k})],
     !.odds = [k \in OddsKeys |-> IF k \in LineOdds THEN a.odds[k] ELSE 0],
     !.comeout = @ /\ total \notin Boxes]

\* The actions of the rules that fired, one after another.
Played(fired) ==
  LET after[i \in 0..Len(fired)] == IF i = 0 THEN World ELSE Acted(after[i - 1], Rules[fired[i]].act)
  IN  after[Len(fired)]

StepRoll(total, holds) ==
  LET why == EarlyStop(adapter)
      rules == Evaluated(Rules, ruleState, holds, 0, 0)
      acted == Played(rules.fired)
      ans == [verb |-> "roll", ok |-> why = "", code |-> why, bank |-> 0]
  IN  /\ Calling
      /\ IF why # ""
         THEN /\ session' = [session EXCEPT !.terminated = why]
              /\ answer' = ans
              /\ UNCHANGED <<adapter, told, ruleState, firings>>
         ELSE /\ Become([acted EXCEPT !.adapter = Rolled(@, total),
                                      !.session.rolls = @ + 1, !.answer = ans])
              /\ ruleState' = rules.states
              /\ firings' = [i \in DOMAIN Rules |->
                               IF \E j \in DOMAIN rules.fired : rules.fired[j] = i
                               THEN Append(firings[i], session.rolls) ELSE firings[i]]
      /\ UNCHANGED policy

\* start_session: everything but the rules and the policy object is reset.
StartSession ==
  /\ Calling
  /\ adapter' = FreshAdapter
  /\ session' = FreshSession
  /\ answer' = NoAnswer
  /\ told' = 0
  /\ firings' = [i \in DOMAIN Rules |-> <<>>]
  /\ UNCHANGED <<policy, ruleState>>

---------------------------------------------------------------------------
Sides == {"pass", "dont_pass", "come", "dc"}

BoxKeys == {"box"} \X Boxes

\* The requests there are, by the arguments their verbs read; bare says whether
\* the verbs that read a mapping are given a bare number.
RequestsWith(bare) ==
  [verb : {"press"}, key : BoxKeys \cup {<<"odds_pass", 0>>}, amount : Amounts, bare : bare]
  \cup [verb : {"place_bet", "buy_bet", "lay_bet"}, number : Numbers, amount : Amounts, bare : bare]
  \cup [verb : {"line_bet"}, side : {"pass", "dont_pass"}, amount : Amounts]
  \cup [verb : {"come_bet", "dont_come_bet", "field_bet"}, amount : Amounts]
  \cup [verb : {"hardway_bet"}, number : Numbers, amount : Amounts]
  \cup [verb : {"set_odds", "take_odds"}, side : Sides, number : Boxes \cup {0}, amount : Amounts]
  \cup [verb : {"regress", "take_down"}, keys : {{k} : k \in Keys} \cup {BoxKeys}]
  \cup [verb : {"move_bet"}, number : Numbers, to : Numbers]
  \cup [verb : {"martingale", "apply_policy"}, number : Boxes, delta : Amounts, top : {2}]
  \cup [verb : {"remove_line", "remove_come", "remove_dont_come", "same_bet", "switch_profile", "nonesuch"}]

\* A client makes them in full; a rule may name a bare number.
Requests == RequestsWith({FALSE})
RuleActs == RequestsWith(BOOLEAN)

ASSUME RuleActions == \A i \in DOMAIN Rules : Rules[i].act \in RuleActs

\* Of the totals of two dice, those that are not a box number act alike: 7 stands
\* for them.
Families == {"place", "hardway", "field", "odds", "dc"}

Next ==
  \/ \E r \in Requests : ApplyAction(r)
  \/ \E f \in Families, n \in Boxes : CancelBet(f, n)
  \/ \E total \in Boxes \cup {7}, holds \in SUBSET DOMAIN Rules : StepRoll(total, holds)
  \/ StartSession

Spec == Init /\ [][Next]_vars
---------------------------------------------------------------------------
(* Properties. *)

\* Bets, odds and levels are never negative and every record has its fields.
TypeOK ==
  /\ adapter \in [bankroll : Int, bets : [Keys -> Nat], odds : [OddsKeys -> Nat],
                 types : [Boxes -> Kinds \cup {"none"}], levels : [Boxes -> Nat], comeout : BOOLEAN]
  /\ session \in [terminated : {"", "bankroll_exhausted", "unactionable_bankroll"},
                 rolls : Nat, violations : Nat, applied : Nat]
  /\ policy \in Policies
  /\ calls \in 0..MaxCalls
  /\ told \in Int

\* What docs/cli_reference.md says of --max-heat, the "maximum total active
\* exposure allowed": no stake is added while the bets exceed it.
HeatHeld ==
  [][policy.heat # Unset /\ policy.enforce /\ calls' # calls /\ answer'.bank < 0
       => Exposure(adapter.bets) <= policy.heat]_vars
=============================================================================
