----------------------------- MODULE PlanMerge -----------------------------
(***************************************************************************)
(* What the controller answers an event with: the plan that takes the      *)
(* table's bets to the mode's template, the envelopes of the spec's rules  *)
(* and the merge of the two.  A bet key is <<family, number>> (the number  *)
(* is 0 for a line bet or the field), a template gives bet keys amounts    *)
(* (odds under <<"odds_pass", 0>>), an envelope is a record                *)
(* [src, act, bet, amt, to].                                               *)
(***************************************************************************)
EXTENDS Naturals, FiniteSets, SequencesExt

CONSTANT BetOrder    \* the bet keys, in the alphabetical order of their names

BetKeys == Range(BetOrder)
NoBet == <<"", 0>>

\* Every bet key names a bet.
ASSUME PlanConstants == BetOrder \in Seq(BetKeys) /\ NoBet \notin BetKeys

NoAmount == 1000000          \* an amount that is missing, or is no number

Lesser(a, b) == IF a < b THEN a ELSE b

\* The entries of s at the positions of P, in order.
Picked(s, P) ==
  LET upto[n \in 0..Len(s)] ==
        IF n = 0 THEN <<>> ELSE IF n \in P THEN Append(upto[n - 1], s[n]) ELSE upto[n - 1]
  IN  upto[Len(s)]

---------------------------------------------------------------------------
(* The template.  The controller renders it with no table configuration:   *)
(* a line minimum of 10 and odds of three times the line, at every table.  *)

Level == 10
MaxOddsMultiple == 3

LineLegal(n) == IF n = 0 THEN 0 ELSE IF n < Level THEN Level ELSE n

\* _PLACE_INCREMENTS: a place amount is rounded down to a multiple of this.
PlaceStep(number) == CASE number \in {6, 8} -> 6 [] OTHER -> 5

Asked(t, b) == IF b \in DOMAIN t THEN t[b] ELSE 0

\* render_template over legalize_amount: what the template wants on bet b.
Desired(t, point, b) ==
  LET odds(line) == IF b[2] # point THEN 0
                    ELSE Lesser(Asked(t, <<b[1], 0>>),
                                MaxOddsMultiple * LineLegal(Asked(t, <<line, 0>>)))
  IN  CASE b[1] \in {"pass_line", "dont_pass"} -> LineLegal(Asked(t, b))
        [] b[1] = "place" -> (Asked(t, b) \div PlaceStep(b[2])) * PlaceStep(b[2])
        [] b[1] = "odds_pass" -> odds("pass_line")
        [] b[1] = "odds_dont" -> odds("dont_pass")
        [] OTHER -> Asked(t, b)

BetAct(src, act, b, n) == [src |-> src, act |-> act, bet |-> b, amt |-> n, to |-> ""]

\* diff_bets: clear what is to go or to change, then set what is to come.
Diff(current, want) ==
  LET changed(b) == b \in DOMAIN current /\ (want[b] = 0 \/ current[b] # want[b])
      comes(b) == want[b] > 0 /\ (b \in DOMAIN current => changed(b))
      clears == Picked(BetOrder, {i \in DOMAIN BetOrder : changed(BetOrder[i])})
      sets == Picked(BetOrder, {i \in DOMAIN BetOrder : comes(BetOrder[i])})
  IN  [i \in DOMAIN clears |-> BetAct("template", "clear", clears[i], NoAmount)]
      \o [i \in DOMAIN sets |-> BetAct("template", "set", sets[i], want[sets[i]])]

---------------------------------------------------------------------------
(* The rules.  A rule is a record [event, when, do]; a step of "do" is an  *)
(* envelope without its source.  A condition is about the point, the       *)
(* drawdown and the variable the rules keep.                               *)

Holds(c, view) ==
  /\ c.on = "any" \/ (c.on = "on") = view.on
  /\ view.drawdown >= c.drawdown
  /\ view.streak >= c.streak

\* _step_to_envelope: a step without the bet or the amount it needs is dropped.
WellFormed(step) ==
  \/ step.act \in {"clear", "switch_mode", "setvar"}
  \/ step.act \in {"set", "press", "reduce"} /\ step.bet # NoBet /\ step.amt # NoAmount

Envelope(step) ==
  [src |-> "rule", act |-> step.act, bet |-> step.bet, to |-> step.to,
   amt |-> IF step.act = "clear" THEN NoAmount ELSE step.amt]

\* The envelopes of a rule's steps.
Envelopes(rule) ==
  LET steps == Picked(rule.do, {i \in DOMAIN rule.do : WellFormed(rule.do[i])})
  IN  [i \in DOMAIN steps |-> Envelope(steps[i])]

\* apply_rules: the envelopes of every rule of the event that holds, in order.
RuleActions(rules, event, view) ==
  LET fires(r) == r.event = event /\ Holds(r.when, view)
      upto[n \in 0..Len(rules)] ==
        IF n = 0 THEN <<>>
        ELSE IF fires(rules[n]) THEN upto[n - 1] \o Envelopes(rules[n]) ELSE upto[n - 1]
  IN  upto[Len(rules)]

Switches(acts) == Picked(acts, {i \in DOMAIN acts : acts[i].act = "switch_mode"})
Setvars(acts)  == Picked(acts, {i \in DOMAIN acts : acts[i].act = "setvar"})
Others(acts)   == Picked(acts, {i \in DOMAIN acts : acts[i].act \notin {"switch_mode", "setvar"}})

---------------------------------------------------------------------------
(* The merge. *)

\* _action_family and _bet_key: two envelopes that speak of the same bet.
OnBet(a) == a.act \in {"set", "press", "reduce", "clear"} /\ a.bet # NoBet
SameBet(a, b) == OnBet(a) /\ OnBet(b) /\ a.bet = b.bet

FromTemplate(acts) == Picked(acts, {i \in DOMAIN acts : acts[i].src = "template"})
FromRules(acts)    == Picked(acts, {i \in DOMAIN acts : acts[i].src # "template"})

\* Rules first, so that the template has the last word.
FaultyOrdered(acts) == FromRules(acts) \o FromTemplate(acts)

\* _source_bucket: the template's envelopes before the rules'.
Ordered(acts) == FromTemplate(acts) \o FromRules(acts)

\* _merge_actions_for_event: a later envelope for a bet takes the place of an
\* earlier one.  _annotate_seq numbers the result by position.
Merged(acts) ==
  LET o == Ordered(acts)
      heads == Picked([i \in DOMAIN o |-> i],
                      {i \in DOMAIN o : \A j \in 1..(i - 1) : ~SameBet(o[i], o[j])})
      lastWord(i) == CHOOSE j \in i..Len(o) :
                       /\ j = i \/ SameBet(o[i], o[j])
                       /\ \A k \in (j + 1)..Len(o) : ~SameBet(o[i], o[k])
  IN  [n \in DOMAIN heads |-> o[lastWord(heads[n])]]
=============================================================================
