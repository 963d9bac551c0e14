----------------------------- MODULE RiskPolicy -----------------------------
(***************************************************************************)
(* The risk policy of a run (risk_schema) and its evaluation of a proposed *)
(* action (PolicyEngine).  Unset is the limit that is not set; a drawdown  *)
(* or heat of 0 is read as unlimited too (`if not self.policy.max_heat`).  *)
(***************************************************************************)
EXTENDS Integers

Unset == -1

\* The policy of a run that sets no limits: RiskPolicy's defaults.
NoPolicy == [drawdown |-> Unset, heat |-> Unset, caps |-> <<>>, recovery |-> "none", enforce |-> TRUE]

\* load_risk_policy: a drawdown outside 0..100 or a negative heat is ignored,
\* and an unknown recovery mode, or recovery not enabled, is none.
Loaded(drawdown, heat, caps, enabled, mode, enforce) ==
  [drawdown |-> IF drawdown \in 0..100 THEN drawdown ELSE Unset,
   heat |-> IF heat >= 0 THEN heat ELSE Unset,
   caps |-> caps,
   enforce |-> enforce,
   recovery |-> IF enabled /\ mode \in {"flat_recovery", "step_recovery"} THEN mode ELSE "none"]

\* snap is [bankroll, peak, active, loss].
DrawdownHolds(policy, snap) ==
  \/ policy.drawdown <= 0
  \/ snap.peak <= 0
  \/ (snap.peak - snap.bankroll) * 100 <= policy.drawdown * snap.peak

HeatHolds(policy, snap) == policy.heat <= 0 \/ snap.active <= policy.heat

CapHolds(policy, verb, amount) ==
  verb \in DOMAIN policy.caps => amount <= policy.caps[verb]

\* What apply_recovery adds, in half dollars: the loss, or half as much again.
Recovery(policy, loss) ==
  IF loss <= 0 \/ policy.recovery = "none" THEN 0
  ELSE IF policy.recovery = "flat_recovery" THEN 2 * loss ELSE 3 * loss

\* PolicyEngine.evaluate: the first limit that fails decides.
PolicyVerdict(policy, verb, amount, snap) ==
  [why |-> IF ~DrawdownHolds(policy, snap) THEN "drawdown_limit"
           ELSE IF ~HeatHolds(policy, snap) THEN "heat_limit"
           ELSE IF ~CapHolds(policy, verb, amount) THEN "bet_cap" ELSE "",
   adjusted |-> Recovery(policy, snap.loss)]
=============================================================================
