------------------------------ MODULE BetRules ------------------------------
(***************************************************************************)
(* The WHEN/THEN rules of the engine adapter (RuleEngine): at every roll,  *)
(* before the dice, each rule whose condition holds on the snapshot yields *)
(* one action, unless it is spent (once), cooling down, or has already     *)
(* fired in the scope it is limited to.  A rule is a record                *)
(* [id, scope, cooldown, once, act].  Its state is kept under its id, and  *)
(* the parser gives every sentence with the same verb the same id.         *)
(***************************************************************************)
EXTENDS Naturals, Sequences

\* RuleEngineState.get for an id seen for the first time; <<>> is no lock.
FreshRule == [disabled |-> FALSE, cooldown |-> 0, lock |-> <<>>]

\* parse_sentence: what a WHEN/THEN sentence becomes.
ParsedRule(verb, act) ==
  [id |-> verb, scope |-> "roll", cooldown |-> 0, once |-> FALSE, act |-> act]

\* RuleEngineState.tick, at the start of every evaluation.
Ticked(s) == [s EXCEPT !.cooldown = IF @ > 0 THEN @ - 1 ELSE 0]

\* The key of the scope a rule fires in: the session, the hand or the roll.
ScopeKey(scope, hand, roll) ==
  CASE scope = "session" -> <<"session", 0>>
    [] scope = "hand"    -> <<"hand", hand>>
    [] OTHER             -> <<"roll", roll>>

LookedAt(s) == ~s.disabled /\ s.cooldown = 0

\* A lock of an earlier scope is dropped when the rule is looked at.
Unlocked(rule, s, key) ==
  IF LookedAt(s) /\ rule.scope # "roll" /\ s.lock # key THEN [s EXCEPT !.lock = <<>>] ELSE s

\* Neither spent, cooling, nor locked by the scope it has fired in.
Ready(rule, s, key) == LookedAt(s) /\ (rule.scope # "roll" => s.lock # key)

\* A cooldown armed without the tick that opens the next evaluation.
FaultyFired(rule, s, key) ==
  [disabled |-> rule.once,
   cooldown |-> IF rule.cooldown > 0 THEN rule.cooldown ELSE s.cooldown,
   lock |-> IF rule.scope # "roll" THEN key ELSE s.lock]

Fired(rule, s, key) ==
  [disabled |-> rule.once,
   cooldown |-> IF rule.cooldown > 0 THEN rule.cooldown + 1 ELSE s.cooldown,
   lock |-> IF rule.scope # "roll" THEN key ELSE s.lock]

\* A look at the rule at position i, after those before it have left states and fired.
Looked(rules, states, fired, holds, hand, roll, i) ==
  LET rule == rules[i]
      key == ScopeKey(rule.scope, hand, roll)
      s == states[rule.id]
  IN  IF i \in holds /\ Ready(rule, s, key)
      THEN [states |-> [states EXCEPT ![rule.id] = Fired(rule, s, key)], fired |-> Append(fired, i)]
      ELSE [states |-> [states EXCEPT ![rule.id] = Unlocked(rule, s, key)], fired |-> fired]

\* RuleEngine.evaluate.  states maps ids to states; holds is the set of the
\* rules (by position) whose condition is true of the snapshot.  The answer
\* has the new states and the positions of the rules that fired, in order.
Evaluated(rules, states, holds, hand, roll) ==
  LET after[i \in 0..Len(rules)] ==
        IF i = 0 THEN [states |-> [r \in DOMAIN states |-> Ticked(states[r])], fired |-> <<>>]
        ELSE Looked(rules, after[i - 1].states, after[i - 1].fired, holds, hand, roll, i)
  IN  after[Len(rules)]
=============================================================================
