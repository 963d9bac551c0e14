----------------------------- MODULE Controller -----------------------------
(***************************************************************************)
(* ControlStrategy.handle_event: the point and the mode, the hand tracker, *)
(* the behaviour DSL with its windows and cooldowns, the internal brain's  *)
(* rule set behind the decision journal's safeties, and the plan answered. *)
(* The commands drained at a roll are CommandPipeline's.                   *)
(*                                                                         *)
(* The table deals the events derive_event makes of it: a come-out roll    *)
(* that settles nothing, a point set, made or sevened out, another roll.   *)
(***************************************************************************)
EXTENDS PlanMerge, HandTracker

CONSTANTS
  Template,       \* the template of each mode of the spec
  FirstMode,      \* the mode a run starts in
  Rules,          \* the spec's rules, a sequence of [event, when, do]
  DslRules,       \* the behaviour rules, a sequence of [id, when, verb, bet, cool]
  Brain,          \* the internal brain's rules, a sequence of [id, when, verb, cooldown, scope]
  Points,         \* the points the table may set
  Layouts,        \* the bets that may be on the table when an event comes
  Swings,         \* what a roll may change the bankroll by
  StartBankroll,  \* the bankroll a run starts with
  Demo,           \* the demo_fallbacks flag
  MaxEvents       \* bound: events of a run

Scopes == {"rolls", "hands", "cycles"}

\* parse_rules wants an id of every behavior rule; a template's amounts are numbers.
ASSUME ControllerConstants ==
  /\ FirstMode \in DOMAIN Template /\ Demo \in BOOLEAN
  /\ Points \subseteq 4..10 /\ StartBankroll \in Nat /\ MaxEvents \in Nat
  /\ \A m \in DOMAIN Template : \A b \in DOMAIN Template[m] : Template[m][b] \in Nat
  /\ Rules \in Seq(Range(Rules)) /\ \A i \in DOMAIN Rules : Rules[i].do \in Seq(Range(Rules[i].do))
  /\ DslRules \in Seq(Range(DslRules))
  /\ \A i \in DOMAIN DslRules : DslRules[i].id # "" /\ DslRules[i].cool \in [Scopes -> Nat]

VARIABLES
  table,    \* the world: the puck, and the rolls since it went on
  ctl,      \* the point, rolls_since_point, on_comeout, the mode, a variable
  tracker,  \* analytics.Tracker, when the run embeds it
  hands,    \* the fallback hand counter and its flag
  dsl,      \* the behaviour engine: its cooldowns and the roll index
  safety,   \* DecisionJournal: cooldowns and scope flags
  stats,    \* _stats: the events by type
  tracked,  \* run.embed_analytics
  out,      \* the last event, what it came upon and what it was answered with
  fired     \* history: when each DSL rule and each brain rule last fired

vars == <<table, ctl, tracker, hands, dsl, safety, stats, tracked, out, fired>>

DslIds == {DslRules[i].id : i \in DOMAIN DslRules}
BrainIds == {Brain[i].id : i \in DOMAIN Brain}
Heeded == {"comeout", "point_established", "roll", "seven_out"}
Never == [rolls |-> 0, hands |-> 0]

NoAnswer ==
  [type |-> "", bets |-> <<>>, rules |-> <<>>, final |-> <<>>, intent |-> "", why |-> ""]

Init ==
  /\ table = [puck |-> 0, since |-> 0]
  /\ ctl = [point |-> 0, rolls |-> 0, comeout |-> TRUE, mode |-> FirstMode, streak |-> 0]
  /\ tracker = NewTracker(StartBankroll)
  /\ hands = [count |-> 0, open |-> FALSE]
  /\ dsl = [cool |-> [r \in DslIds |-> [s \in Scopes |-> 0]], index |-> 0]
  /\ safety = [cool |-> [r \in BrainIds |-> 0], locked |-> {}]
  /\ stats = [e \in Heeded |-> 0]
  /\ tracked \in BOOLEAN
  /\ out = NoAnswer
  /\ fired = [dsl |-> [r \in DslIds |-> Never], brain |-> [r \in BrainIds |-> Never]]

Events(st) == st["comeout"] + st["point_established"] + st["roll"] + st["seven_out"]

---------------------------------------------------------------------------
(* The point, before the roll is recorded and after. *)

\* A come-out that leaves the last point standing.
FaultyEntered(k, ev) ==
  CASE ev.type = "comeout" -> [k EXCEPT !.rolls = 0, !.comeout = TRUE]
    [] ev.type = "point_established" ->
         [k EXCEPT !.point = ev.point, !.rolls = 0, !.comeout = ev.point = 0]
    [] ev.type = "roll" -> [k EXCEPT !.rolls = IF k.point # 0 THEN @ + 1 ELSE @]
    [] OTHER -> k

Entered(k, ev) ==
  CASE ev.type = "comeout" -> [k EXCEPT !.point = 0, !.rolls = 0, !.comeout = TRUE]
    [] ev.type = "point_established" ->
         [k EXCEPT !.point = ev.point, !.rolls = 0, !.comeout = ev.point = 0]
    [] ev.type = "roll" -> [k EXCEPT !.rolls = IF k.point # 0 THEN @ + 1 ELSE @]
    [] OTHER -> k

Closed(k, ev) ==
  IF ev.type = "seven_out" THEN [k EXCEPT !.point = 0, !.rolls = 0, !.comeout = TRUE] ELSE k

---------------------------------------------------------------------------
(* The hands and the tracker. *)

\* A come-out event starts a hand; so does any roll before the first hand, with
\* the tracker, and any roll outside a hand, without it.
StartsHand(ev) == ev.type = "comeout"
OpensHand(ev)  == ~StartsHand(ev) /\ IF tracked THEN tracker.hand = 0 ELSE ~hands.open

\* A fallback counter that leaves the hands a roll opens to the tracker.
FaultyHandsAfter(ev) ==
  [count |-> IF StartsHand(ev) THEN hands.count + 1 ELSE hands.count, open |-> ev.type # "seven_out"]

HandsAfter(ev) ==
  [count |-> IF StartsHand(ev) \/ OpensHand(ev) THEN hands.count + 1 ELSE hands.count,
   open |-> ev.type # "seven_out" /\ (hands.open \/ StartsHand(ev) \/ OpensHand(ev))]

\* _analytics_record_roll's bankroll: told outright, told by its change, or kept.
Resolved(bankroll, money) ==
  CASE money.told = "after" -> money.amount
    [] money.told = "delta" -> bankroll + money.amount
    [] OTHER -> bankroll

Recorded(ev, number) ==
  LET t == IF StartsHand(ev) \/ OpensHand(ev) THEN HandStarted(tracker) ELSE tracker
  IN  RollCounted(t, ev, number, Resolved(t.bank, ev.money))

TrackerAfter(ev, recorded) == IF ev.type = "seven_out" THEN HandEnded(recorded) ELSE recorded

---------------------------------------------------------------------------
(* The behaviour DSL. *)

\* on_scope_advance, for the scopes this event ends.
Advances(type) ==
  {"rolls"} \cup (IF type = "comeout" THEN {"hands"} ELSE {})
            \cup (IF type \in {"point_established", "seven_out"} THEN {"cycles"} ELSE {})

Prepared(d, type) ==
  [cool |-> [r \in DslIds |-> [s \in Scopes |->
              IF s \in Advances(type) /\ d.cool[r][s] > 0 THEN d.cool[r][s] - 1
              ELSE d.cool[r][s]]],
   index |-> d.index + 1]

Window(type) ==
  CASE type = "comeout" -> "come_out_start" [] type = "point_established" -> "after_point_set"
    [] type = "roll" -> "after_resolve"     [] OTHER -> "hand_end"

Cooling(d, r) == \E s \in Scopes : r.cool[s] > 0 /\ d.cool[r.id][s] > 0

\* evaluate_window: the first rule neither cooling nor false, or 0.
FirstOpen(d, view) ==
  LET open == {i \in DOMAIN DslRules : ~Cooling(d, DslRules[i]) /\ Holds(DslRules[i].when, view)}
  IN  IF open = {} THEN 0 ELSE CHOOSE i \in open : \A j \in open : i <= j

\* A cooldown armed without the advance that comes before the next window.
FaultyArmed(d, i) ==
  IF i = 0 THEN d ELSE [d EXCEPT !.cool[DslRules[i].id] = DslRules[i].cool]

\* Its cooldowns are armed with the intent, whatever becomes of it: one more
\* than the rule says, for the advance at the start of the next event.
Armed(d, i) ==
  IF i = 0 THEN d
  ELSE LET r == DslRules[i]
       IN  [d EXCEPT !.cool[r.id] = [s \in Scopes |->
             IF r.cool[s] > 0 THEN Greater(@[s], r.cool[s] + 1) ELSE @[s]]]

\* _dsl_legality_gate.  Without a tracker the spec's bankroll is what is left.
Refusal(i, window, bets, bankroll) ==
  LET r == DslRules[i]
  IN  IF i = 0 \/ r.verb \notin {"press", "regress"} THEN ""
      ELSE IF window # "after_resolve" THEN "ILLEGAL_WINDOW"
      ELSE IF r.bet \notin DOMAIN bets THEN "NO_SUCH_BET"
      ELSE IF bankroll <= 0 THEN "INSUFFICIENT_BANKROLL" ELSE ""

---------------------------------------------------------------------------
(* The internal brain: evaluate_rules and the journal's safeties.  What     *)
(* evaluate_rules returns names the rule and nothing more, so a decision    *)
(* has the default scope and cooldown.                                      *)

DecisionScope(r) == "roll"
DecisionCooldown(r) == 0

Ticking(s) == [s EXCEPT !.cool = [r \in BrainIds |-> IF @[r] > 0 THEN @[r] - 1 ELSE 0]]

CanFire(s, id) == id \notin s.locked /\ s.cool[id] = 0

Spent(s, r) ==
  [locked |-> IF DecisionScope(r) # "roll" THEN s.locked \cup {r.id} ELSE s.locked,
   cool |-> IF DecisionCooldown(r) # 0 THEN [s.cool EXCEPT ![r.id] = DecisionCooldown(r)]
            ELSE s.cool]

\* is_legal_timing: nothing of the kind on a hand's first roll once a point is on.
TimelyBrain(verb, ev, roll) ==
  ~(verb \in {"switch_profile", "regress", "press"} /\ ev.on /\ roll = 1)

\* The fired rules in order; a verb is executed once a roll.
Decided(s, ev, t) ==
  LET view == [on |-> ev.on, drawdown |-> t.peak - t.bank, streak |-> 0]
      one(acc, r) ==
        IF /\ Holds(r.when, view) /\ CanFire(acc.safety, r.id)
           /\ TimelyBrain(r.verb, ev, t.roll) /\ r.verb \notin acc.verbs
        THEN [safety |-> Spent(acc.safety, r), verbs |-> acc.verbs \cup {r.verb},
              ids |-> acc.ids \cup {r.id}]
        ELSE acc
  IN  FoldLeft(one, [safety |-> Ticking(s), verbs |-> {}, ids |-> {}], Brain)

---------------------------------------------------------------------------
(* The answer. *)

\* _apply_switches_now: the last target that is not blank.
Switched(k, acts) ==
  LET named == {i \in DOMAIN acts : acts[i].act = "switch_mode" /\ acts[i].to # ""}
  IN  [k EXCEPT !.mode = IF named = {} THEN @ ELSE acts[Max(named)].to]

\* _apply_setvars_now: one after another, each in the state the last one left.
StreakAfter(streak, acts) ==
  FoldLeft(LAMBDA n, a : IF a.to = "add" THEN n + a.amt ELSE a.amt, streak, Setvars(acts))

Assigned(k, acts) == [k EXCEPT !.streak = StreakAfter(@, acts)]

\* _apply_mode_template_plan: a mode the spec does not know wants no bets.
Plan(k, bets) ==
  LET template == IF k.mode \in DOMAIN Template THEN Template[k.mode] ELSE <<>>
  IN  Diff(bets, [b \in BetKeys |-> Desired(template, k.point, b)])

DemoAmount == 12

\* The template's part of the answer, and the demonstration fallbacks.
Planned(k, ev, bets) ==
  LET plan == Plan(k, bets)
  IN  CASE ev.type = "point_established" ->
             IF Demo /\ plan = <<>> /\ k.point = 6
             THEN <<BetAct("rule", "set", <<"place", 6>>, DemoAmount)>> ELSE plan
        [] ev.type = "roll" /\ Demo /\ k.point # 0 /\ k.rolls = 3 ->
             <<BetAct("template", "clear", <<"place", 6>>, NoAmount),
               BetAct("template", "clear", <<"place", 8>>, NoAmount)>>
        [] OTHER -> <<>>

Answer(k, ev, bets, acts) == Merged(Switches(acts) \o Planned(k, ev, bets) \o Others(acts))

---------------------------------------------------------------------------
(* handle_event. *)

Handle(ev, bets) ==
  LET entered == Entered(ctl, ev)
      t == IF tracked THEN Recorded(ev, entered.rolls) ELSE tracker
      brain == Decided(safety, ev, t)
      final == IF tracked THEN TrackerAfter(ev, t) ELSE t
      closed == Closed(entered, ev)
      ready == Prepared(dsl, ev.type)
      i == FirstOpen(ready, [on |-> ev.on, drawdown |-> final.peak - final.bank, streak |-> 0])
      acts == RuleActions(Rules, ev.type,
                          [on |-> closed.point # 0, drawdown |-> 0, streak |-> closed.streak])
      decided == Assigned(Switched(closed, acts), acts)
      now == [rolls |-> Events(stats'), hands |-> stats'["comeout"]]
  IN  /\ tracker' = final
      /\ hands' = HandsAfter(ev)
      /\ safety' = IF tracked THEN brain.safety ELSE safety
      /\ dsl' = Armed(ready, i)
      /\ ctl' = decided
      /\ stats' = [stats EXCEPT ![ev.type] = @ + 1]
      /\ out' = [type |-> ev.type, bets |-> bets, rules |-> acts,
                 final |-> Answer(decided, ev, bets, acts),
                 intent |-> IF i = 0 THEN "" ELSE DslRules[i].id,
                 why |-> Refusal(i, Window(ev.type), bets, final.bank)]
      /\ fired' = [dsl |-> [r \in DslIds |-> IF i # 0 /\ DslRules[i].id = r THEN now ELSE fired.dsl[r]],
                   brain |-> [r \in BrainIds |->
                                IF tracked /\ r \in brain.ids THEN now ELSE fired.brain[r]]]
      /\ UNCHANGED tracked

\* A point made, a new shooter, a bet resolved: nothing is kept of them.
Unheeded ==
  /\ out' = NoAnswer
  /\ UNCHANGED <<ctl, tracker, hands, dsl, safety, stats, tracked, fired>>

---------------------------------------------------------------------------
(* The table. *)

\* How an event tells what the roll did to the bankroll, if it does.
Monies ==
  {[told |-> "none", amount |-> 0]} \cup {[told |-> "delta", amount |-> s] : s \in Swings}
  \cup {[told |-> "after", amount |-> tracker.bank + s] : s \in Swings}

Deal(type, puck) ==
  /\ Events(stats) < MaxEvents
  /\ table' = [puck |-> puck, since |-> IF type = "roll" THEN table.since + 1 ELSE 0]
  /\ \E bets \in Layouts, money \in Monies :
       Handle([type |-> type, point |-> puck, on |-> puck # 0, money |-> money], bets)

Comeout  == table.puck = 0 /\ Deal("comeout", 0)
SetPoint == table.puck = 0 /\ \E p \in Points : Deal("point_established", p)
Roll     == table.puck # 0 /\ Deal("roll", table.puck)
SevenOut == table.puck # 0 /\ Deal("seven_out", 0)

MakePoint ==
  /\ table.puck # 0
  /\ table' = [puck |-> 0, since |-> 0]
  /\ Unheeded

Next == Comeout \/ SetPoint \/ Roll \/ SevenOut \/ MakePoint

Spec == Init /\ [][Next]_vars

---------------------------------------------------------------------------
(* Properties. *)

TypeOK ==
  /\ table \in [puck : {0} \cup Points, since : 0..MaxEvents]
  /\ ctl.point \in {0} \cup Points /\ ctl.rolls \in Nat /\ ctl.comeout \in BOOLEAN
  /\ dsl.cool \in [DslIds -> [Scopes -> Nat]]
  /\ safety.cool \in [BrainIds -> Nat] /\ safety.locked \subseteq BrainIds
  /\ stats \in [Heeded -> Nat] /\ tracked \in BOOLEAN
  /\ tracker.bank \in Int /\ tracker.draw \in Nat /\ tracker.roll \in Nat

\* The counters kept apart - the statistics, the behaviour engine's roll index,
\* the tracker's rolls and hands and the fallback's hands - never disagree.
CountersAgree ==
  /\ dsl.index = Events(stats)
  /\ tracked => /\ tracker.rolls = Events(stats)
                /\ tracker.hand = hands.count /\ tracker.hands = hands.count
                /\ (tracker.rolls > 0 <=> tracker.hand > 0)

\* Though a point made is not heeded and its point stays in the controller, what
\* is answered with a plan is always judged with the table's own point; and a
\* point-seven-out is counted exactly when a seven-out is the first roll after
\* the point was set, points made before it notwithstanding.
PointSeen ==
  [][stats' # stats =>
       /\ ctl'.point = table'.puck
       /\ ctl'.comeout = (table'.puck = 0)
       /\ ctl'.rolls = table'.since
       /\ tracked => tracker'.pso = tracker.pso + IF out'.type = "seven_out" /\ table.since = 0
                                                 THEN 1 ELSE 0]_vars

\* What envelopes mean to a table, one after another.
Landed(bets, acts) ==
  LET amount(b) == IF b \in DOMAIN bets THEN bets[b] ELSE 0
      one(n, a) == CASE a.act = "set" -> a.amt [] a.act = "clear" -> 0 [] a.act = "press" -> n + a.amt
                     [] OTHER -> IF n > a.amt THEN n - a.amt ELSE 0
      upto[n \in 0..Len(acts)] ==
        IF n = 0 THEN [b \in BetKeys |-> amount(b)]
        ELSE [b \in BetKeys |-> IF OnBet(acts[n]) /\ acts[n].bet = b THEN one(upto[n - 1][b], acts[n])
                                 ELSE upto[n - 1][b]]
  IN  upto[Len(acts)]

\* When a point is set, the merged answer takes the table to the template of the
\* mode the event's own rules switched to, but for the bets those rules set or
\* clear: there the last of them has its way.  A bet that rules press or reduce
\* is left out: the merge drops what the template would have set it to first.
PlanReached ==
  out.type = "point_established" =>
    LET landed == Landed(out.bets, out.final)
        ruled(b) == \E i \in DOMAIN out.rules : OnBet(out.rules[i]) /\ out.rules[i].bet = b
        pressed(b) == \E i \in DOMAIN out.rules :
                        out.rules[i].act \in {"press", "reduce"} /\ out.rules[i].bet = b
        template == IF ctl.mode \in DOMAIN Template THEN Template[ctl.mode] ELSE <<>>
    IN  \A b \in BetKeys :
          \/ pressed(b)
          \/ Demo /\ ctl.point = 6 /\ b = <<"place", 6>>
          \/ landed[b] = IF ruled(b) THEN Landed(<<>>, out.rules)[b]
                                     ELSE Desired(template, ctl.point, b)

\* A behaviour rule that has proposed an intent is silent for as many rolls and
\* come-outs as its cooldown says, whichever windows come in between.
DslPaced ==
  [][\A i \in DOMAIN DslRules :
       LET r == DslRules[i]
       IN  (stats' # stats /\ out'.intent = r.id /\ fired.dsl[r.id].rolls > 0) =>
             /\ r.cool["rolls"] > 0 => Events(stats') - fired.dsl[r.id].rolls > r.cool["rolls"]
             /\ r.cool["hands"] > 0 => stats'["comeout"] - fired.dsl[r.id].hands > r.cool["hands"]]_vars

\* docs/decision_journal.md: "Cooldowns: prevent refire within N rolls."  It does
\* not hold: what the rules' evaluation hands on carries no cooldown.
BrainPaced ==
  [][\A i \in DOMAIN Brain :
       LET r == Brain[i]
       IN  (fired'.brain[r.id] # fired.brain[r.id] /\ fired.brain[r.id].rolls > 0) =>
             Events(stats') - fired.brain[r.id].rolls > r.cooldown]_vars
=============================================================================
