---------------------------- MODULE MCController ----------------------------
EXTENDS Controller, TLC

\* Alphabetical: field, odds_6_pass, pass_line, place_6, place_8.
MCBetOrder == <<<<"field", 0>>, <<"odds_pass", 6>>, <<"pass_line", 0>>, <<"place", 6>>, <<"place", 8>>>>

\* A line below the minimum, odds above the cap, a place off its step; a mode
\* that wants little.  "Lost" is a mode no template has.
MCTemplate ==
  "Main" :> (<<"pass_line", 0>> :> 5 @@ <<"odds_pass", 0>> :> 40 @@ <<"place", 6>> :> 13
             @@ <<"place", 8>> :> 12)
  @@ "Quiet" :> (<<"pass_line", 0>> :> 10 @@ <<"field", 0>> :> 5)

Always == [on |-> "any", drawdown |-> 0, streak |-> 0]
Streak(n) == [Always EXCEPT !.streak = n]
Step(act, bet, amt, to) == [act |-> act, bet |-> bet, amt |-> amt, to |-> to]
Rule(event, when, do) == [event |-> event, when |-> when, do |-> do]

Six == <<"place", 6>>
Eight == <<"place", 8>>

MCRules ==
  <<Rule("seven_out", Always, <<Step("setvar", NoBet, 1, "add"), Step("clear", NoBet, NoAmount, "")>>),
    Rule("point_established", Streak(1),
         <<Step("switch_mode", NoBet, NoAmount, "Quiet"), Step("switch_mode", NoBet, NoAmount, ""),
           Step("set", Eight, NoAmount, "")>>),
    Rule("point_established", [Always EXCEPT !.on = "on"],
         <<Step("set", Eight, 18, ""), Step("clear", Eight, NoAmount, "")>>),
    Rule("comeout", Always, <<Step("switch_mode", NoBet, NoAmount, "Lost")>>),
    Rule("roll", Always, <<Step("press", Six, 6, ""), Step("reduce", Six, 12, "")>>),
    Rule("roll", Streak(1), <<Step("setvar", NoBet, 0, "put")>>)>>

Cool(rolls, hnds, cycles) == [s \in Scopes |-> CASE s = "rolls" -> rolls [] s = "hands" -> hnds [] OTHER -> cycles]
Dsl(id, when, verb, bet, cool) == [id |-> id, when |-> when, verb |-> verb, bet |-> bet, cool |-> cool]

MCDslRules ==
  <<Dsl("d1", [Always EXCEPT !.on = "on"], "press", Six, Cool(2, 0, 0)),
    Dsl("d2", Always, "switch_profile", NoBet, Cool(0, 1, 0)),
    Dsl("d3", [Always EXCEPT !.drawdown = 5], "regress", Eight, Cool(0, 0, 1))>>

Decision(id, when, verb, cooldown, scope) ==
  [id |-> id, when |-> when, verb |-> verb, cooldown |-> cooldown, scope |-> scope]

MCBrain ==
  <<Decision("b1", [Always EXCEPT !.on = "on"], "press", 2, "roll"),
    Decision("b2", [Always EXCEPT !.drawdown = 5], "press", 0, "hand"),
    Decision("b3", [Always EXCEPT !.drawdown = 5], "apply_policy", 1, "roll")>>

MCSwings == {-5, 5}

MCLayouts == {<<>>, Six :> 18 @@ Eight :> 12}
=============================================================================
