--------------------------- MODULE MCVanillaStub ---------------------------
(* Finite instances of VanillaStub. *)
EXTENDS VanillaStub, TLC

CONSTANT Limits   \* the risk limits of the run: "none", "heat" or "cap"

\* A rule that fires once and one that cools down, which share an id as two sentences
\* with one verb do, and one that fires once a hand.
MCRules ==
  <<[id |-> "line", scope |-> "roll", cooldown |-> 0, once |-> TRUE,
     act |-> [verb |-> "line_bet", side |-> "pass", amount |-> 3]],
    [id |-> "line", scope |-> "roll", cooldown |-> 1, once |-> FALSE,
     act |-> [verb |-> "field_bet", amount |-> 3]],
    [id |-> "hand", scope |-> "hand", cooldown |-> 0, once |-> FALSE,
     act |-> [verb |-> "place_bet", number |-> 6, amount |-> 3, bare |-> TRUE]]>>

MCPolicies ==
  CASE Limits = "heat" -> {Loaded(Unset, 3, <<>>, FALSE, "none", TRUE)}
    [] Limits = "cap"  -> {Loaded(50, Unset, "place_bet" :> 3 @@ "field_bet" :> 2, TRUE, "flat_recovery", e) : e \in BOOLEAN}
    [] OTHER -> {NoPolicy}
=============================================================================
