----------------------------- MODULE MCEvoJobs -----------------------------
(* Finite instances of EvoJobs. *)
EXTENDS EvoJobs

CONSTANT Spoiled   \* TRUE: a file cannot be read

\* Two files with one request and, by Spoiled, a file with a flaw.
MCJob ==
  IF Spoiled THEN (1 :> [id |-> "a", flaw |-> "poison"]) @@ (2 :> [id |-> "b", flaw |-> "none"])
  ELSE (1 :> [id |-> "a", flaw |-> "none"]) @@ (2 :> [id |-> "a", flaw |-> "none"]) @@ (3 :> [id |-> "b", flaw |-> "hash"])

MCKeyOf == [p \in Posts |-> IF p = "other" THEN "k2" ELSE "k1"]
=============================================================================
