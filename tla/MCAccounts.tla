----------------------------- MODULE MCAccounts -----------------------------
(* Finite instances of Accounts. *)
EXTENDS Accounts

Mention(family, said, number) == [family |-> family, said |-> said, number |-> number]

\* The place bet on 6 mentioned in two ways, and a line bet.
MCMentions == {Mention("place", 0, 6), Mention("place", 6, 0), Mention("pass_line", 0, 0)}

MCStacks == {<<"attrib", "ledger", "hist">>, <<"ledger", "hist", "attrib">>}
=============================================================================
