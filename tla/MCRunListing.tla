---------------------------- MODULE MCRunListing ----------------------------
(* Finite instances of RunListing. *)
EXTENDS RunListing, TLC

SymProcs == Permutations(Procs)

\* A client pages only while nothing has failed, to keep the instance small.
PagesInPeace == page.at = "first" \/ upsets = 0
=============================================================================
