---------------------------- MODULE CommandRun -----------------------------
(***************************************************************************)
(* What every run with external commands has: the limits and the state of  *)
(* its CommandQueue, and the two files in which its commands leave a line. *)
(***************************************************************************)
EXTENDS Naturals, Sequences, FiniteSets

CONSTANTS Sources, Cids, Bodies, QueueMax, Quota, Tokens, RefillSeconds, MaxRejects, CoolDown

VARIABLES
  now, q, seen, perSource, limiter, breaker, stats, accepted, delivered, results,
  journal,     \* the lines of decision_journal.jsonl
  tape         \* the lines of the command tape

queueVars == <<now, q, seen, perSource, limiter, breaker, stats, accepted, delivered, results>>
=============================================================================
