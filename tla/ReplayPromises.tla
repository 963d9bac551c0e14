-------------------------- MODULE ReplayPromises ---------------------------
(***************************************************************************)
(* What the replay of a command tape promises of the lines it writes.      *)
(***************************************************************************)
EXTENDS CommandRun, Functions

VARIABLES
  mode,      \* external_mode of the run in progress: "live" or "replay"
  pc,        \* where handle_event is: between two events it is at the "table"
  pending    \* _replay_commands

\* The lines of the journal that have a command executed.
Done == {i \in DOMAIN journal : journal[i].executed}

\* The replay executes only what the live run executed, each command in the
\* hand it was executed in and all in the live order, although commands of
\* several rolls meet in one batch (`_inject_replay_commands`).
OrderKept ==
  mode = "replay" =>
    \E f \in [Done -> {l \in tape : l.executed}] :
      \A i \in Done :
        /\ journal[i].cid = f[i].cid
        /\ journal[i].hand = f[i].hand
        /\ \A j \in Done : j < i => f[j].seq < f[i].seq

\* The lines that were injected so far.
Injected == tape \ Range(pending)

\* What the live queue let pass is let pass again, although the commands of a
\* whole hand are put into the queue at once (`_csc_replay`); and between two
\* events of the replay a command has as many lines in the journal as were
\* injected for it: none is refused, lost or recorded twice.
NoneLeftOut ==
  mode = "replay" =>
    /\ \A l \in Injected : l.executed => l.cid \in seen
    /\ pc = "table" =>
         \A cid \in Cids :
           Cardinality({i \in DOMAIN journal : journal[i].cid = cid})
             = Cardinality({l \in Injected : l.cid = cid})
=============================================================================
