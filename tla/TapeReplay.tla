------------------------------ MODULE TapeReplay -----------------------------
(***************************************************************************)
(* A live run and then a replay run of its command tape, over the same     *)
(* game: the second run sees the events of the first in their order, and   *)
(* its commands come from the tape instead of the clients.                 *)
(*                                                                         *)
(* The tape is a set of lines: the loader sorts them by the number of      *)
(* their journal line, so the order in the file does not matter.           *)
(* CommandPipeline has the threads of the live run in detail, and the      *)
(* adapter's failures; here a refusal is one step and execution succeeds.  *)
(* The journal holds the lines of commands only, analytics are on, as they *)
(* are by default, so that every line names its hand, and the clock stands *)
(* still.                                                                  *)
(***************************************************************************)
EXTENDS ReplayPromises

CONSTANTS
  MaxRolls,      \* bound: ROLL events of the game
  TimingFails    \* TRUE: a command may come at a roll where it is not legal

ASSUME ReplayConstants == MaxRolls \in Nat /\ TimingFails \in BOOLEAN

VARIABLES
  hand,      \* tracker.hand_id
  rolls,     \* ROLL events so far
  batch,     \* `pending` of the drain loop: what is left of it
  keys,      \* `seen_this_roll`
  game,      \* history: the events of the live run
  untimely   \* the rolls at which a body is not legal by is_legal_timing

rollVars  == <<hand, rolls, game>>
vars == <<queueVars, rollVars, mode, pc, batch, keys, journal, tape, pending, untimely>>

Queue == INSTANCE CommandQueue

Init ==
  /\ Queue!Init
  /\ mode = "live"
  /\ pc = "table"
  /\ hand = 0
  /\ rolls = 0
  /\ batch = <<>>
  /\ keys = {}
  /\ journal = <<>>
  /\ tape = {}
  /\ pending = <<>>
  /\ game = <<>>
  /\ untimely \in IF TimingFails THEN SUBSET ((1..MaxRolls) \X Bodies) ELSE {{}}

-----------------------------------------------------------------------------
(* The journal and the tape.                                               *)

Line(cmd, reason) ==
  [cid |-> cmd.cid, source |-> cmd.source, body |-> cmd.body, reason |-> reason,
   executed |-> reason = "none", hand |-> hand, seq |-> Len(journal) + 1]

\* A replay run writes no tape.
WriteLine(cmd, reason) ==
  /\ journal' = Append(journal, Line(cmd, reason))
  /\ tape' = IF mode = "live" THEN tape \cup {Line(cmd, reason)} ELSE tape

\* Fault variant: the latest line first.
FaultyRecorded ==
  [i \in 1..Cardinality(tape) |-> CHOOSE l \in tape : Cardinality({m \in tape : m.seq >= l.seq}) = i]

\* The lines of the tape as `_load_replay_tape` orders them: the i-th has i - 1
\* before it.  No two have the same number.
Recorded ==
  [i \in 1..Cardinality(tape) |-> CHOOSE l \in tape : Cardinality({m \in tape : m.seq <= l.seq}) = i]

-----------------------------------------------------------------------------
(* The clients of the live run.                                            *)

Submit(c) ==
  /\ mode = "live"
  /\ \/ Queue!Accept(c) /\ UNCHANGED <<journal, tape>>
     \/ Queue!Refuse(c) /\ WriteLine(c, Queue!Verdict(c))
  /\ UNCHANGED <<rollVars, mode, pc, batch, keys, pending, untimely>>

-----------------------------------------------------------------------------
(* The events of the game.                                                 *)

\* The live run makes the game; the replay run follows it.
Happens(event) ==
  /\ pc = "table"
  /\ IF mode = "live"
     THEN game' = Append(game, event)
     ELSE game # <<>> /\ Head(game) = event /\ game' = Tail(game)

Comeout ==
  /\ Happens("comeout")
  /\ hand' = hand + 1
  /\ UNCHANGED <<queueVars, rolls, mode, pc, batch, keys, journal, tape, pending, untimely>>

\* A roll before any come-out starts the first hand.
Roll ==
  /\ Happens("roll")
  /\ rolls < MaxRolls
  /\ rolls' = rolls + 1
  /\ hand' = IF hand = 0 THEN 1 ELSE hand
  /\ pc' = "inject"
  /\ UNCHANGED <<queueVars, mode, batch, keys, journal, tape, pending, untimely>>

\* Fault variant: a hand's commands wait for the next hand.
FaultyDue == pending # <<>> /\ pending[1].hand < hand

\* The next command of the tape belongs to this hand or to an earlier one.
Due == pending # <<>> /\ pending[1].hand <= hand

\* Fault variant: it is counted and no more.
FaultyInjectRefused ==
  /\ pc = "inject" /\ Due
  /\ ~Head(pending).executed
  /\ stats' = [stats EXCEPT !.rejected[Head(pending).reason] = @ + 1]
  /\ pending' = Tail(pending)
  /\ UNCHANGED <<now, q, seen, perSource, limiter, breaker, accepted, delivered, results,
                 rollVars, mode, pc, batch, keys, journal, tape, untimely>>

\* A command that was refused is only counted and journalled again.
InjectRefused ==
  /\ pc = "inject" /\ Due
  /\ ~Head(pending).executed
  /\ stats' = [stats EXCEPT !.rejected[Head(pending).reason] = @ + 1]
  /\ WriteLine(Head(pending), Head(pending).reason)
  /\ pending' = Tail(pending)
  /\ UNCHANGED <<now, q, seen, perSource, limiter, breaker, accepted, delivered, results,
                 rollVars, mode, pc, batch, keys, untimely>>

\* Fault variant: the replayed command is not marked as one.
FaultyReplayed(line) ==
  [cid |-> line.cid, source |-> line.source, body |-> line.body, form |-> "ok", replay |-> FALSE]

\* The command that is made of a line of the tape.
Replayed(line) ==
  [cid |-> line.cid, source |-> line.source, body |-> line.body, form |-> "ok", replay |-> TRUE]

\* The others go through `enqueue`, which may refuse them.
InjectCommand ==
  LET c == Replayed(Head(pending))
  IN  /\ pc = "inject" /\ Due
      /\ Head(pending).executed
      /\ \/ Queue!Accept(c) /\ UNCHANGED <<journal, tape>>
         \/ Queue!Refuse(c) /\ WriteLine(c, Queue!Verdict(c))
      /\ pending' = Tail(pending)
      /\ UNCHANGED <<rollVars, mode, pc, batch, keys, untimely>>

Drain ==
  /\ pc = "inject" /\ ~Due
  /\ Queue!Drain
  /\ batch' = q
  /\ keys' = {}
  /\ pc' = "settle"
  /\ UNCHANGED <<rollVars, mode, journal, tape, pending, untimely>>

Key(cmd) == <<cmd.source, cmd.body>>

\* What becomes of a command of the batch: its key may be used once in a
\* roll, and the timing gate has its say.
Outcome(cmd) ==
  IF Key(cmd) \in keys THEN "duplicate_roll"
  ELSE IF <<rolls, cmd.body>> \in untimely THEN "timing"
  ELSE "none"

Settle ==
  /\ pc = "settle" /\ batch # <<>>
  /\ LET cmd == Head(batch)
     IN  /\ IF Outcome(cmd) = "none"
            THEN Queue!OutcomeExecuted(cmd.source)
            ELSE Queue!OutcomeRejected(cmd.source, Outcome(cmd))
         /\ WriteLine(cmd, Outcome(cmd))
         /\ keys' = keys \cup {Key(cmd)}
  /\ batch' = Tail(batch)
  /\ UNCHANGED <<rollVars, mode, pc, pending, untimely>>

EndRoll ==
  /\ pc = "settle" /\ batch = <<>>
  /\ pc' = "table"
  /\ UNCHANGED <<queueVars, rollVars, mode, batch, keys, journal, tape, pending, untimely>>

-----------------------------------------------------------------------------
(* The replay run.                                                         *)

\* A new ControlStrategy in replay mode, with the tape of the live run.
StartReplay ==
  /\ mode = "live" /\ pc = "table"
  /\ mode' = "replay"
  /\ pending' = Recorded
  /\ now' = 0 /\ q' = <<>> /\ seen' = {}
  /\ perSource' = [s \in Sources |-> 0]
  /\ limiter' = [s \in {} |-> [available |-> Tokens, lastRefill |-> 0]]
  /\ breaker' = [s \in Sources |-> [consecutive |-> 0, trippedUntil |-> 0]]
  /\ stats' = [enqueued |-> 0, executed |-> 0, rejected |-> [r \in Queue!Reasons |-> 0]]
  /\ accepted' = <<>> /\ delivered' = <<>>
  /\ results' = [s \in Sources |-> <<>>]
  /\ hand' = 0 /\ rolls' = 0
  /\ journal' = <<>> /\ keys' = {}
  /\ UNCHANGED <<game, pc, batch, tape, untimely>>

Next ==
  \/ \E c \in Queue!Command : Submit(c)
  \/ Comeout \/ Roll
  \/ InjectRefused \/ InjectCommand
  \/ Drain \/ Settle \/ EndRoll
  \/ StartReplay

Spec == Init /\ [][Next]_vars

-----------------------------------------------------------------------------
(* Properties                                                              *)

Entry == [cid : Cids, source : Sources, body : Bodies, executed : BOOLEAN, hand : Nat,
          seq : Nat, reason : Queue!Reasons \cup {"none"}]

TypeOK ==
  /\ Queue!TypeOK
  /\ mode \in {"live", "replay"}
  /\ pc \in {"table", "inject", "settle"}
  /\ hand \in Nat /\ rolls \in 0..MaxRolls
  /\ batch \in Seq(Queue!Payload) /\ (batch # <<>> => pc = "settle")
  /\ journal \in Seq(Entry)
  /\ tape \subseteq Entry
  /\ pending \in Seq(tape) /\ (pending # <<>> => mode = "replay")
  /\ game \in Seq({"comeout", "roll"})

\* The replay run has seen every event of the live run.
Over == mode = "replay" /\ pc = "table" /\ game = <<>>

\* The ids that a sequence of lines has as executed, in order.
ExecutedIn(lines) ==
  LET done == SelectSeq(lines, LAMBDA l : l.executed) IN [i \in DOMAIN done |-> done[i].cid]

\* "replays commands from the tape deterministically": the replay executes
\* what the live run executed.
ReplayMatchesLive == Over => ExecutedIn(journal) = ExecutedIn(Recorded)
=============================================================================
