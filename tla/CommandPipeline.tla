-------------------------- MODULE CommandPipeline ---------------------------
(***************************************************************************)
(* A live run: the HTTP thread that takes commands in and the controller   *)
(* thread that drains and executes them at each roll, around one           *)
(* CommandQueue, one decision journal and one command tape.                *)
(*                                                                         *)
(* The queue's lock is held by the HTTP thread from a refusal until the    *)
(* refusal handler has written the journal and the tape.  The controller   *)
(* writes both files without any lock.  A sequence number is taken in one  *)
(* step (there is no switch of threads inside `self._seq += 1` and the     *)
(* read that follows it in CPython 3.11 and later, which pyproject.toml    *)
(* asks for); a line of a file is another step, and so is the tape's.      *)
(*                                                                         *)
(* The lines that the rules of the controller's own thread add to the      *)
(* journal are left out: they are not commands and never reach the tape.   *)
(***************************************************************************)
EXTENDS CommandRun

CONSTANTS
  NoCid,      \* the adapter has applied nothing yet
  CanRaise,   \* TRUE: the adapter's apply_action may raise, as HttpEngineAdapter's does
  CanRefuse,  \* TRUE: it may answer with a rejected effect, as VanillaAdapter's does
  CanFinish   \* TRUE: the run may be finalised

ASSUME PipelineConstants ==
  /\ NoCid \notin Cids
  /\ {CanRaise, CanRefuse, CanFinish} \subseteq BOOLEAN

VARIABLES
  lock,        \* who holds the queue's lock between steps: "free" or "http"
  http,        \* the HTTP thread
  ctrl,        \* the controller thread
  server,      \* "up" until finalize_run stops the HTTP server
  journalSeq,  \* DecisionJournal._seq
  report,      \* what finalize_run has put into report.json and the bundle
  lastEffect,  \* adapter.last_effect, as the command it came from
  applied,     \* history: the commands the adapter applied, in order
  answers      \* history: how many answers the clients were given

Queue == INSTANCE CommandQueue

ASSUME QueueLimits == Queue!QueueConstants

fileVars  == <<journalSeq, journal, tape, report>>
vars == <<queueVars, fileVars, lock, http, ctrl, server, lastEffect, applied, answers>>

NoCommand == [cid |-> NoCid]

\* The counters copied from the queue, the external lines counted in the journal,
\* and the tape in the bundle.
NoReport == [rejected |-> [r \in Queue!Reasons |-> 0], executed |-> 0,
             did |-> 0, didNot |-> 0, tape |-> <<>>]

Init ==
  /\ Queue!Init
  /\ lock = "free"
  /\ http = [pc |-> "idle", cmd |-> NoCommand, reason |-> "none", seq |-> 0]
  /\ ctrl = [pc |-> "table", batch |-> <<>>, keys |-> {}, cmd |-> NoCommand,
             executed |-> FALSE, reason |-> "none", seq |-> 0]
  /\ server = "up"
  /\ journalSeq = 0
  /\ journal = <<>>
  /\ tape = <<>>
  /\ report = NoReport
  /\ lastEffect = NoCid
  /\ applied = <<>>
  /\ answers = 0

-----------------------------------------------------------------------------
(* The HTTP thread.                                                        *)

Answer == answers' = answers + 1

\* `ingest_command` answers these itself: the queue never sees them.
RefuseAtIngest(c, runId) ==
  /\ server = "up" /\ http.pc = "idle"
  /\ runId = "other" \/ c.form = "unknown_action"
  /\ Answer
  /\ UNCHANGED <<queueVars, fileVars, lock, http, ctrl, server, lastEffect, applied>>

\* The others go to `enqueue`.  A refused one leaves the lock held while
\* `_on_command_rejection` records it.
Submit(c) ==
  /\ server = "up" /\ http.pc = "idle" /\ lock = "free"
  /\ c.form # "unknown_action"
  /\ \/ /\ Queue!Accept(c)
        /\ Answer
        /\ UNCHANGED <<lock, http>>
     \/ /\ Queue!Refuse(c)
        /\ lock' = "http"
        /\ http' = [pc |-> "seq", cmd |-> c, reason |-> Queue!Verdict(c), seq |-> 0]
        /\ UNCHANGED answers
  /\ UNCHANGED <<fileVars, ctrl, server, lastEffect, applied>>

HttpSeq ==
  /\ http.pc = "seq"
  /\ journalSeq' = journalSeq + 1
  /\ http' = [http EXCEPT !.pc = "line", !.seq = journalSeq + 1]
  /\ UNCHANGED <<queueVars, journal, tape, report, lock, ctrl, server, lastEffect, applied, answers>>

\* The line carries the adapter's last effect, whichever command caused it.
HttpLine ==
  /\ http.pc = "line"
  /\ journal' = Append(journal, [seq |-> http.seq, cid |-> http.cmd.cid, executed |-> FALSE,
                                 effect |-> lastEffect])
  /\ http' = [http EXCEPT !.pc = "tape"]
  /\ UNCHANGED <<queueVars, journalSeq, tape, report, lock, ctrl, server, lastEffect, applied, answers>>

HttpTape ==
  /\ http.pc = "tape"
  /\ tape' = Append(tape, [seq |-> http.seq, cid |-> http.cmd.cid, executed |-> FALSE,
                           reason |-> http.reason])
  /\ lock' = "free"
  /\ http' = [pc |-> "idle", cmd |-> NoCommand, reason |-> "none", seq |-> 0]
  /\ Answer
  /\ UNCHANGED <<queueVars, journalSeq, journal, report, ctrl, server, lastEffect, applied>>

HttpStep == HttpSeq \/ HttpLine \/ HttpTape

-----------------------------------------------------------------------------
(* The controller thread: a ROLL event.                                    *)

Goto(pc) == ctrl' = [ctrl EXCEPT !.pc = pc]

RollEvent ==
  /\ ctrl.pc = "table"
  /\ Goto("drain")
  /\ UNCHANGED <<queueVars, fileVars, lock, http, server, lastEffect, applied, answers>>

\* Fault variant: the batch is copied and the queue left as it is.
FaultyDrainQueue ==
  /\ ctrl.pc = "drain" /\ lock = "free"
  /\ ctrl' = [ctrl EXCEPT !.pc = "next", !.batch = q, !.keys = {}]
  /\ UNCHANGED <<queueVars, fileVars, lock, http, server, lastEffect, applied, answers>>

DrainQueue ==
  /\ ctrl.pc = "drain" /\ lock = "free"
  /\ Queue!Drain
  /\ ctrl' = [ctrl EXCEPT !.pc = "next", !.batch = q, !.keys = {}]
  /\ UNCHANGED <<fileVars, lock, http, server, lastEffect, applied, answers>>

\* The key that may be used once per drain: origin, verb and arguments.
Key(cmd) == <<cmd.source, cmd.body>>

\* Fault variant: the batch is worked off from its end.
FaultyJudged(executed, reason) ==
  ctrl' = [ctrl EXCEPT !.pc = "outcome", !.batch = SubSeq(@, 1, Len(@) - 1),
                       !.cmd = ctrl.batch[Len(ctrl.batch)],
                       !.keys = @ \cup {Key(ctrl.batch[Len(ctrl.batch)])},
                       !.executed = executed, !.reason = reason]

\* What the loop body decides about the head of the batch.
Judged(executed, reason) ==
  ctrl' = [ctrl EXCEPT !.pc = "outcome", !.batch = Tail(@), !.cmd = Head(ctrl.batch),
                       !.keys = @ \cup {Key(Head(ctrl.batch))},
                       !.executed = executed, !.reason = reason]

\* Fault variant: the duplicate is passed over without an outcome.
FaultyDuplicateInRoll ==
  /\ ctrl.pc = "next" /\ ctrl.batch # <<>>
  /\ Key(Head(ctrl.batch)) \in ctrl.keys
  /\ ctrl' = [ctrl EXCEPT !.batch = Tail(@)]
  /\ UNCHANGED <<queueVars, fileVars, lock, http, server, lastEffect, applied, answers>>

DuplicateInRoll ==
  /\ ctrl.pc = "next" /\ ctrl.batch # <<>>
  /\ Key(Head(ctrl.batch)) \in ctrl.keys
  /\ Judged(FALSE, "duplicate_roll")
  /\ UNCHANGED <<queueVars, fileVars, lock, http, server, lastEffect, applied, answers>>

FirstInRoll == ctrl.pc = "next" /\ ctrl.batch # <<>> /\ Key(Head(ctrl.batch)) \notin ctrl.keys

\* `is_legal_timing` reads names that the table configuration and the rules'
\* variables may set, so either answer is possible.
IllegalTiming ==
  /\ FirstInRoll
  /\ Judged(FALSE, "timing")
  /\ UNCHANGED <<queueVars, fileVars, lock, http, server, lastEffect, applied, answers>>

Execute ==
  /\ FirstInRoll
  /\ Judged(TRUE, "none")
  /\ lastEffect' = Head(ctrl.batch).cid
  /\ applied' = Append(applied, Head(ctrl.batch).cid)
  /\ UNCHANGED <<queueVars, fileVars, lock, http, server, answers>>

\* The adapter answers {"rejected": true}: nothing looks at the answer, and
\* last_effect still names the command before.
ExecuteRefused ==
  /\ CanRefuse /\ FirstInRoll
  /\ Judged(TRUE, "none")
  /\ UNCHANGED <<queueVars, fileVars, lock, http, server, lastEffect, applied, answers>>

\* The adapter raises and handle_event with it: the rest of the batch goes
\* with the frame that held it.
ExecuteRaises ==
  /\ CanRaise /\ FirstInRoll
  /\ ctrl' = [ctrl EXCEPT !.pc = "table", !.batch = <<>>, !.cmd = NoCommand]
  /\ UNCHANGED <<queueVars, fileVars, lock, http, server, lastEffect, applied, answers>>

\* Fault variant: only executed commands are reported to the queue.
FaultyRecordOutcome ==
  /\ ctrl.pc = "outcome" /\ lock = "free"
  /\ IF ctrl.executed
     THEN Queue!OutcomeExecuted(ctrl.cmd.source)
     ELSE UNCHANGED queueVars
  /\ Goto("seq")
  /\ UNCHANGED <<fileVars, lock, http, server, lastEffect, applied, answers>>

RecordOutcome ==
  /\ ctrl.pc = "outcome" /\ lock = "free"
  /\ IF ctrl.executed
     THEN Queue!OutcomeExecuted(ctrl.cmd.source)
     ELSE Queue!OutcomeRejected(ctrl.cmd.source, ctrl.reason)
  /\ Goto("seq")
  /\ UNCHANGED <<fileVars, lock, http, server, lastEffect, applied, answers>>

CtrlSeq ==
  /\ ctrl.pc = "seq"
  /\ journalSeq' = journalSeq + 1
  /\ ctrl' = [ctrl EXCEPT !.pc = "line", !.seq = journalSeq + 1]
  /\ UNCHANGED <<queueVars, journal, tape, report, lock, http, server, lastEffect, applied, answers>>

\* An untimely command's line carries no effect; the others carry whatever
\* effect was the adapter's last.
CtrlLine ==
  /\ ctrl.pc = "line"
  /\ journal' = Append(journal,
       [seq |-> ctrl.seq, cid |-> ctrl.cmd.cid, executed |-> ctrl.executed,
        effect |-> IF ctrl.reason = "timing" THEN NoCid ELSE lastEffect])
  /\ Goto("tape")
  /\ UNCHANGED <<queueVars, journalSeq, tape, report, lock, http, server, lastEffect, applied, answers>>

\* Fault variant: the tape cites the newest number of the journal.
FaultyCtrlTape ==
  /\ ctrl.pc = "tape"
  /\ tape' = Append(tape, [seq |-> journalSeq, cid |-> ctrl.cmd.cid,
                           executed |-> ctrl.executed, reason |-> ctrl.reason])
  /\ ctrl' = [ctrl EXCEPT !.pc = "next", !.cmd = NoCommand]
  /\ UNCHANGED <<queueVars, journalSeq, journal, report, lock, http, server, lastEffect, applied, answers>>

CtrlTape ==
  /\ ctrl.pc = "tape"
  /\ tape' = Append(tape, [seq |-> ctrl.seq, cid |-> ctrl.cmd.cid, executed |-> ctrl.executed,
                           reason |-> ctrl.reason])
  /\ ctrl' = [ctrl EXCEPT !.pc = "next", !.cmd = NoCommand]
  /\ UNCHANGED <<queueVars, journalSeq, journal, report, lock, http, server, lastEffect, applied, answers>>

BatchDone ==
  /\ ctrl.pc = "next" /\ ctrl.batch = <<>>
  /\ Goto("table")
  /\ UNCHANGED <<queueVars, fileVars, lock, http, server, lastEffect, applied, answers>>

(***************************************************************************)
(* finalize_run: the report, the bundle and only then the end of the HTTP  *)
(* server, which answers and refuses meanwhile.                            *)
(***************************************************************************)
\* A run may be told to write neither.
FinalizeRun ==
  /\ CanFinish /\ ctrl.pc = "table"
  /\ \/ Goto("stop") /\ UNCHANGED report
     \/ Goto("copy") /\ report' = [report EXCEPT !.rejected = stats.rejected]
  /\ UNCHANGED <<queueVars, journalSeq, journal, tape, lock, http, server, lastEffect, applied, answers>>

Counted(rejected) == {r \in Queue!Reasons : rejected[r] > 0}

\* The counters are copied one by one and without the queue's lock: each is read
\* at some time since the copy began.
CopyStats ==
  /\ ctrl.pc = "copy"
  /\ Counted(report.rejected) = {} \/ Counted(report.rejected) = Counted(stats.rejected)
  /\ \E late \in SUBSET {r \in Queue!Reasons : report.rejected[r] # stats.rejected[r]} :
       report' = [report EXCEPT !.executed = stats.executed,
                                !.rejected = [r \in Queue!Reasons |-> IF r \in late THEN stats.rejected[r] ELSE @[r]]]
  /\ Goto("count")
  /\ UNCHANGED <<queueVars, journalSeq, journal, tape, lock, http, server, lastEffect, applied, answers>>

\* A reason counted for the first time makes the copy raise, and finalize_run
\* with it: the server stays.
CopyRaises ==
  /\ ctrl.pc = "copy"
  /\ Counted(report.rejected) \notin {{}, Counted(stats.rejected)}
  /\ report' = NoReport
  /\ Goto("raised")
  /\ UNCHANGED <<queueVars, journalSeq, journal, tape, lock, http, server, lastEffect, applied, answers>>

LinesWith(executed) == {i \in DOMAIN journal : journal[i].executed = executed}

\* Fault variant: lines are told apart by the effect they carry.
FaultyCountLines ==
  /\ ctrl.pc = "count"
  /\ LET withEffect == {i \in DOMAIN journal : journal[i].effect # NoCid}
     IN  report' = [report EXCEPT !.did = Cardinality(withEffect),
                                  !.didNot = Cardinality(DOMAIN journal \ withEffect)]
  /\ Goto("bundle")
  /\ UNCHANGED <<queueVars, journalSeq, journal, tape, lock, http, server, lastEffect, applied, answers>>

CountLines ==
  /\ ctrl.pc = "count"
  /\ report' = [report EXCEPT !.did = Cardinality(LinesWith(TRUE)), !.didNot = Cardinality(LinesWith(FALSE))]
  /\ Goto("bundle")
  /\ UNCHANGED <<queueVars, journalSeq, journal, tape, lock, http, server, lastEffect, applied, answers>>

Bundle ==
  /\ ctrl.pc = "bundle"
  /\ report' = [report EXCEPT !.tape = tape]
  /\ Goto("stop")
  /\ UNCHANGED <<queueVars, journalSeq, journal, tape, lock, http, server, lastEffect, applied, answers>>

\* The request in progress is answered first.
StopServer ==
  /\ ctrl.pc = "stop" /\ http.pc = "idle"
  /\ server' = "down"
  /\ Goto("done")
  /\ UNCHANGED <<queueVars, fileVars, lock, http, lastEffect, applied, answers>>

Finalize == FinalizeRun \/ CopyStats \/ CopyRaises \/ CountLines \/ Bundle \/ StopServer

CtrlStep ==
  \/ DrainQueue \/ DuplicateInRoll \/ IllegalTiming \/ Execute \/ ExecuteRefused
  \/ ExecuteRaises \/ RecordOutcome \/ CtrlSeq \/ CtrlLine \/ CtrlTape \/ BatchDone

Clock ==
  /\ Queue!Tick
  /\ UNCHANGED <<fileVars, lock, http, ctrl, server, lastEffect, applied, answers>>

Next ==
  \/ \E c \in Queue!Command : Submit(c) \/ \E r \in {"active", "other"} : RefuseAtIngest(c, r)
  \/ HttpStep
  \/ RollEvent
  \/ CtrlStep
  \/ Finalize
  \/ Clock

Spec == Init /\ [][Next]_vars

\* Each thread is scheduled, and the game goes on rolling.
FairSpec == Spec /\ WF_vars(HttpStep) /\ WF_vars(CtrlStep) /\ WF_vars(RollEvent)

-----------------------------------------------------------------------------
(* Properties                                                              *)

JournalLine == [seq : Nat, cid : Cids, executed : BOOLEAN, effect : Cids \cup {NoCid}]
TapeLine == [seq : Nat, cid : Cids, executed : BOOLEAN, reason : Queue!Reasons \cup {"none"}]

TypeOK ==
  /\ Queue!TypeOK
  /\ lock \in {"free", "http"}
  /\ http.pc \in {"idle", "seq", "line", "tape"}
  /\ (http.pc = "idle") = (lock = "free")
  /\ http.pc # "idle" => http.cmd \in Queue!Command
  /\ ctrl.pc \in {"table", "drain", "next", "outcome", "seq", "line", "tape",
                 "copy", "count", "bundle", "stop", "done", "raised"}
  /\ ctrl.batch \in Seq(Queue!Payload)
  /\ ctrl.pc \in {"outcome", "seq", "line", "tape"} => ctrl.cmd \in Queue!Payload
  /\ server \in {"up", "down"}
  /\ journalSeq \in Nat
  /\ journal \in Seq(JournalLine)
  /\ tape \in Seq(TapeLine)
  /\ report \in [rejected : [Queue!Reasons -> Nat], executed : Nat, did : Nat, didNot : Nat,
                 tape : Seq(TapeLine)]
  /\ lastEffect \in Cids \cup {NoCid}
  /\ applied \in Seq(Cids)
  /\ answers \in Nat

\* A tape line refers, by number, to exactly one journal line, of the same
\* command and with the same result, in whichever order the two threads
\* number and write lines.
TapeCitesJournal ==
  \A i \in DOMAIN tape : \E j \in DOMAIN journal :
    /\ journal[j].cid = tape[i].cid
    /\ journal[j].executed = tape[i].executed
    /\ {k \in DOMAIN journal : journal[k].seq = tape[i].seq} = {j}

\* The adapter is given each accepted command at most once, and never one
\* that was not accepted.
AppliedOnce ==
  /\ \A i, j \in DOMAIN applied : applied[i] = applied[j] => i = j
  /\ \A i \in DOMAIN applied : applied[i] \in seen

\* The tape's lines with reason r.
TapedAs(r) == {i \in DOMAIN tape : tape[i].reason = r}

\* A thread has counted an outcome with reason r and not taped it yet.
Pending(r) ==
  (IF http.pc # "idle" /\ http.reason = r THEN 1 ELSE 0)
    + (IF ctrl.pc \in {"seq", "line", "tape"} /\ ctrl.reason = r THEN 1 ELSE 0)

\* The refusals that the counters stand for, told apart.
Refusals(rejected) == UNION {{<<r, n>> : n \in 1..rejected[r]} : r \in Queue!Reasons}

\* The report counts twice, from the queue's counters and from the journal, while
\* the HTTP thread goes on refusing; the bundle's tape is copied later still.
\* What was executed is told alike in all three, and a refusal counted is a
\* line, but for the one under way.
ReportAgrees ==
  /\ ctrl.pc \in {"bundle", "stop", "done"} =>
       /\ report.executed = report.did
       /\ Cardinality(Refusals(report.rejected)) <= report.didNot + 1
  /\ ctrl.pc \in {"stop", "done"} =>
       /\ Cardinality({i \in DOMAIN report.tape : report.tape[i].executed}) = report.did
       /\ Len(report.tape) + 1 >= report.did + report.didNot

\* The counters agree with the tape, reason by reason: each outcome is counted
\* once and taped once, by either thread.
CountersMatchTape ==
  /\ stats.executed = Cardinality(TapedAs("none")) + Pending("none")
  /\ \A r \in Queue!Reasons : stats.rejected[r] = Cardinality(TapedAs(r)) + Pending(r)

\* And so does the report.
StatsMatchTape == CountersMatchTape /\ ReportAgrees

\* The tape's lines of drained commands: the refusals are the others.
SettleLines == {i \in DOMAIN tape : tape[i].executed \/ tape[i].reason \in Queue!OutcomeReasons}

TheOne(S) == CHOOSE i \in S : TRUE

\* The commands that the controller has taped, in order: the n-th is the line with n
\* of these lines up to it.
Settlements ==
  [n \in 1..Cardinality(SettleLines) |->
     tape[TheOne({i \in SettleLines : Cardinality({j \in SettleLines : j <= i}) = n})]]

Settled(cid) == \E i \in DOMAIN Settlements : Settlements[i].cid = cid

\* The channel keeps its promise: seen from the tape, the accepted commands
\* are settled once each and in the order of acceptance.
Ledger == INSTANCE CommandLedger WITH
  order   <- [i \in DOMAIN accepted |-> accepted[i].cid],
  settled <- [i \in DOMAIN Settlements |-> Settlements[i].cid]

LedgerSpec == Ledger!Spec

\* An accepted command is settled on the tape in the end.
AcceptedIsSettled ==
  \A cid \in Cids : cid \in seen ~> Settled(cid)

\* "Every command (accepted or rejected) is appended after it is processed":
\* between two rolls, everything drained so far is on the tape.
DrainedIsTaped ==
  ctrl.pc = "table" =>
    \A i \in DOMAIN delivered : Settled(delivered[i].cid)

\* "... so the tape reflects the exact outcome": a command taped as executed
\* is one the adapter applied.
TapeReflectsOutcome ==
  \A i \in DOMAIN tape : tape[i].executed => \E j \in DOMAIN applied : applied[j] = tape[i].cid

\* finalize_run leaves no server behind: not when the copy of the counters raises.
ServerStops == ctrl.pc \in {"done", "raised"} => server = "down"
=============================================================================
