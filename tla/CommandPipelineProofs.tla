----------------------- MODULE CommandPipelineProofs ------------------------
(***************************************************************************)
(* Theorems about CommandPipeline, for every set of sources, ids and       *)
(* commands and every limit: the two threads use the queue as CommandQueue *)
(* says it is used, so that what is proved of the queue holds of it in the *)
(* pipeline; and from that, what reaches the adapter, the journal and the  *)
(* tape.  The last part is about TapeReplay, the module Tape here: what a  *)
(* replay of the tape executes and writes.                                 *)
(***************************************************************************)
EXTENDS CommandPipeline, ReplayPromises, FiniteSetTheorems, SequenceTheorems, TLAPS

CONSTANTS MaxRolls, TimingFails

VARIABLES hand, rolls, batch, keys, game, untimely

Tape == INSTANCE TapeReplay

QueueProofs == INSTANCE CommandQueueProofs

---------------------------------------------------------------------------
(* Types. *)

Working == {"outcome", "seq", "line", "tape"}
CtrlPlaces == Working \cup {"table", "drain", "next", "copy", "count", "bundle", "stop", "done", "raised"}

Ctrl == [pc : CtrlPlaces, batch : Seq(Queue!Payload), keys : SUBSET (Sources \X Bodies),
         cmd : Queue!Payload \cup {NoCommand}, executed : BOOLEAN,
         reason : Queue!OutcomeReasons \cup {"none"}, seq : Nat]
Http == [pc : {"idle", "seq", "line", "tape"}, cmd : Queue!Command \cup {NoCommand},
         reason : Queue!RefusalReasons \cup {"none"}, seq : Nat]

\* A thread that works on a command has one, with a reason for not executing it.
Typed ==
  /\ q \in Seq(Queue!Payload)
  /\ ctrl \in Ctrl
  /\ ctrl.pc \in Working => ctrl.cmd \in Queue!Payload /\ (ctrl.executed <=> ctrl.reason = "none")
  /\ ctrl.pc \notin Working \cup {"next"} => ctrl.batch = <<>>
  /\ http \in Http
  /\ http.pc # "idle" => http.cmd \in Queue!Command /\ http.reason \in Queue!RefusalReasons
  /\ lock \in {"free", "http"} /\ (http.pc = "idle" <=> lock = "free")
  /\ server \in {"up", "down"}
  /\ journalSeq \in Nat
  /\ journal \in Seq(JournalLine)
  /\ tape \in Seq(TapeLine)
  /\ lastEffect \in Cids \cup {NoCid}
  /\ applied \in Seq(Cids)

\* What the steps of the controller make of its record: a change of place, ...
LEMMA GotoTyped ==
  ASSUME ctrl \in Ctrl, NEW p \in CtrlPlaces, Goto(p)
  PROVE  /\ ctrl' \in Ctrl /\ ctrl'.pc = p
         /\ ctrl'.batch = ctrl.batch /\ ctrl'.cmd = ctrl.cmd /\ ctrl'.executed = ctrl.executed
         /\ ctrl'.reason = ctrl.reason /\ ctrl'.seq = ctrl.seq
  BY DEF Goto, Ctrl

\* ... a batch taken from the queue, ...
LEMMA DrainTyped ==
  ASSUME ctrl \in Ctrl, q \in Seq(Queue!Payload), DrainQueue
  PROVE  /\ ctrl' \in Ctrl /\ ctrl'.pc = "next" /\ ctrl'.batch = q /\ ctrl'.seq = ctrl.seq
<1>1. ctrl' = [ctrl EXCEPT !.pc = "next", !.batch = q, !.keys = {}]
  BY DEF DrainQueue
<1> QED BY <1>1 DEF Ctrl, CtrlPlaces

\* ... a number of the journal, ...
LEMMA NumberTyped ==
  ASSUME ctrl \in Ctrl, journalSeq \in Nat, CtrlSeq
  PROVE  /\ ctrl' \in Ctrl /\ ctrl'.pc = "line" /\ ctrl'.seq = journalSeq + 1
         /\ ctrl'.batch = ctrl.batch /\ ctrl'.cmd = ctrl.cmd /\ ctrl'.executed = ctrl.executed
         /\ ctrl'.reason = ctrl.reason
<1>1. ctrl' = [ctrl EXCEPT !.pc = "line", !.seq = journalSeq + 1] /\ journalSeq + 1 \in Nat
  BY DEF CtrlSeq
<1> QED BY <1>1 DEF Ctrl, CtrlPlaces, Working

\* ... the end of a command, ...
LEMMA TapedTyped ==
  ASSUME ctrl \in Ctrl, CtrlTape
  PROVE  /\ ctrl' \in Ctrl /\ ctrl'.pc = "next" /\ ctrl'.batch = ctrl.batch
<1>1. ctrl' = [ctrl EXCEPT !.pc = "next", !.cmd = NoCommand]
  BY DEF CtrlTape
<1> QED BY <1>1 DEF Ctrl, CtrlPlaces

\* ... the end of a batch by an exception, ...
LEMMA RaisedTyped ==
  ASSUME ctrl \in Ctrl, ExecuteRaises
  PROVE  /\ ctrl' \in Ctrl /\ ctrl'.pc = "table" /\ ctrl'.batch = <<>>
<1>1. ctrl' = [ctrl EXCEPT !.pc = "table", !.batch = <<>>, !.cmd = NoCommand]
  BY DEF ExecuteRaises
<1>2. <<>> \in Seq(Queue!Payload) /\ "table" \in CtrlPlaces
  BY DEF CtrlPlaces
<1> QED BY <1>1, <1>2 DEF Ctrl

\* ... and what is decided about the head of the batch.
LEMMA JudgedTyped ==
  ASSUME Typed, ctrl.pc = "next", ctrl.batch # <<>>,
         NEW executed \in BOOLEAN, NEW reason \in Queue!OutcomeReasons \cup {"none"},
         Judged(executed, reason)
  PROVE  /\ ctrl' \in Ctrl /\ ctrl'.pc = "outcome"
         /\ ctrl'.cmd = Head(ctrl.batch) /\ ctrl'.batch = Tail(ctrl.batch)
         /\ ctrl'.executed = executed /\ ctrl'.reason = reason
         /\ Head(ctrl.batch) \in Queue!Payload
<1> DEFINE h == Head(ctrl.batch)
           t == Tail(ctrl.batch)
           k == ctrl.keys \cup {Key(h)}
<1>1. ctrl \in Ctrl /\ ctrl.batch \in Seq(Queue!Payload) /\ ctrl.keys \in SUBSET (Sources \X Bodies)
  BY DEF Typed, Ctrl
<1>2. h \in Queue!Payload /\ t \in Seq(Queue!Payload)
  BY <1>1
<1>3. Key(h) \in Sources \X Bodies
  BY <1>2 DEF Key, Queue!Payload
<1>4. k \in SUBSET (Sources \X Bodies)
  BY <1>1, <1>3
<1>5. ctrl' = [ctrl EXCEPT !.pc = "outcome", !.batch = t, !.cmd = h, !.keys = k,
                           !.executed = executed, !.reason = reason]
  BY DEF Judged
<1> HIDE DEF h, t, k
<1>6. ctrl' \in Ctrl
  BY <1>1, <1>2, <1>4, <1>5 DEF Ctrl, CtrlPlaces, Working
<1>7. /\ ctrl'.pc = "outcome" /\ ctrl'.cmd = h /\ ctrl'.batch = t
      /\ ctrl'.executed = executed /\ ctrl'.reason = reason
  BY <1>1, <1>5 DEF Ctrl
<1> QED BY <1>2, <1>6, <1>7 DEF h, t

\* The ways a command of the batch is judged.
Judge(executed, reason) ==
  /\ ctrl.pc = "next" /\ ctrl.batch # <<>>
  /\ Judged(executed, reason)
  /\ UNCHANGED <<queueVars, fileVars, lock, http, server, answers>>

\* What the drain loop makes of a command: refused, executed and refused, or executed.
LEMMA JudgeCases ==
  ASSUME DuplicateInRoll \/ IllegalTiming \/ Execute \/ ExecuteRefused
  PROVE  \/ /\ \E r \in Queue!OutcomeReasons : Judge(FALSE, r)
            /\ UNCHANGED <<lastEffect, applied>>
         \/ Judge(TRUE, "none") /\ UNCHANGED <<lastEffect, applied>>
         \/ Judge(TRUE, "none") /\ Execute
  BY DEF DuplicateInRoll, IllegalTiming, Execute, ExecuteRefused, FirstInRoll, Judge, Queue!OutcomeReasons

\* Every step keeps the types.
LEMMA TypedStep ==
  ASSUME Typed, [Next]_vars
  PROVE  Typed'
<1>0. /\ q \in Seq(Queue!Payload) /\ ctrl \in Ctrl /\ http \in Http /\ journalSeq \in Nat
      /\ journal \in Seq(JournalLine) /\ tape \in Seq(TapeLine) /\ applied \in Seq(Cids)
      /\ lastEffect \in Cids \cup {NoCid} /\ ctrl.reason \in Queue!OutcomeReasons \cup {"none"}
      /\ ctrl.executed \in BOOLEAN
  BY DEF Typed, Ctrl
<1>1. ASSUME NEW c \in Queue!Command, Submit(c)
      PROVE  Typed'
  <2>1. CASE Queue!Accept(c)
    <3>1. q' \in Seq(Queue!Payload)
      BY <1>0, <2>1 DEF Queue!Accept, Queue!Payload, Queue!Command
    <3>2. UNCHANGED <<lock, http>>
      BY <1>1, <2>1 DEF Submit, Queue!Refuse, Queue!Accept, Queue!RefusalReasons, Queue!Forms
    <3> QED BY <1>1, <3>1, <3>2 DEF Submit, fileVars, Typed
  <2>2. CASE /\ Queue!Refuse(c) /\ lock' = "http"
             /\ http' = [pc |-> "seq", cmd |-> c, reason |-> Queue!Verdict(c), seq |-> 0]
    <3>1. Queue!Verdict(c) \in Queue!RefusalReasons /\ q' = q
      BY <2>2 DEF Queue!Refuse
    <3> DEFINE v == Queue!Verdict(c)
    <3>2. v \in Queue!RefusalReasons /\ http' = [pc |-> "seq", cmd |-> c, reason |-> v, seq |-> 0]
      BY <2>2, <3>1
    <3> HIDE DEF v
    <3>3. http' \in Http /\ http'.pc = "seq" /\ http'.cmd = c /\ http'.reason = v
      BY <3>2 DEF Http
    <3> QED BY <1>1, <2>2, <3>1, <3>2, <3>3 DEF Submit, fileVars, Typed
  <2> QED BY <1>1, <2>1, <2>2 DEF Submit
<1>2. ASSUME NEW c \in Queue!Command, NEW r, RefuseAtIngest(c, r)
      PROVE  Typed'
  BY <1>2 DEF RefuseAtIngest, queueVars, fileVars, Typed
<1>3. CASE HttpSeq
  <2>0. http' = [http EXCEPT !.pc = "line", !.seq = journalSeq + 1] /\ journalSeq + 1 \in Nat
    BY <1>0, <1>3 DEF HttpSeq
  <2>1. http' \in Http /\ http'.pc = "line" /\ http'.cmd = http.cmd /\ http'.reason = http.reason
    BY <1>0, <2>0 DEF Http
  <2> QED BY <1>0, <1>3, <2>1 DEF HttpSeq, queueVars, Typed
<1>4. CASE HttpLine
  <2>1. http' \in Http /\ http'.pc = "tape" /\ http'.cmd = http.cmd /\ http'.reason = http.reason
    BY <1>0, <1>4 DEF HttpLine, Http
  <2>2. http.cmd.cid \in Cids /\ http.seq \in Nat
    BY <1>0, <1>4 DEF HttpLine, Typed, Http, Queue!Command
  <2>3. [seq |-> http.seq, cid |-> http.cmd.cid, executed |-> FALSE, effect |-> lastEffect] \in JournalLine
    BY <1>0, <2>2 DEF JournalLine
  <2>4. journal' \in Seq(JournalLine)
    BY <1>0, <1>4, <2>3 DEF HttpLine
  <2> QED BY <1>0, <1>4, <2>1, <2>4 DEF HttpLine, queueVars, Typed
<1>5. CASE HttpTape
  <2>1. http' \in Http /\ http'.pc = "idle"
    BY <1>5 DEF HttpTape, Http
  <2>2. /\ http.cmd.cid \in Cids /\ http.seq \in Nat
        /\ http.reason \in Queue!Reasons \cup {"none"}
    BY <1>0, <1>5 DEF HttpTape, Typed, Http, Queue!Command, Queue!Reasons
  <2>3. [seq |-> http.seq, cid |-> http.cmd.cid, executed |-> FALSE, reason |-> http.reason] \in TapeLine
    BY <2>2 DEF TapeLine
  <2>4. tape' \in Seq(TapeLine)
    BY <1>0, <1>5, <2>3 DEF HttpTape
  <2> QED BY <1>0, <1>5, <2>1, <2>4 DEF HttpTape, queueVars, Typed
<1>6. CASE RollEvent
  BY <1>0, <1>6, GotoTyped DEF RollEvent, CtrlPlaces, Working, queueVars, fileVars, Typed
<1>7. CASE DrainQueue
  <2>1. q' = <<>> /\ UNCHANGED <<fileVars, lock, http, server, lastEffect, applied>>
    BY <1>7 DEF DrainQueue, Queue!Drain
  <2> QED BY <1>0, <2>1, <1>7, DrainTyped DEF fileVars, Working, Typed
<1>8. CASE DuplicateInRoll \/ IllegalTiming \/ Execute \/ ExecuteRefused
  <2>1. \/ \E r \in Queue!OutcomeReasons : Judge(FALSE, r)
        \/ Judge(TRUE, "none")
    BY <1>8, JudgeCases
  <2>2. \/ UNCHANGED <<lastEffect, applied>>
        \/ Execute /\ ctrl.pc = "next" /\ ctrl.batch # <<>>
    BY <1>8, JudgeCases DEF Judge
  <2>3. lastEffect' \in Cids \cup {NoCid} /\ applied' \in Seq(Cids)
    <3>1. CASE UNCHANGED <<lastEffect, applied>>
      BY <1>0, <3>1
    <3>2. CASE Execute /\ ctrl.pc = "next" /\ ctrl.batch # <<>>
      <4>1. ctrl.batch \in Seq(Queue!Payload)
        BY <1>0 DEF Ctrl
      <4>2. Head(ctrl.batch) \in Queue!Payload
        BY <3>2, <4>1
      <4>3. Head(ctrl.batch).cid \in Cids
        BY <4>2 DEF Queue!Payload
      <4> QED BY <1>0, <3>2, <4>3 DEF Execute
    <3> QED BY <2>2, <3>1, <3>2
  <2>4. ASSUME NEW executed \in BOOLEAN, NEW reason \in Queue!OutcomeReasons \cup {"none"},
               executed <=> reason = "none", Judge(executed, reason)
        PROVE  Typed'
    <3>1. /\ ctrl' \in Ctrl /\ ctrl'.pc = "outcome" /\ ctrl'.cmd \in Queue!Payload
          /\ (ctrl'.executed <=> ctrl'.reason = "none")
      BY <2>4, JudgedTyped DEF Judge
    <3>2. UNCHANGED <<q, http, lock, server, journalSeq, journal, tape>>
      BY <2>4 DEF Judge, queueVars, fileVars
    <3> QED BY <1>0, <2>3, <3>1, <3>2 DEF Typed, Working
  <2>5. "none" \notin Queue!OutcomeReasons
    BY DEF Queue!OutcomeReasons
  <2> QED BY <2>1, <2>4, <2>5
<1>9. CASE ExecuteRaises
  BY <1>0, <1>9, RaisedTyped DEF ExecuteRaises, queueVars, fileVars, Typed, Working
<1>10. CASE RecordOutcome
  <2>1. q' = q
    BY <1>10 DEF RecordOutcome, Queue!OutcomeExecuted, Queue!OutcomeRejected, queueVars
  <2>2. /\ ctrl' \in Ctrl /\ ctrl'.pc = "seq" /\ ctrl'.cmd = ctrl.cmd
        /\ ctrl'.executed = ctrl.executed /\ ctrl'.reason = ctrl.reason
    BY <1>0, <1>10, GotoTyped DEF RecordOutcome, CtrlPlaces, Working
  <2> QED BY <1>0, <1>10, <2>1, <2>2 DEF RecordOutcome, fileVars, Typed, Working
<1>11. CASE CtrlSeq
  BY <1>0, <1>11, NumberTyped DEF CtrlSeq, queueVars, Typed, Working
<1>12. CASE CtrlLine
  <2> DEFINE e == IF ctrl.reason = "timing" THEN NoCid ELSE lastEffect
             line == [seq |-> ctrl.seq, cid |-> ctrl.cmd.cid, executed |-> ctrl.executed, effect |-> e]
  <2>1. ctrl.cmd.cid \in Cids /\ ctrl.seq \in Nat /\ e \in Cids \cup {NoCid}
    BY <1>0, <1>12 DEF CtrlLine, Typed, Ctrl, Working, Queue!Payload
  <2>2. journal' = Append(journal, line)
    BY <1>12 DEF CtrlLine
  <2> HIDE DEF e
  <2>3. line \in JournalLine
    BY <1>0, <2>1 DEF JournalLine
  <2> HIDE DEF line
  <2>4. journal' \in Seq(JournalLine)
    BY <1>0, <2>2, <2>3
  <2>5. /\ ctrl' \in Ctrl /\ ctrl'.pc = "tape" /\ ctrl'.cmd = ctrl.cmd
        /\ ctrl'.executed = ctrl.executed /\ ctrl'.reason = ctrl.reason
    BY <1>0, <1>12, GotoTyped DEF CtrlLine, CtrlPlaces, Working
  <2> QED BY <1>0, <1>12, <2>4, <2>5 DEF CtrlLine, queueVars, Typed, Working
<1>13. CASE CtrlTape
  <2>1. ctrl.cmd.cid \in Cids /\ ctrl.seq \in Nat /\ ctrl.reason \in Queue!Reasons \cup {"none"}
    BY <1>0, <1>13 DEF CtrlTape, Typed, Ctrl, Working, Queue!Payload, Queue!Reasons
  <2>2. [seq |-> ctrl.seq, cid |-> ctrl.cmd.cid, executed |-> ctrl.executed, reason |-> ctrl.reason] \in TapeLine
    BY <1>0, <2>1 DEF TapeLine
  <2>3. tape' \in Seq(TapeLine)
    BY <1>0, <1>13, <2>2 DEF CtrlTape
  <2> QED BY <1>0, <1>13, <2>3, TapedTyped DEF CtrlTape, queueVars, Typed, Working
<1>14. CASE BatchDone
  BY <1>0, <1>14, GotoTyped DEF BatchDone, CtrlPlaces, Working, queueVars, fileVars, Typed
<1>15. CASE Finalize
  <2>1. \E p \in {"copy", "stop", "count", "raised", "bundle", "done"} : Goto(p)
    BY <1>15 DEF Finalize, FinalizeRun, CopyStats, CopyRaises, CountLines, Bundle, StopServer
  <2>2. /\ UNCHANGED <<q, http, lock, journalSeq, journal, tape, lastEffect, applied>>
        /\ server' \in {server, "down"} /\ ctrl.pc \notin Working \cup {"next"}
    BY <1>15 DEF Finalize, FinalizeRun, CopyStats, CopyRaises, CountLines, Bundle, StopServer,
                 queueVars, fileVars, Working
  <2>3. ctrl' \in Ctrl /\ ctrl'.pc \notin Working \cup {"next"} /\ ctrl'.batch = ctrl.batch
    BY <1>0, <2>1, GotoTyped DEF CtrlPlaces, Working
  <2> QED BY <1>0, <2>2, <2>3 DEF Typed
<1>16. CASE Clock
  BY <1>16 DEF Clock, Queue!Tick, fileVars, Typed
<1>17. CASE UNCHANGED vars
  BY <1>17 DEF vars, queueVars, fileVars, Typed
<1> QED
  BY <1>1, <1>2, <1>3, <1>4, <1>5, <1>6, <1>7, <1>8, <1>9, <1>10, <1>11, <1>12, <1>13, <1>14, <1>15, <1>16, <1>17
  DEF Next, HttpStep, CtrlStep

---------------------------------------------------------------------------
(* The use of the queue. *)

\* What a thread does to the queue, if anything, is what the queue lets be done.
LEMMA QueueStep ==
  ASSUME Typed, [Next]_vars
  PROVE  Queue!Next \/ UNCHANGED queueVars
<1>1. ASSUME NEW c \in Queue!Command, Submit(c)
      PROVE  Queue!Next
  BY <1>1 DEF Submit, Queue!Next, Queue!Enqueue
<1>2. CASE DrainQueue
  BY <1>2 DEF DrainQueue, Queue!Next
<1>3. CASE RecordOutcome
  <2>1. ctrl.cmd \in Queue!Payload /\ (ctrl.executed <=> ctrl.reason = "none")
    BY <1>3 DEF RecordOutcome, Typed, Working
  <2>2. ctrl.cmd.source \in Sources /\ (~ctrl.executed => ctrl.reason \in Queue!OutcomeReasons)
    BY <2>1 DEF Typed, Ctrl, Queue!Payload
  <2> QED BY <1>3, <2>2 DEF RecordOutcome, Queue!Next
<1>4. CASE Clock
  BY <1>4 DEF Clock, Queue!Next
<1>5. CASE \/ \E c \in Queue!Command, r \in {"active", "other"} : RefuseAtIngest(c, r)
           \/ HttpStep \/ RollEvent \/ DuplicateInRoll \/ IllegalTiming \/ Execute \/ ExecuteRefused
           \/ ExecuteRaises \/ CtrlSeq \/ CtrlLine \/ CtrlTape \/ BatchDone \/ Finalize
           \/ UNCHANGED vars
  BY <1>5
  DEF RefuseAtIngest, HttpStep, HttpSeq, HttpLine, HttpTape, RollEvent, DuplicateInRoll,
      IllegalTiming, Execute, ExecuteRefused, ExecuteRaises, CtrlSeq, CtrlLine, CtrlTape, BatchDone,
      Finalize, FinalizeRun, CopyStats, CopyRaises, CountLines, Bundle, StopServer, vars
<1> QED
  BY <1>1, <1>2, <1>3, <1>4, <1>5 DEF Next, CtrlStep

\* The initial state is well typed.
LEMMA TypedAtFirst ==
  ASSUME Init
  PROVE  Typed
<1>1. q = <<>> /\ q \in Seq(Queue!Payload)
  BY DEF Init, Queue!Init
<1>2. ctrl \in Ctrl /\ ctrl.pc = "table" /\ ctrl.batch = <<>>
  BY DEF Init, Ctrl, CtrlPlaces
<1>3. http \in Http /\ http.pc = "idle"
  BY DEF Init, Http
<1> QED BY <1>1, <1>2, <1>3 DEF Init, Typed, Working

\* Every reachable state is well typed.
LEMMA TypesKept == Spec => []Typed
<1>1. Init => Typed
  BY TypedAtFirst
<1>2. Typed /\ [Next]_vars => Typed'
  BY TypedStep
<1> QED BY <1>1, <1>2, PTL DEF Spec

\* Every behaviour of the two threads is, for the queue, a behaviour that
\* CommandQueue allows: nobody reaches into it but by `enqueue`, `drain` and
\* `record_outcome`, with outcomes that the queue knows (the callers of
\* external/command_channel.py).
THEOREM QueueUsed == Spec => Queue!Spec
<1>1. Init => Queue!Init
  BY DEF Init
<1>2. Typed /\ [Next]_vars => [Queue!Next]_(Queue!vars)
  <2> SUFFICES ASSUME Typed, [Next]_vars
               PROVE  Queue!Next \/ UNCHANGED Queue!vars
    OBVIOUS
  <2>1. Queue!Next \/ UNCHANGED queueVars
    BY QueueStep
  <2> QED BY <2>1 DEF queueVars, Queue!vars, Queue!queueVars, Queue!history
<1> QED BY <1>1, <1>2, TypesKept, PTL DEF Spec, Queue!Spec

\* The limits of the queue inside the pipeline are limits of a queue.
LEMMA QueueConstantsHold == QueueProofs!QueueConstants
  BY QueueLimits DEF Queue!QueueConstants, QueueProofs!QueueConstants

\* The two instances of CommandQueue are one.
LEMMA SameQueue == Queue!Spec => QueueProofs!Spec
<1>1. Queue!Init => QueueProofs!Init
  BY DEF Queue!Init, QueueProofs!Init, Queue!Reasons, QueueProofs!Reasons, Queue!RefusalReasons,
         QueueProofs!RefusalReasons, Queue!Forms, QueueProofs!Forms, Queue!OutcomeReasons,
         QueueProofs!OutcomeReasons
<1>2. ASSUME [Queue!Next]_(Queue!vars)
      PROVE  [QueueProofs!Next]_(QueueProofs!vars)
  <2>0. /\ Queue!Command = QueueProofs!Command /\ Queue!Forms = QueueProofs!Forms
        /\ Queue!RefusalReasons = QueueProofs!RefusalReasons
        /\ Queue!OutcomeReasons = QueueProofs!OutcomeReasons
    BY DEF Queue!Command, QueueProofs!Command, Queue!Forms, QueueProofs!Forms, Queue!RefusalReasons, QueueProofs!RefusalReasons, Queue!OutcomeReasons, QueueProofs!OutcomeReasons
  <2>3. \A s : Queue!GetLimiter(s) = QueueProofs!GetLimiter(s)
    BY DEF Queue!GetLimiter, QueueProofs!GetLimiter
  <2>4. \A l : Queue!Refilled(l) = QueueProofs!Refilled(l)
    BY DEF Queue!Refilled, QueueProofs!Refilled
  <2>5. ASSUME NEW c PROVE Queue!Verdict(c) = QueueProofs!Verdict(c)
    BY <2>3, <2>4 DEF Queue!Verdict, QueueProofs!Verdict, Queue!HasToken, QueueProofs!HasToken, Queue!BreakerAllows, QueueProofs!BreakerAllows
  <2>6. ASSUME NEW c PROVE Queue!AskLimiter(c) <=> QueueProofs!AskLimiter(c)
    BY <2>3, <2>4, <2>5 DEF Queue!AskLimiter, QueueProofs!AskLimiter, Queue!AfterAllow, QueueProofs!AfterAllow, Queue!PutLimiter, QueueProofs!PutLimiter
  <2>7. ASSUME NEW s, NEW ok PROVE Queue!Record(s, ok) <=> QueueProofs!Record(s, ok)
    BY DEF Queue!Record, QueueProofs!Record, Queue!Recorded, QueueProofs!Recorded
  <2>8. ASSUME NEW c \in Queue!Command, Queue!Enqueue(c) PROVE QueueProofs!Next
    <3>1. CASE Queue!Refuse(c)
      BY <2>0, <2>5, <2>6, <2>7, <3>1 DEF Queue!Refuse, QueueProofs!Refuse, QueueProofs!Enqueue, QueueProofs!Next
    <3>2. CASE Queue!Accept(c)
      BY <2>0, <2>5, <2>6, <3>2 DEF Queue!Accept, QueueProofs!Accept, QueueProofs!Enqueue, QueueProofs!Next
    <3> QED BY <2>8, <3>1, <3>2 DEF Queue!Enqueue
  <2>9. CASE Queue!Drain
    BY <2>9 DEF Queue!Drain, QueueProofs!Drain, QueueProofs!Next
  <2>10. ASSUME NEW s \in Sources, Queue!OutcomeExecuted(s) PROVE QueueProofs!Next
    BY <2>7, <2>10 DEF Queue!OutcomeExecuted, QueueProofs!OutcomeExecuted, QueueProofs!Next
  <2>11. ASSUME NEW s \in Sources, NEW r \in Queue!OutcomeReasons, Queue!OutcomeRejected(s, r)
         PROVE  QueueProofs!Next
    BY <2>0, <2>7, <2>11 DEF Queue!OutcomeRejected, QueueProofs!OutcomeRejected, QueueProofs!Next
  <2>12. CASE Queue!Tick
    BY <2>12 DEF Queue!Tick, QueueProofs!Tick, Queue!history, QueueProofs!history, QueueProofs!Next
  <2>1. CASE Queue!Next
    BY <2>1, <2>8, <2>9, <2>10, <2>11, <2>12 DEF Queue!Next
  <2>2. CASE UNCHANGED Queue!vars
    BY <2>2 DEF Queue!vars, Queue!queueVars, Queue!history, QueueProofs!vars, QueueProofs!queueVars,
                QueueProofs!history
  <2> QED BY <1>2, <2>1, <2>2
<1> QED BY <1>1, <1>2, PTL DEF Queue!Spec, QueueProofs!Spec

\* In the pipeline the queue keeps its types, counts and limits, and hands every
\* command over once and in the order of acceptance.
THEOREM QueueCorrect ==
  Spec => [](/\ QueueProofs!TypeOK /\ QueueProofs!CountsMatchQueue /\ QueueProofs!LimitsHeld
             /\ QueueProofs!HandedOverInOrder /\ QueueProofs!AcceptedAtMostOnce
             /\ QueueProofs!SeenIsAccepted)
<1>1. QueueProofs!QueueConstants
  BY QueueConstantsHold
<1>2. QueueProofs!Spec => []QueueProofs!TypeOK
  BY <1>1, QueueProofs!TypeCorrect
<1>3. QueueProofs!Spec => []QueueProofs!CountsMatchQueue
  BY <1>1, QueueProofs!CountsCorrect
<1>4. QueueProofs!Spec => []QueueProofs!LimitsHeld
  BY <1>1, QueueProofs!LimitsCorrect
<1>5. QueueProofs!Spec => []QueueProofs!HandedOverInOrder
  BY <1>1, QueueProofs!OrderCorrect
<1>6. QueueProofs!Spec => [](QueueProofs!SeenIsAccepted /\ QueueProofs!AcceptedAtMostOnce)
  BY <1>1, QueueProofs!SeenCorrect
<1>7. Spec => QueueProofs!Spec
  BY QueueUsed, SameQueue
<1> QED BY <1>2, <1>3, <1>4, <1>5, <1>6, <1>7, PTL

Report == [rejected : [Queue!Reasons -> Nat], executed : Nat, did : Nat, didNot : Nat, tape : Seq(TapeLine)]

\* The report is filled in only by finalize_run.
LEMMA ReportStep ==
  ASSUME Typed, stats \in Queue!Stats, report \in Report, [Next]_vars
  PROVE  report' \in Report
<1>0. /\ stats.rejected \in [Queue!Reasons -> Nat] /\ stats.executed \in Nat
      /\ tape \in Seq(TapeLine) /\ journal \in Seq(JournalLine)
      /\ report.rejected \in [Queue!Reasons -> Nat]
  BY DEF Queue!Stats, Typed, Report
<1>1. CASE FinalizeRun
  BY <1>0, <1>1 DEF FinalizeRun, Report
<1>2. CASE CopyStats
  <2>1. PICK late \in SUBSET {r \in Queue!Reasons : report.rejected[r] # stats.rejected[r]} :
          report' = [report EXCEPT !.executed = stats.executed,
                       !.rejected = [r \in Queue!Reasons |-> IF r \in late THEN stats.rejected[r] ELSE @[r]]]
    BY <1>2 DEF CopyStats
  <2> DEFINE copy == [r \in Queue!Reasons |-> IF r \in late THEN stats.rejected[r] ELSE report.rejected[r]]
  <2>2. copy \in [Queue!Reasons -> Nat] /\ report' = [report EXCEPT !.executed = stats.executed, !.rejected = copy]
    BY <1>0, <2>1
  <2> HIDE DEF copy
  <2> QED BY <1>0, <2>2 DEF Report
<1>3. CASE CopyRaises
  BY <1>3 DEF CopyRaises, NoReport, Report
<1>4. CASE CountLines
  <2>1. ASSUME NEW e PROVE Cardinality(LinesWith(e)) \in Nat
    <3>1. DOMAIN journal = 1..Len(journal) /\ Len(journal) \in Nat
      BY <1>0
    <3>2. LinesWith(e) \subseteq 1..Len(journal)
      BY <3>1 DEF LinesWith
    <3>3. IsFiniteSet(1..Len(journal))
      BY <3>1, FS_Interval
    <3> QED BY <3>2, <3>3, FS_Subset, FS_CardinalityType
  <2> QED BY <1>4, <2>1 DEF CountLines, Report
<1>5. CASE Bundle
  BY <1>0, <1>5 DEF Bundle, Report
<1>6. CASE StopServer
  BY <1>6 DEF StopServer, fileVars
<1>7. CASE ~Finalize
  BY <1>7
  DEF Submit, RefuseAtIngest, HttpStep, HttpSeq, HttpLine, HttpTape, RollEvent, DuplicateInRoll,
      IllegalTiming, Execute, ExecuteRefused, ExecuteRaises, CtrlSeq, CtrlLine, CtrlTape, BatchDone,
      vars, fileVars, DrainQueue, RecordOutcome, Clock, Next, CtrlStep
<1> QED BY <1>1, <1>2, <1>3, <1>4, <1>5, <1>6, <1>7 DEF Finalize

\* The queue's types, under either name of the instance.
LEMMA SameTypes == QueueProofs!TypeOK => Queue!TypeOK /\ stats \in Queue!Stats
  BY DEF QueueProofs!TypeOK, Queue!TypeOK, QueueProofs!Stats, Queue!Stats, QueueProofs!Reasons, Queue!Reasons,
         QueueProofs!RefusalReasons, Queue!RefusalReasons, QueueProofs!Forms, Queue!Forms,
         QueueProofs!OutcomeReasons, Queue!OutcomeReasons, QueueProofs!Payload, Queue!Payload,
         QueueProofs!Limiter, Queue!Limiter, QueueProofs!Breaker, Queue!Breaker,
         QueueProofs!Acceptance, Queue!Acceptance, QueueProofs!Result, Queue!Result

\* The queue's statistics are numbers per source and reason.
LEMMA StatsTyped == Spec => [](stats \in Queue!Stats)
  BY SameTypes, QueueCorrect, PTL

\* The report keeps its type.
LEMMA ReportTyped == Spec => [](report \in Report)
<1>1. Init => report \in Report
  <2>1. <<>> \in Seq(TapeLine) /\ [r \in Queue!Reasons |-> 0] \in [Queue!Reasons -> Nat]
    OBVIOUS
  <2> QED BY <2>1 DEF Init, NoReport, Report
<1>2. Typed /\ stats \in Queue!Stats /\ report \in Report /\ [Next]_vars => (report \in Report)'
  BY ReportStep
<1> QED BY <1>1, <1>2, TypesKept, StatsTyped, PTL DEF Spec

\* The answers given are a number.
LEMMA AnswersCounted == Spec => [](answers \in Nat)
<1>1. Init => answers \in Nat
  BY DEF Init
<1>2. answers \in Nat /\ [Next]_vars => (answers \in Nat)'
  <2> SUFFICES ASSUME answers \in Nat, [Next]_vars PROVE answers' \in Nat
    OBVIOUS
  <2>1. answers' = answers \/ answers' = answers + 1
    BY Zenon
    DEF Answer, Next, Submit, RefuseAtIngest, HttpStep, HttpSeq, HttpLine, HttpTape, CtrlStep, RollEvent,
        DrainQueue, DuplicateInRoll, IllegalTiming, Execute, ExecuteRefused, ExecuteRaises,
        RecordOutcome, CtrlSeq, CtrlLine, CtrlTape, BatchDone, Finalize, FinalizeRun, CopyStats,
        CopyRaises, CountLines, Bundle, StopServer, Clock, vars
  <2> QED BY <2>1
<1> QED BY <1>1, <1>2, PTL DEF Spec

\* Every variable of the pipeline keeps its type, in particular every line of the
\* journal and of the tape, and what finalize_run copies while the queue is in use.
THEOREM TypeCorrect == Spec => []TypeOK
<1>1. Typed /\ QueueProofs!TypeOK /\ report \in Report /\ answers \in Nat => TypeOK
  <2> SUFFICES ASSUME Typed, QueueProofs!TypeOK, report \in Report, answers \in Nat PROVE TypeOK
    OBVIOUS
  <2>1. Queue!TypeOK
    BY SameTypes
  <2>2. ctrl.batch \in Seq(Queue!Payload) /\ ctrl.pc \in CtrlPlaces /\ http.pc \in {"idle", "seq", "line", "tape"}
    BY DEF Typed, Ctrl, Http
  <2>3. (http.pc = "idle") = (lock = "free")
    BY DEF Typed
  <2>4. /\ ctrl.pc \in {"outcome", "seq", "line", "tape"} => ctrl.cmd \in Queue!Payload
        /\ http.pc # "idle" => http.cmd \in Queue!Command
    BY DEF Typed, Working
  <2>5. ctrl.pc \in {"table", "drain", "next", "outcome", "seq", "line", "tape",
                    "copy", "count", "bundle", "stop", "done", "raised"}
    BY <2>2 DEF CtrlPlaces, Working
  <2>6. /\ lock \in {"free", "http"} /\ server \in {"up", "down"} /\ journalSeq \in Nat
        /\ journal \in Seq(JournalLine) /\ tape \in Seq(TapeLine)
        /\ lastEffect \in Cids \cup {NoCid} /\ applied \in Seq(Cids)
    BY DEF Typed
  <2>7. report \in [rejected : [Queue!Reasons -> Nat], executed : Nat, did : Nat, didNot : Nat,
                    tape : Seq(TapeLine)]
    BY DEF Report
  <2> QED BY <2>1, <2>2, <2>3, <2>4, <2>5, <2>6, <2>7 DEF TypeOK
<1> QED BY <1>1, ReportTyped, AnswersCounted, TypesKept, QueueCorrect, PTL

---------------------------------------------------------------------------
(* What reaches the adapter. *)

\* What was handed over is distinct and was accepted.
HandedOverOnce ==
  /\ delivered \in Seq(Queue!Payload)
  /\ \A i, j \in DOMAIN delivered : delivered[i].cid = delivered[j].cid => i = j
  /\ \A i \in DOMAIN delivered : delivered[i].cid \in seen

\* What was accepted is what was drained and what is queued: from the queue alone.
LEMMA HandedOver == Spec => []HandedOverOnce
<1>1. ASSUME QueueProofs!TypeOK, QueueProofs!HandedOverInOrder, QueueProofs!AcceptedAtMostOnce,
             QueueProofs!SeenIsAccepted
      PROVE  HandedOverOnce
  <2>1. /\ q \in Seq(QueueProofs!Payload) /\ delivered \in Seq(QueueProofs!Payload)
        /\ accepted \in Seq(QueueProofs!Acceptance)
    BY <1>1 DEF QueueProofs!TypeOK
  <2>2. \A i \in DOMAIN delivered : i \in DOMAIN accepted /\ (delivered \o q)[i] = delivered[i]
    BY <1>1, <2>1 DEF QueueProofs!HandedOverInOrder
  <2>3. \A i \in DOMAIN delivered : i \in DOMAIN accepted /\ delivered[i].cid = accepted[i].cid
    BY <1>1, <2>2 DEF QueueProofs!HandedOverInOrder
  <2>4. \A i, j \in DOMAIN delivered : delivered[i].cid = delivered[j].cid => i = j
    BY <1>1, <2>3 DEF QueueProofs!AcceptedAtMostOnce
  <2>5. \A i \in DOMAIN delivered : delivered[i].cid \in seen
    BY <1>1, <2>3 DEF QueueProofs!SeenIsAccepted
  <2> QED BY <2>1, <2>4, <2>5 DEF HandedOverOnce, Queue!Payload, QueueProofs!Payload
<1> QED BY <1>1, QueueCorrect, PTL

\* How many of the commands handed over the controller has taken up, or dropped.
Taken == Len(delivered) - Len(ctrl.batch)

\* The batch is what remains of the commands handed over, and what the adapter
\* applied is among those before it.
BatchIsRest ==
  /\ Len(ctrl.batch) <= Len(delivered)
  /\ \A i \in DOMAIN ctrl.batch : ctrl.batch[i] = delivered[Taken + i]

AppliedAreTaken == \A n \in DOMAIN applied : \E i \in 1..Taken : applied[n] = delivered[i].cid

AppliedDiffer == \A m, n \in DOMAIN applied : applied[m] = applied[n] => m = n

\* The steps, as far as the batch, what was handed over and the adapter are concerned.
LEMMA BatchSteps ==
  ASSUME Typed, [Next]_vars
  PROVE  \/ delivered' = delivered /\ applied' = applied /\ ctrl'.batch = ctrl.batch
         \/ /\ delivered' = delivered \o q /\ applied' = applied
            /\ ctrl.batch = <<>> /\ ctrl'.batch = q
         \/ /\ delivered' = delivered /\ ctrl.batch # <<>> /\ ctrl'.batch = Tail(ctrl.batch)
            /\ applied' \in {applied, Append(applied, Head(ctrl.batch).cid)}
         \/ delivered' = delivered /\ applied' = applied /\ ctrl'.batch = <<>>
<1>0. ctrl \in Ctrl /\ journalSeq \in Nat
  BY DEF Typed
<1>1. ASSUME NEW c \in Queue!Command, Submit(c)
      PROVE  delivered' = delivered /\ applied' = applied /\ ctrl' = ctrl
  BY <1>1 DEF Submit, Queue!Accept, Queue!Refuse
<1>2. CASE \/ \E c \in Queue!Command, r \in {"active", "other"} : RefuseAtIngest(c, r)
           \/ HttpStep \/ Clock \/ UNCHANGED vars
  BY <1>2 DEF RefuseAtIngest, HttpStep, HttpSeq, HttpLine, HttpTape, Clock, Queue!Tick, Queue!history,
              vars, queueVars
<1>3. CASE RollEvent \/ BatchDone \/ CtrlLine
  BY <1>0, <1>3, GotoTyped DEF RollEvent, BatchDone, CtrlLine, queueVars, CtrlPlaces, Working
<1>4. CASE Finalize
  <2>1. \E p \in {"copy", "stop", "count", "raised", "bundle", "done"} : Goto(p)
    BY <1>4 DEF Finalize, FinalizeRun, CopyStats, CopyRaises, CountLines, Bundle, StopServer
  <2>2. delivered' = delivered /\ applied' = applied
    BY <1>4 DEF Finalize, FinalizeRun, CopyStats, CopyRaises, CountLines, Bundle, StopServer, queueVars
  <2> QED BY <1>0, <2>1, <2>2, GotoTyped DEF CtrlPlaces, Working
<1>5. CASE DrainQueue
  <2>1. ctrl.batch = <<>>
    BY <1>5 DEF DrainQueue, Typed, Working
  <2> QED BY <1>0, <1>5, <2>1, DrainTyped DEF DrainQueue, Queue!Drain, Typed
<1>6. CASE DuplicateInRoll \/ IllegalTiming \/ Execute \/ ExecuteRefused
  <2>1. \E e \in BOOLEAN, r \in Queue!OutcomeReasons \cup {"none"} : Judge(e, r)
    BY <1>6, JudgeCases
  <2>2. ctrl.batch # <<>> /\ ctrl'.batch = Tail(ctrl.batch) /\ delivered' = delivered
    BY <2>1, JudgedTyped DEF Judge, queueVars
  <2>3. applied' \in {applied, Append(applied, Head(ctrl.batch).cid)}
    BY <1>6, JudgeCases DEF Execute
  <2> QED BY <2>2, <2>3
<1>7. CASE ExecuteRaises
  BY <1>0, <1>7, RaisedTyped DEF ExecuteRaises, queueVars
<1>8. CASE RecordOutcome
  <2>1. delivered' = delivered
    BY <1>8 DEF RecordOutcome, Queue!OutcomeExecuted, Queue!OutcomeRejected
  <2> QED BY <1>0, <1>8, <2>1, GotoTyped DEF RecordOutcome, CtrlPlaces, Working
<1>9. CASE CtrlSeq
  BY <1>0, <1>9, NumberTyped DEF CtrlSeq, queueVars
<1>10. CASE CtrlTape
  BY <1>0, <1>10, TapedTyped DEF CtrlTape, queueVars
<1> QED
  BY <1>1, <1>2, <1>3, <1>4, <1>5, <1>6, <1>7, <1>8, <1>9, <1>10 DEF Next, CtrlStep

\* A step keeps apart what was applied, what is in hand and what is queued.
LEMMA AppliedStep ==
  ASSUME Typed, HandedOverOnce, BatchIsRest, AppliedAreTaken, AppliedDiffer, [Next]_vars
  PROVE  BatchIsRest' /\ AppliedAreTaken' /\ AppliedDiffer'
<1>0. /\ delivered \in Seq(Queue!Payload) /\ ctrl.batch \in Seq(Queue!Payload)
      /\ q \in Seq(Queue!Payload) /\ applied \in Seq(Cids)
      /\ Len(ctrl.batch) <= Len(delivered)
      /\ Len(ctrl.batch) \in Nat /\ Len(delivered) \in Nat
  BY DEF HandedOverOnce, Typed, Ctrl, BatchIsRest
<1>1. CASE delivered' = delivered /\ applied' = applied /\ ctrl'.batch = ctrl.batch
  BY <1>1 DEF BatchIsRest, AppliedAreTaken, AppliedDiffer, Taken
<1>2. CASE /\ delivered' = delivered \o q /\ applied' = applied
           /\ ctrl.batch = <<>> /\ ctrl'.batch = q
  <2>1. Taken = Len(delivered) /\ Taken' = Len(delivered) /\ Len(delivered') = Len(delivered) + Len(q)
    BY <1>0, <1>2 DEF Taken
  <2>2. BatchIsRest'
    BY <1>0, <1>2, <2>1 DEF BatchIsRest
  <2>3. \A i \in 1..Len(delivered) : delivered'[i] = delivered[i]
    BY <1>0, <1>2
  <2>4. AppliedAreTaken'
    BY <1>2, <2>1, <2>3 DEF AppliedAreTaken
  <2> QED BY <1>2, <2>2, <2>4 DEF AppliedDiffer
<1>3. CASE /\ delivered' = delivered /\ ctrl.batch # <<>> /\ ctrl'.batch = Tail(ctrl.batch)
           /\ applied' \in {applied, Append(applied, Head(ctrl.batch).cid)}
  <2>1. /\ Len(ctrl'.batch) = Len(ctrl.batch) - 1 /\ Len(ctrl.batch) >= 1
        /\ \A i \in DOMAIN ctrl'.batch : i + 1 \in DOMAIN ctrl.batch /\ ctrl'.batch[i] = ctrl.batch[i + 1]
    BY <1>0, <1>3
  <2>2. Taken' = Taken + 1 /\ Taken \in Nat /\ Taken + 1 \in DOMAIN delivered
    <3>1. Taken' = Len(delivered) - (Len(ctrl.batch) - 1)
      BY <1>3, <2>1 DEF Taken
    <3>2. Taken \in Nat /\ Taken' = Taken + 1 /\ Taken + 1 <= Len(delivered)
      BY <1>0, <2>1, <3>1 DEF Taken
    <3> QED BY <1>0, <3>2
  <2>3. BatchIsRest'
    <3>1. \A i \in DOMAIN ctrl'.batch : ctrl'.batch[i] = delivered[Taken + (i + 1)]
      BY <2>1 DEF BatchIsRest
    <3>2. \A i \in DOMAIN ctrl'.batch : i \in Nat /\ Taken + (i + 1) = Taken' + i
      <4> TAKE i \in DOMAIN ctrl'.batch
      <4>1. Tail(ctrl.batch) \in Seq(Queue!Payload)
        BY <1>0, <1>3
      <4>2. i \in Nat
        BY <1>3, <4>1
      <4> QED BY <2>2, <4>2
    <3>3. Len(ctrl'.batch) <= Len(delivered')
      BY <1>0, <1>3, <2>1
    <3> QED BY <1>3, <3>1, <3>2, <3>3 DEF BatchIsRest
  <2>4. Head(ctrl.batch) = delivered[Taken + 1]
    BY <1>0, <1>3, <2>1 DEF BatchIsRest
  <2>5. CASE applied' = applied
    BY <1>3, <2>2, <2>3, <2>5 DEF AppliedAreTaken, AppliedDiffer
  <2>6. CASE applied' = Append(applied, Head(ctrl.batch).cid)
    <3>1. \A n \in DOMAIN applied : applied[n] # delivered[Taken + 1].cid
      <4> SUFFICES ASSUME NEW n \in DOMAIN applied, applied[n] = delivered[Taken + 1].cid
                   PROVE  FALSE
        OBVIOUS
      <4>1. PICK i \in 1..Taken : applied[n] = delivered[i].cid
        BY DEF AppliedAreTaken
      <4>2. i \in DOMAIN delivered /\ i # Taken + 1
        BY <1>0, <2>2
      <4> QED BY <2>2, <4>1, <4>2 DEF HandedOverOnce
    <3> DEFINE h == Head(ctrl.batch).cid
    <3>2. h = delivered[Taken + 1].cid /\ applied' = Append(applied, h)
      BY <2>4, <2>6
    <3> HIDE DEF h
    <3>3. AppliedDiffer'
      BY <1>0, <3>1, <3>2 DEF AppliedDiffer
    <3>4. AppliedAreTaken'
      BY <1>0, <1>3, <2>2, <3>2, SMTT(30) DEF AppliedAreTaken
    <3> QED BY <2>3, <3>3, <3>4
  <2> QED BY <1>3, <2>5, <2>6
<1>4. CASE delivered' = delivered /\ applied' = applied /\ ctrl'.batch = <<>>
  BY <1>0, <1>4 DEF BatchIsRest, AppliedAreTaken, AppliedDiffer, Taken
<1> QED BY <1>1, <1>2, <1>3, <1>4, BatchSteps

\* What was applied was taken from the queue, once each, and the batch is the rest of it.
LEMMA AppliedInvariant == Spec => [](BatchIsRest /\ AppliedAreTaken /\ AppliedDiffer)
<1> DEFINE Inv == BatchIsRest /\ AppliedAreTaken /\ AppliedDiffer
<1>1. Init => Inv
  <2> SUFFICES ASSUME Init PROVE Inv
    OBVIOUS
  <2>1. delivered = <<>> /\ applied = <<>> /\ ctrl.batch = <<>>
    BY DEF Init, Queue!Init
  <2> QED BY <2>1 DEF BatchIsRest, AppliedAreTaken, AppliedDiffer, Taken
<1>2. Typed /\ HandedOverOnce /\ Inv /\ [Next]_vars => Inv'
  BY AppliedStep
<1> QED BY <1>1, <1>2, TypesKept, HandedOver, PTL DEF Spec

\* However the two threads interleave, and whatever raises, the adapter is given
\* each accepted command at most once and nothing that was not accepted (the
\* drain loop of `_apply_external_commands`).
THEOREM AppliedOnceCorrect == Spec => []AppliedOnce
<1>1. Typed /\ HandedOverOnce /\ AppliedAreTaken /\ AppliedDiffer => AppliedOnce
  <2> SUFFICES ASSUME Typed, HandedOverOnce, AppliedAreTaken, AppliedDiffer PROVE AppliedOnce
    OBVIOUS
  <2>1. ASSUME NEW n \in DOMAIN applied PROVE applied[n] \in seen
    <3>1. PICK i \in 1..Taken : applied[n] = delivered[i].cid
      BY DEF AppliedAreTaken
    <3>2. Len(ctrl.batch) \in Nat /\ Len(delivered) \in Nat /\ delivered \in Seq(Queue!Payload)
      BY DEF Typed, Ctrl, HandedOverOnce
    <3>3. i \in DOMAIN delivered
      BY <3>2 DEF Taken
    <3> QED BY <3>1, <3>3 DEF HandedOverOnce
  <2> QED BY <2>1 DEF AppliedOnce, AppliedDiffer
<1> QED BY <1>1, AppliedInvariant, TypesKept, HandedOver, PTL

---------------------------------------------------------------------------
(* The journal and the tape. *)

\* The journal's numbers are used once.  A thread that has taken a number and not
\* written its line is the only one to have it; one that has written the line and
\* not the tape finds it in the journal.
JournalNumbered ==
  /\ \A i \in DOMAIN journal : journal[i].seq \in 1..journalSeq
  /\ \A i, j \in DOMAIN journal : journal[i].seq = journal[j].seq => i = j

Unused(n, last, lines) == n \in 1..last /\ \A i \in DOMAIN lines : lines[i].seq # n

NumbersInHand ==
  /\ http.pc = "line" => Unused(http.seq, journalSeq, journal)
  /\ ctrl.pc = "line" => Unused(ctrl.seq, journalSeq, journal)
  /\ http.pc = "line" /\ ctrl.pc = "line" => http.seq # ctrl.seq

Written(n, cid, executed, lines) ==
  \E j \in DOMAIN lines : lines[j].seq = n /\ lines[j].cid = cid /\ lines[j].executed = executed

LinesInHand ==
  /\ http.pc = "tape" => Written(http.seq, http.cmd.cid, FALSE, journal)
  /\ ctrl.pc = "tape" => Written(ctrl.seq, ctrl.cmd.cid, ctrl.executed, journal)

TapeWritten == \A i \in DOMAIN tape : Written(tape[i].seq, tape[i].cid, tape[i].executed, journal)

Citing == JournalNumbered /\ NumbersInHand /\ LinesInHand /\ TapeWritten

\* The steps, as far as the two files are concerned.
LEMMA FileSteps ==
  ASSUME Typed, [Next]_vars
  PROVE  \/ HttpSeq \/ HttpLine \/ HttpTape \/ CtrlSeq \/ CtrlLine \/ CtrlTape
         \/ /\ UNCHANGED <<journalSeq, journal, tape>>
            /\ http' = http \/ http'.pc = "seq"
            /\ ctrl' = ctrl \/ ctrl'.pc \notin {"line", "tape"}
<1>0. ctrl \in Ctrl
  BY DEF Typed
<1>1. ASSUME NEW c \in Queue!Command, Submit(c)
      PROVE  /\ UNCHANGED <<journalSeq, journal, tape>> /\ ctrl' = ctrl
             /\ http' = http \/ http'.pc = "seq"
  BY <1>1 DEF Submit, fileVars
<1>2. CASE \/ \E c \in Queue!Command, r \in {"active", "other"} : RefuseAtIngest(c, r)
           \/ Clock \/ UNCHANGED vars
  BY <1>2 DEF RefuseAtIngest, Clock, vars, fileVars
<1>3. CASE RollEvent \/ BatchDone \/ RecordOutcome
  BY <1>0, <1>3, GotoTyped DEF RollEvent, BatchDone, RecordOutcome, fileVars, CtrlPlaces, Working
<1>4. CASE Finalize
  <2>1. \E p \in {"copy", "stop", "count", "raised", "bundle", "done"} : Goto(p)
    BY <1>4 DEF Finalize, FinalizeRun, CopyStats, CopyRaises, CountLines, Bundle, StopServer
  <2>2. UNCHANGED <<journalSeq, journal, tape, http>>
    BY <1>4 DEF Finalize, FinalizeRun, CopyStats, CopyRaises, CountLines, Bundle, StopServer, fileVars
  <2> QED BY <1>0, <2>1, <2>2, GotoTyped DEF CtrlPlaces, Working
<1>5. CASE DrainQueue
  BY <1>0, <1>5, DrainTyped DEF DrainQueue, fileVars, Typed
<1>6. CASE DuplicateInRoll \/ IllegalTiming \/ Execute \/ ExecuteRefused
  <2>1. \E e \in BOOLEAN, r \in Queue!OutcomeReasons \cup {"none"} : Judge(e, r)
    BY <1>6, JudgeCases
  <2> QED BY <2>1, JudgedTyped DEF Judge, fileVars
<1>7. CASE ExecuteRaises
  BY <1>0, <1>7, RaisedTyped DEF ExecuteRaises, fileVars
<1> QED
  BY <1>1, <1>2, <1>3, <1>4, <1>5, <1>6, <1>7 DEF Next, CtrlStep, HttpStep

\* A number taken is a new one.
LEMMA NewNumber ==
  ASSUME JournalNumbered, journalSeq \in Nat, journalSeq' = journalSeq + 1, journal' = journal
  PROVE  /\ JournalNumbered' /\ Unused(journalSeq + 1, journalSeq', journal')
         /\ \A n : Unused(n, journalSeq, journal) => Unused(n, journalSeq', journal') /\ n # journalSeq + 1
<1>1. JournalNumbered' /\ Unused(journalSeq + 1, journalSeq', journal')
  BY DEF JournalNumbered, Unused
<1>2. ASSUME NEW n, Unused(n, journalSeq, journal)
      PROVE  Unused(n, journalSeq', journal') /\ n # journalSeq + 1
  BY <1>2 DEF Unused
<1> QED BY <1>1, <1>2

\* A line written under an unused number leaves the journal numbered.
LEMMA NewLine ==
  ASSUME JournalNumbered, journalSeq \in Nat, journal \in Seq(JournalLine), journalSeq' = journalSeq,
         NEW line \in JournalLine, journal' = Append(journal, line), Unused(line.seq, journalSeq, journal)
  PROVE  /\ JournalNumbered'
         /\ \A n : Unused(n, journalSeq, journal) /\ n # line.seq => Unused(n, journalSeq', journal')
         /\ \A n, cid, executed : Written(n, cid, executed, journal) => Written(n, cid, executed, journal')
         /\ Written(line.seq, line.cid, line.executed, journal')
<1>1. /\ DOMAIN journal' = DOMAIN journal \cup {Len(journal) + 1}
      /\ \A i \in DOMAIN journal : journal'[i] = journal[i] /\ i # Len(journal) + 1
      /\ journal'[Len(journal) + 1] = line
  OBVIOUS
<1>2. JournalNumbered'
  BY <1>1 DEF JournalNumbered, Unused
<1>3. \A n : Unused(n, journalSeq, journal) /\ n # line.seq => Unused(n, journalSeq', journal')
  BY <1>1 DEF Unused
<1>4. \A n, cid, executed : Written(n, cid, executed, journal) => Written(n, cid, executed, journal')
  BY <1>1 DEF Written
<1>5. Written(line.seq, line.cid, line.executed, journal')
  BY <1>1 DEF Written
<1> QED BY <1>2, <1>3, <1>4, <1>5

\* A line more on the tape that cites a line of the journal.
LEMMA TapeGrows ==
  ASSUME tape \in Seq(TapeLine), TapeWritten, NEW line, tape' = Append(tape, line),
         Written(line.seq, line.cid, line.executed, journal), UNCHANGED journal
  PROVE  TapeWritten'
<1>1. /\ DOMAIN tape' = DOMAIN tape \cup {Len(tape) + 1}
      /\ \A i \in DOMAIN tape : tape'[i] = tape[i]
      /\ tape'[Len(tape) + 1] = line
  OBVIOUS
<1>2. ASSUME NEW i \in DOMAIN tape'
      PROVE  Written(tape'[i].seq, tape'[i].cid, tape'[i].executed, journal)
  <2>1. CASE i \in DOMAIN tape
    BY <1>1, <2>1 DEF TapeWritten
  <2>2. CASE i = Len(tape) + 1
    BY <1>1, <2>2
  <2> QED BY <1>1, <1>2, <2>1, <2>2
<1> QED BY <1>2 DEF TapeWritten

\* A step keeps every line of the tape citing a line of the journal.
LEMMA CitingStep ==
  ASSUME Typed, Citing, [Next]_vars
  PROVE  Citing'
<1>0. /\ ctrl \in Ctrl /\ http \in Http /\ journalSeq \in Nat /\ lastEffect \in Cids \cup {NoCid}
      /\ journal \in Seq(JournalLine) /\ tape \in Seq(TapeLine)
      /\ JournalNumbered /\ NumbersInHand /\ LinesInHand /\ TapeWritten
  BY DEF Typed, Citing
<1>1. CASE HttpSeq
  <2>1. /\ journalSeq' = journalSeq + 1 /\ UNCHANGED <<journal, tape, ctrl>>
        /\ http' = [http EXCEPT !.pc = "line", !.seq = journalSeq + 1]
    BY <1>1 DEF HttpSeq
  <2>2. http'.pc = "line" /\ http'.seq = journalSeq + 1
    BY <1>0, <2>1 DEF Http
  <2>3. NumbersInHand'
    BY <1>0, <2>1, <2>2, NewNumber DEF NumbersInHand
  <2>4. LinesInHand' /\ TapeWritten'
    BY <1>0, <2>1, <2>2 DEF LinesInHand, TapeWritten, Written
  <2> QED BY <1>0, <2>1, <2>3, <2>4, NewNumber DEF Citing
<1>2. CASE CtrlSeq
  <2>1. journalSeq' = journalSeq + 1 /\ UNCHANGED <<journal, tape, http>>
    BY <1>2 DEF CtrlSeq
  <2>2. ctrl'.pc = "line" /\ ctrl'.seq = journalSeq + 1
    BY <1>0, <1>2, NumberTyped
  <2>3. NumbersInHand'
    BY <1>0, <2>1, <2>2, NewNumber DEF NumbersInHand
  <2>4. LinesInHand' /\ TapeWritten'
    BY <1>0, <2>1, <2>2 DEF LinesInHand, TapeWritten, Written
  <2> QED BY <1>0, <2>1, <2>3, <2>4, NewNumber DEF Citing
<1>3. CASE HttpLine
  <2> DEFINE line == [seq |-> http.seq, cid |-> http.cmd.cid, executed |-> FALSE, effect |-> lastEffect]
  <2>1. http.cmd.cid \in Cids /\ http.seq \in Nat /\ http.pc = "line"
    BY <1>0, <1>3 DEF HttpLine, Typed, Http, Queue!Command
  <2>2. line \in JournalLine /\ line.seq = http.seq /\ line.cid = http.cmd.cid /\ line.executed = FALSE
    BY <1>0, <2>1 DEF JournalLine
  <2>3. journal' = Append(journal, line) /\ UNCHANGED <<journalSeq, tape, ctrl>>
    BY <1>3 DEF HttpLine
  <2>4. http'.pc = "tape" /\ http'.seq = http.seq /\ http'.cmd = http.cmd
    BY <1>0, <1>3 DEF HttpLine, Http
  <2> HIDE DEF line
  <2>5. /\ JournalNumbered'
        /\ \A n : Unused(n, journalSeq, journal) /\ n # line.seq => Unused(n, journalSeq', journal')
        /\ \A n, cid, executed : Written(n, cid, executed, journal) => Written(n, cid, executed, journal')
        /\ Written(line.seq, line.cid, line.executed, journal')
    BY <1>0, <2>1, <2>2, <2>3, NewLine DEF NumbersInHand
  <2>6. NumbersInHand'
    BY <1>0, <2>1, <2>2, <2>3, <2>4, <2>5 DEF NumbersInHand
  <2>7. LinesInHand'
    BY <1>0, <2>2, <2>3, <2>4, <2>5 DEF LinesInHand
  <2>8. TapeWritten'
    BY <1>0, <2>3, <2>5 DEF TapeWritten
  <2> QED BY <2>5, <2>6, <2>7, <2>8 DEF Citing
<1>4. CASE CtrlLine
  <2> DEFINE e == IF ctrl.reason = "timing" THEN NoCid ELSE lastEffect
             line == [seq |-> ctrl.seq, cid |-> ctrl.cmd.cid, executed |-> ctrl.executed, effect |-> e]
  <2>1. ctrl.cmd.cid \in Cids /\ ctrl.seq \in Nat /\ ctrl.pc = "line" /\ e \in Cids \cup {NoCid}
    BY <1>0, <1>4 DEF CtrlLine, Typed, Ctrl, Working, Queue!Payload
  <2>3. journal' = Append(journal, line) /\ UNCHANGED <<journalSeq, tape, http>>
    BY <1>4 DEF CtrlLine
  <2> HIDE DEF e
  <2>2. line \in JournalLine /\ line.seq = ctrl.seq /\ line.cid = ctrl.cmd.cid /\ line.executed = ctrl.executed
    BY <1>0, <2>1 DEF JournalLine, Ctrl
  <2>4. ctrl'.pc = "tape" /\ ctrl'.seq = ctrl.seq /\ ctrl'.cmd = ctrl.cmd /\ ctrl'.executed = ctrl.executed
    BY <1>0, <1>4, GotoTyped DEF CtrlLine, CtrlPlaces, Working
  <2> HIDE DEF line
  <2>5. /\ JournalNumbered'
        /\ \A n : Unused(n, journalSeq, journal) /\ n # line.seq => Unused(n, journalSeq', journal')
        /\ \A n, cid, executed : Written(n, cid, executed, journal) => Written(n, cid, executed, journal')
        /\ Written(line.seq, line.cid, line.executed, journal')
    BY <1>0, <2>1, <2>2, <2>3, NewLine DEF NumbersInHand
  <2>6. NumbersInHand'
    BY <1>0, <2>1, <2>2, <2>3, <2>4, <2>5 DEF NumbersInHand
  <2>7. LinesInHand'
    BY <1>0, <2>2, <2>3, <2>4, <2>5 DEF LinesInHand
  <2>8. TapeWritten'
    BY <1>0, <2>3, <2>5 DEF TapeWritten
  <2> QED BY <2>5, <2>6, <2>7, <2>8 DEF Citing
<1>5. CASE HttpTape
  <2> DEFINE line == [seq |-> http.seq, cid |-> http.cmd.cid, executed |-> FALSE, reason |-> http.reason]
  <2>1. /\ http.pc = "tape" /\ http'.pc = "idle" /\ tape' = Append(tape, line)
        /\ UNCHANGED <<journalSeq, journal, ctrl>>
    BY <1>5 DEF HttpTape
  <2>2. Written(line.seq, line.cid, line.executed, journal)
    BY <1>0, <2>1 DEF LinesInHand
  <2> HIDE DEF line
  <2>3. TapeWritten'
    BY <1>0, <2>1, <2>2, TapeGrows
  <2> QED BY <1>0, <2>1, <2>3 DEF Citing, JournalNumbered, NumbersInHand, LinesInHand, Unused, Written
<1>6. CASE CtrlTape
  <2> DEFINE line == [seq |-> ctrl.seq, cid |-> ctrl.cmd.cid, executed |-> ctrl.executed, reason |-> ctrl.reason]
  <2>1. /\ ctrl.pc = "tape" /\ tape' = Append(tape, line)
        /\ UNCHANGED <<journalSeq, journal, http>>
    BY <1>6 DEF CtrlTape
  <2>2. Written(line.seq, line.cid, line.executed, journal)
    BY <1>0, <2>1 DEF LinesInHand
  <2>4. ctrl'.pc = "next"
    BY <1>0, <1>6, TapedTyped
  <2> HIDE DEF line
  <2>3. TapeWritten'
    BY <1>0, <2>1, <2>2, TapeGrows
  <2> QED BY <1>0, <2>1, <2>3, <2>4 DEF Citing, JournalNumbered, NumbersInHand, LinesInHand, Unused, Written
<1>7. CASE /\ UNCHANGED <<journalSeq, journal, tape>>
           /\ http' = http \/ http'.pc = "seq"
           /\ ctrl' = ctrl \/ ctrl'.pc \notin {"line", "tape"}
  <2>1. JournalNumbered' /\ TapeWritten'
    BY <1>0, <1>7 DEF JournalNumbered, TapeWritten, Written
  <2>2. NumbersInHand'
    BY <1>0, <1>7 DEF NumbersInHand, Unused
  <2>3. LinesInHand'
    BY <1>0, <1>7 DEF LinesInHand, Written
  <2> QED BY <2>1, <2>2, <2>3 DEF Citing
<1> QED BY <1>1, <1>2, <1>3, <1>4, <1>5, <1>6, <1>7, FileSteps

\* Although the two threads number and write their lines without a common lock,
\* each tape line cites exactly one journal line, of the same command and with the
\* same result (DecisionJournal.record, CommandTape.append).
THEOREM CitationCorrect == Spec => []TapeCitesJournal
<1>1. Init => Citing
  BY DEF Init, Citing, JournalNumbered, NumbersInHand, LinesInHand, TapeWritten
<1>2. Typed /\ Citing /\ [Next]_vars => Citing'
  BY CitingStep
<1>3. Citing => TapeCitesJournal
  <2> SUFFICES ASSUME Citing, NEW i \in DOMAIN tape
               PROVE  \E j \in DOMAIN journal :
                        /\ journal[j].cid = tape[i].cid
                        /\ journal[j].executed = tape[i].executed
                        /\ {k \in DOMAIN journal : journal[k].seq = tape[i].seq} = {j}
    BY DEF TapeCitesJournal
  <2>1. PICK j \in DOMAIN journal : /\ journal[j].seq = tape[i].seq /\ journal[j].cid = tape[i].cid
                                    /\ journal[j].executed = tape[i].executed
    BY DEF Citing, TapeWritten, Written
  <2>2. {k \in DOMAIN journal : journal[k].seq = tape[i].seq} = {j}
    BY <2>1 DEF Citing, JournalNumbered
  <2> QED BY <2>1, <2>2
<1> QED BY <1>1, <1>2, <1>3, TypesKept, PTL DEF Spec

---------------------------------------------------------------------------
(* The counters and the tape. *)

Results == Queue!Reasons \cup {"none"}

Count(r) == IF r = "none" THEN stats.executed ELSE stats.rejected[r]

\* One of the same reason.
One(r, s) == IF r = s THEN 1 ELSE 0

\* One more rejection of a reason is one more in that reason's count alone.
LEMMA CountRejection ==
  ASSUME stats \in Queue!Stats, NEW v \in Queue!Reasons,
         stats' = [stats EXCEPT !.rejected[v] = @ + 1]
  PROVE  \A r \in Results : Count(r)' = Count(r) + One(r, v)
<1>1. /\ stats'.executed = stats.executed
      /\ stats'.rejected = [stats.rejected EXCEPT ![v] = @ + 1]
      /\ stats.rejected \in [Queue!Reasons -> Nat] /\ stats.executed \in Nat
  BY DEF Queue!Stats
<1>2. "none" \notin Queue!Reasons
  BY DEF Queue!Reasons, Queue!RefusalReasons, Queue!Forms, Queue!OutcomeReasons
<1>3. ASSUME NEW r \in Queue!Reasons PROVE stats'.rejected[r] = stats.rejected[r] + One(r, v)
  BY <1>1 DEF One
<1> QED BY <1>1, <1>2, <1>3 DEF Results, Count, One

\* What becomes of the counts and of what the threads have yet to tape.
LEMMA CountSteps ==
  ASSUME Typed, stats \in Queue!Stats, [Next]_vars
  PROVE  \/ /\ tape' = tape
            /\ \A r \in Results : Count(r)' = Count(r) /\ Pending(r)' = Pending(r)
         \/ /\ tape' = tape
            /\ \E v \in Results : \A r \in Results : /\ Count(r)' = Count(r) + One(r, v)
                                                    /\ Pending(r)' = Pending(r) + One(r, v)
         \/ \E line \in TapeLine : /\ tape' = Append(tape, line)
                                  /\ \A r \in Results : /\ Count(r)' = Count(r)
                                                        /\ Pending(r)' = Pending(r) - One(r, line.reason)
<1>0. /\ ctrl \in Ctrl /\ http \in Http /\ journalSeq \in Nat /\ stats.executed \in Nat
      /\ \A r \in Queue!Reasons : stats.rejected[r] \in Nat
  BY DEF Typed, Queue!Stats
<1>1. ASSUME NEW c \in Queue!Command, Submit(c)
      PROVE  \/ /\ tape' = tape
                /\ \A r \in Results : Count(r)' = Count(r) /\ Pending(r)' = Pending(r)
             \/ /\ tape' = tape
                /\ \E v \in Results : \A r \in Results : /\ Count(r)' = Count(r) + One(r, v)
                                                        /\ Pending(r)' = Pending(r) + One(r, v)
  <2>1. CASE Queue!Accept(c)
    <3>1. stats'.executed = stats.executed /\ stats'.rejected = stats.rejected
      BY <2>1 DEF Queue!Accept, Queue!Stats
    <3>2. UNCHANGED <<http, ctrl, tape>>
      BY <1>1, <2>1 DEF Submit, Queue!Refuse, Queue!Accept, Queue!RefusalReasons, Queue!Forms, fileVars
    <3> QED BY <3>1, <3>2 DEF Count, Pending
  <2>2. CASE /\ Queue!Refuse(c)
             /\ http' = [pc |-> "seq", cmd |-> c, reason |-> Queue!Verdict(c), seq |-> 0]
    <3> DEFINE v == Queue!Verdict(c)
    <3>1. v \in Queue!RefusalReasons /\ stats' = [stats EXCEPT !.rejected[v] = @ + 1]
      BY <2>2 DEF Queue!Refuse
    <3>2. http.pc = "idle" /\ http'.pc = "seq" /\ http'.reason = v /\ ctrl' = ctrl /\ tape' = tape
      BY <1>1, <2>2 DEF Submit, fileVars
    <3> HIDE DEF v
    <3>3. \A r \in Results : Count(r)' = Count(r) + One(r, v)
      BY <3>1, CountRejection DEF Queue!Reasons
    <3>4. \A r \in Results : Pending(r)' = Pending(r) + One(r, v)
      BY <3>2 DEF Pending, One
    <3> QED BY <3>1, <3>2, <3>3, <3>4 DEF Results, Queue!Reasons
  <2> QED BY <1>1, <2>1, <2>2 DEF Submit
<1>2. CASE \/ \E c \in Queue!Command, r \in {"active", "other"} : RefuseAtIngest(c, r)
           \/ Clock \/ UNCHANGED vars
  BY <1>2 DEF RefuseAtIngest, Clock, Queue!Tick, vars, fileVars, queueVars, Count, Pending
<1>3. CASE HttpSeq \/ HttpLine
  <2>1. http.pc # "idle" /\ http'.pc # "idle" /\ http'.reason = http.reason
    BY <1>0, <1>3 DEF HttpSeq, HttpLine, Http
  <2>2. UNCHANGED <<stats, tape, ctrl>>
    BY <1>3 DEF HttpSeq, HttpLine, queueVars
  <2> QED BY <2>1, <2>2 DEF Count, Pending
<1>4. CASE RollEvent \/ BatchDone \/ DrainQueue \/ ExecuteRaises \/ Finalize
           \/ DuplicateInRoll \/ IllegalTiming \/ Execute \/ ExecuteRefused
  <2>1. CASE RollEvent \/ BatchDone
    BY <1>0, <2>1, GotoTyped DEF RollEvent, BatchDone, CtrlPlaces, Working, queueVars, fileVars, Count, Pending
  <2>2. CASE DrainQueue
    <3>1. ctrl'.pc = "next" /\ ctrl.pc = "drain" /\ UNCHANGED <<stats, tape, http>>
      BY <1>0, <2>2, DrainTyped DEF DrainQueue, Queue!Drain, fileVars, Typed
    <3> QED BY <3>1 DEF Count, Pending
  <2>3. CASE ExecuteRaises
    <3>1. ctrl'.pc = "table" /\ ctrl.pc = "next" /\ UNCHANGED <<stats, tape, http>>
      BY <1>0, <2>3, RaisedTyped DEF ExecuteRaises, FirstInRoll, queueVars, fileVars
    <3> QED BY <3>1 DEF Count, Pending
  <2>4. CASE Finalize
    <3>1. \E p \in {"copy", "stop", "count", "raised", "bundle", "done"} : Goto(p)
      BY <2>4 DEF Finalize, FinalizeRun, CopyStats, CopyRaises, CountLines, Bundle, StopServer
    <3>2. UNCHANGED <<stats, tape, http>> /\ ctrl.pc \notin {"seq", "line", "tape"}
      BY <2>4 DEF Finalize, FinalizeRun, CopyStats, CopyRaises, CountLines, Bundle, StopServer, queueVars, fileVars
    <3>3. ctrl'.pc \notin {"seq", "line", "tape"}
      BY <1>0, <3>1, GotoTyped DEF CtrlPlaces, Working
    <3> QED BY <3>2, <3>3 DEF Count, Pending
  <2>5. CASE DuplicateInRoll \/ IllegalTiming \/ Execute \/ ExecuteRefused
    <3>1. \E e \in BOOLEAN, r \in Queue!OutcomeReasons \cup {"none"} : Judge(e, r)
      BY <2>5, JudgeCases
    <3>2. ctrl'.pc = "outcome" /\ ctrl.pc = "next" /\ UNCHANGED <<stats, tape, http>>
      BY <3>1, JudgedTyped DEF Judge, queueVars, fileVars
    <3> QED BY <3>2 DEF Count, Pending
  <2> QED BY <1>4, <2>1, <2>2, <2>3, <2>4, <2>5
<1>5. CASE RecordOutcome
  <2>1. /\ ctrl.pc = "outcome" /\ ctrl'.pc = "seq" /\ ctrl'.reason = ctrl.reason
        /\ ctrl.reason \in Queue!OutcomeReasons \cup {"none"} /\ (ctrl.executed <=> ctrl.reason = "none")
        /\ http' = http /\ tape' = tape
    BY <1>0, <1>5, GotoTyped DEF RecordOutcome, CtrlPlaces, Working, Typed, fileVars, Ctrl
  <2>2. \A r \in Results : Pending(r)' = Pending(r) + One(r, ctrl.reason)
    BY <2>1 DEF Pending, One
  <2>3. \A r \in Results : Count(r)' = Count(r) + One(r, ctrl.reason)
    <3>1. CASE ctrl.executed
      <4>1. stats' = [stats EXCEPT !.executed = @ + 1]
        BY <1>5, <3>1 DEF RecordOutcome, Queue!OutcomeExecuted
      <4>2. stats'.executed = stats.executed + 1 /\ stats'.rejected = stats.rejected
        BY <4>1 DEF Queue!Stats
      <4> QED BY <1>0, <2>1, <3>1, <4>2 DEF Count, One, Results
    <3>2. CASE ~ctrl.executed
      <4>1. stats' = [stats EXCEPT !.rejected[ctrl.reason] = @ + 1]
        BY <1>5, <3>2 DEF RecordOutcome, Queue!OutcomeRejected
      <4>2. ctrl.reason \in Queue!Reasons
        BY <2>1, <3>2 DEF Queue!Reasons
      <4> QED BY <4>1, <4>2, CountRejection
    <3> QED BY <3>1, <3>2
  <2>4. ctrl.reason \in Results
    BY <2>1 DEF Results, Queue!Reasons
  <2> QED BY <2>1, <2>2, <2>3, <2>4
<1>6. CASE CtrlSeq \/ CtrlLine
  <2>1. ctrl.pc \in {"seq", "line"} /\ ctrl'.pc \in {"line", "tape"} /\ ctrl'.reason = ctrl.reason
    BY <1>0, <1>6, NumberTyped, GotoTyped DEF CtrlSeq, CtrlLine, CtrlPlaces, Working
  <2>2. UNCHANGED <<stats, tape, http>>
    BY <1>6 DEF CtrlSeq, CtrlLine, queueVars
  <2> QED BY <2>1, <2>2 DEF Count, Pending
<1>7. CASE HttpTape
  <2> DEFINE line == [seq |-> http.seq, cid |-> http.cmd.cid, executed |-> FALSE, reason |-> http.reason]
  <2>1. /\ http.pc = "tape" /\ http'.pc = "idle" /\ tape' = Append(tape, line)
        /\ UNCHANGED <<stats, ctrl>>
    BY <1>7 DEF HttpTape, queueVars
  <2>2. /\ http.cmd.cid \in Cids /\ http.seq \in Nat /\ http.reason \in Queue!Reasons \cup {"none"}
    BY <1>0, <2>1 DEF Typed, Http, Queue!Command, Queue!Reasons
  <2>3. line \in TapeLine /\ line.reason = http.reason
    BY <2>2 DEF TapeLine
  <2> HIDE DEF line
  <2>4. \A r \in Results : Pending(r)' = Pending(r) - One(r, line.reason)
    BY <2>1, <2>3 DEF Pending, One
  <2> QED BY <2>1, <2>3, <2>4 DEF Count
<1>8. CASE CtrlTape
  <2> DEFINE line == [seq |-> ctrl.seq, cid |-> ctrl.cmd.cid, executed |-> ctrl.executed, reason |-> ctrl.reason]
  <2>1. /\ ctrl.pc = "tape" /\ ctrl'.pc = "next" /\ tape' = Append(tape, line)
        /\ UNCHANGED <<stats, http>>
    BY <1>0, <1>8, TapedTyped DEF CtrlTape, queueVars
  <2>2. /\ ctrl.cmd.cid \in Cids /\ ctrl.seq \in Nat /\ ctrl.reason \in Queue!Reasons \cup {"none"}
        /\ ctrl.executed \in BOOLEAN
    BY <1>0, <2>1 DEF Typed, Ctrl, Working, Queue!Payload, Queue!Reasons
  <2>3. line \in TapeLine /\ line.reason = ctrl.reason
    BY <2>2 DEF TapeLine
  <2> HIDE DEF line
  <2>4. \A r \in Results : Pending(r)' = Pending(r) - One(r, line.reason)
    BY <2>1, <2>3 DEF Pending, One
  <2> QED BY <2>1, <2>3, <2>4 DEF Count
<1> QED
  BY <1>1, <1>2, <1>3, <1>4, <1>5, <1>6, <1>7, <1>8 DEF Next, CtrlStep, HttpStep

\* A line more on the tape is one more line of its reason.
LEMMA TapedOneMore ==
  ASSUME tape \in Seq(TapeLine), NEW line \in TapeLine, tape' = Append(tape, line), NEW r
  PROVE  /\ Cardinality(TapedAs(r)) \in Nat
         /\ Cardinality(TapedAs(r))' = Cardinality(TapedAs(r)) + One(r, line.reason)
<1> DEFINE n == Len(tape) + 1
<1>1. /\ DOMAIN tape = 1..Len(tape) /\ DOMAIN tape' = DOMAIN tape \cup {n} /\ n \notin DOMAIN tape
      /\ tape'[n] = line /\ \A i \in DOMAIN tape : tape'[i] = tape[i]
  OBVIOUS
<1>2. IsFiniteSet(TapedAs(r)) /\ n \notin TapedAs(r)
  <2>1. IsFiniteSet(1..Len(tape))
    BY FS_Interval
  <2>2. TapedAs(r) \subseteq 1..Len(tape)
    BY <1>1 DEF TapedAs
  <2> QED BY <1>1, <2>1, <2>2, FS_Subset
<1>3. TapedAs(r)' = IF line.reason = r THEN TapedAs(r) \cup {n} ELSE TapedAs(r)
  BY <1>1 DEF TapedAs
<1> HIDE DEF n
<1>4. Cardinality(TapedAs(r)) \in Nat /\ Cardinality(TapedAs(r) \cup {n}) = Cardinality(TapedAs(r)) + 1
  BY <1>2, FS_CardinalityType, FS_AddElement
<1> QED BY <1>3, <1>4 DEF One

\* Each outcome is counted once and taped once, by either thread and whichever
\* comes first (_reject_locked and record_outcome, beside CommandTape.append).
THEOREM CountersCorrect == Spec => []CountersMatchTape
<1> DEFINE Tally == \A r \in Results : Count(r) = Cardinality(TapedAs(r)) + Pending(r)
<1>1. Init => Tally
  <2> SUFFICES ASSUME Init, NEW r \in Results PROVE Count(r) = Cardinality(TapedAs(r)) + Pending(r)
    OBVIOUS
  <2>1. TapedAs(r) = {} /\ Pending(r) = 0
    BY DEF Init, TapedAs, Pending
  <2>2. Count(r) = 0
    BY DEF Init, Queue!Init, Count, Results
  <2> QED BY <2>1, <2>2, FS_EmptySet
<1>2. ASSUME Typed, stats \in Queue!Stats, Tally, [Next]_vars
      PROVE  Tally'
  <2> SUFFICES ASSUME NEW r \in Results
               PROVE  Count(r)' = Cardinality(TapedAs(r))' + Pending(r)'
    OBVIOUS
  <2>0. Count(r) = Cardinality(TapedAs(r)) + Pending(r) /\ Pending(r) \in Nat
    BY <1>2 DEF Pending
  <2>1. CASE tape' = tape /\ Count(r)' = Count(r) /\ Pending(r)' = Pending(r)
    <3>1. TapedAs(r)' = TapedAs(r)
      BY <2>1 DEF TapedAs
    <3> QED BY <2>0, <2>1, <3>1
  <2>2. ASSUME tape' = tape, NEW v \in Results, Count(r)' = Count(r) + One(r, v),
               Pending(r)' = Pending(r) + One(r, v)
        PROVE  Count(r)' = Cardinality(TapedAs(r))' + Pending(r)'
    <3>1. TapedAs(r)' = TapedAs(r)
      BY <2>2 DEF TapedAs
    <3>2. Cardinality(TapedAs(r)) \in Nat
      <4>1. IsFiniteSet(1..Len(tape))
        BY FS_Interval
      <4>2. TapedAs(r) \subseteq 1..Len(tape)
        BY <1>2 DEF TapedAs, Typed
      <4> QED BY <4>1, <4>2, FS_Subset, FS_CardinalityType
    <3>3. One(r, v) \in Nat
      BY DEF One
    <3> QED BY <2>0, <2>2, <3>1, <3>2, <3>3
  <2>3. ASSUME NEW line \in TapeLine, tape' = Append(tape, line), Count(r)' = Count(r),
               Pending(r)' = Pending(r) - One(r, line.reason)
        PROVE  Count(r)' = Cardinality(TapedAs(r))' + Pending(r)'
    <3>1. /\ Cardinality(TapedAs(r)) \in Nat
          /\ Cardinality(TapedAs(r))' = Cardinality(TapedAs(r)) + One(r, line.reason)
      BY <1>2, <2>3, TapedOneMore DEF Typed
    <3>2. One(r, line.reason) \in Nat
      BY DEF One
    <3> QED BY <2>0, <2>3, <3>1, <3>2
  <2> QED BY <1>2, <2>1, <2>2, <2>3, CountSteps
<1>3. Tally => CountersMatchTape
  <2>1. "none" \in Results /\ \A r \in Queue!Reasons : r \in Results /\ r # "none"
    BY DEF Results, Queue!Reasons, Queue!RefusalReasons, Queue!Forms, Queue!OutcomeReasons
  <2> QED BY <2>1 DEF CountersMatchTape, Count
<1> QED BY <1>1, <1>2, <1>3, TypesKept, StatsTyped, PTL DEF Spec

---------------------------------------------------------------------------
(* The report. *)

\* One, where it is so.
Due(it) == IF it THEN 1 ELSE 0

Lines(executed) == Cardinality(LinesWith(executed))

\* The controller has counted an outcome whose line it has yet to write.
Unwritten(executed) == Due(ctrl.pc \in {"seq", "line"} /\ ctrl.executed = executed)

\* The books agree: a result counted is a line of the journal, a line of the journal is
\* a line of the tape, each but for what a thread has under way.
Booked ==
  /\ stats.executed = Lines(TRUE) + Unwritten(TRUE)
  /\ Cardinality(Refusals(stats.rejected))
       = Lines(FALSE) + Unwritten(FALSE) + Due(http.pc \in {"seq", "line"})
  /\ Len(journal) = Lines(TRUE) + Lines(FALSE)
  /\ Len(journal) = Len(tape) + Due(ctrl.pc = "tape") + Due(http.pc = "tape")
  /\ \A i \in DOMAIN tape : tape[i].executed <=> tape[i].reason = "none"

\* What the report says at each place of finalize_run: counters copied lag behind those
\* of the queue, and lines counted are among the journal's.
Told ==
  /\ ctrl.pc \notin {"copy", "count", "bundle", "stop", "done"} => report = NoReport
  /\ ctrl.pc \in {"copy", "count"} => \A r \in Queue!Reasons : report.rejected[r] <= stats.rejected[r]
  /\ ctrl.pc = "count" => report.executed = stats.executed
  /\ ctrl.pc = "bundle" => /\ report.did = stats.executed
                           /\ report.did + report.didNot <= Len(journal)
  /\ ReportAgrees

\* The reasons are so many.
LEMMA ReasonsFinite == IsFiniteSet(Queue!Reasons)
<1>1. ASSUME NEW a, NEW b PROVE IsFiniteSet({a, b})
  <2>1. IsFiniteSet({a}) /\ IsFiniteSet({b}) /\ {a, b} = {a} \cup {b}
    BY FS_Singleton
  <2> QED BY <2>1, FS_Union
<1>2. ASSUME NEW a, NEW b, NEW c, NEW d PROVE IsFiniteSet({a, b, c, d})
  <2>1. IsFiniteSet({a, b}) /\ IsFiniteSet({c, d}) /\ {a, b, c, d} = {a, b} \cup {c, d}
    BY <1>1
  <2> QED BY <2>1, FS_Union
<1> DEFINE First == {"timing:duplicate_correlation_id", "queue_full", "per_source_quota", "rate_limited"}
           Second == {"circuit_breaker", "duplicate_roll", "timing", "ok"}
<1>3. IsFiniteSet(First) /\ IsFiniteSet(Second) /\ IsFiniteSet(Queue!Forms)
  BY <1>2 DEF Queue!Forms
<1>4. IsFiniteSet((First \cup Second) \cup Queue!Forms)
  BY <1>3, FS_Union
<1>5. Queue!Reasons \subseteq (First \cup Second) \cup Queue!Forms
  BY DEF Queue!Reasons, Queue!RefusalReasons, Queue!OutcomeReasons
<1> QED BY <1>4, <1>5, FS_Subset

\* The refusals that counters stand for are as many as numbers can tell.
LEMMA RefusalsFinite ==
  ASSUME NEW rejected \in [Queue!Reasons -> Nat]
  PROVE  IsFiniteSet(Refusals(rejected)) /\ Cardinality(Refusals(rejected)) \in Nat
<1> DEFINE Of(r) == {<<r, n>> : n \in 1..rejected[r]}
           all == {Of(r) : r \in Queue!Reasons}
<1>1. ASSUME NEW r \in Queue!Reasons PROVE IsFiniteSet(Of(r))
  <2> DEFINE f == [n \in 1..rejected[r] |-> <<r, n>>]
  <2>1. f \in Surjection(1..rejected[r], Of(r))
    BY DEF Surjection
  <2>2. IsFiniteSet(1..rejected[r])
    BY FS_Interval
  <2> QED BY <2>1, <2>2, FS_Surjection
<1>2. IsFiniteSet(all)
  <2> DEFINE f == [r \in Queue!Reasons |-> Of(r)]
  <2> HIDE DEF Of
  <2>1. \A r \in Queue!Reasons : f[r] = Of(r) /\ Of(r) \in all
    OBVIOUS
  <2>2. f \in [Queue!Reasons -> all]
    OBVIOUS
  <2>3. \A T \in all : \E r \in Queue!Reasons : f[r] = T
    BY <2>1
  <2>4. f \in Surjection(Queue!Reasons, all)
    BY <2>2, <2>3 DEF Surjection
  <2> QED BY <2>4, ReasonsFinite, FS_Surjection
<1>3. \A T \in all : IsFiniteSet(T)
  BY <1>1
<1>4. Refusals(rejected) = UNION all
  BY DEF Refusals
<1> HIDE DEF all
<1> QED BY <1>2, <1>3, <1>4, FS_UNION, FS_CardinalityType

\* What is among them.
LEMMA RefusalsAre ==
  ASSUME NEW rejected \in [Queue!Reasons -> Nat]
  PROVE  \A p : p \in Refusals(rejected) <=>
                  \E r \in Queue!Reasons, n \in Nat : n \in 1..rejected[r] /\ p = <<r, n>>
  BY DEF Refusals

\* One refusal more is counted as one more.
LEMMA RefusalsOneMore ==
  ASSUME NEW rejected \in [Queue!Reasons -> Nat], NEW v \in Queue!Reasons
  PROVE  Cardinality(Refusals([rejected EXCEPT ![v] = @ + 1])) = Cardinality(Refusals(rejected)) + 1
<1> DEFINE more == [rejected EXCEPT ![v] = @ + 1]
           new == <<v, rejected[v] + 1>>
<1>1. more \in [Queue!Reasons -> Nat]
  OBVIOUS
<1>2. \A r \in Queue!Reasons : more[r] = IF r = v THEN rejected[v] + 1 ELSE rejected[r]
  OBVIOUS
<1> HIDE DEF more
<1>3. Refusals(more) = Refusals(rejected) \cup {new}
  <2>1. ASSUME NEW p \in Refusals(more) PROVE p \in Refusals(rejected) \cup {new}
    <3>1. PICK r \in Queue!Reasons, n \in Nat : n \in 1..more[r] /\ p = <<r, n>>
      BY <1>1, <2>1, RefusalsAre
    <3>2. n \in 1..rejected[r] \/ (r = v /\ n = rejected[v] + 1)
      BY <1>2, <3>1
    <3> QED BY <3>1, <3>2, RefusalsAre
  <2>2. ASSUME NEW p \in Refusals(rejected) PROVE p \in Refusals(more)
    <3>1. PICK r \in Queue!Reasons, n \in Nat : n \in 1..rejected[r] /\ p = <<r, n>>
      BY <2>2, RefusalsAre
    <3>2. n \in 1..more[r]
      BY <1>2, <3>1
    <3> QED BY <1>1, <3>1, <3>2, RefusalsAre
  <2>3. new \in Refusals(more)
    <3>1. rejected[v] + 1 \in 1..more[v]
      BY <1>2
    <3> QED BY <1>1, <3>1, RefusalsAre
  <2> QED BY <2>1, <2>2, <2>3
<1>4. new \notin Refusals(rejected)
  <2> SUFFICES ASSUME new \in Refusals(rejected) PROVE FALSE
    OBVIOUS
  <2>1. PICK r \in Queue!Reasons, n \in Nat : n \in 1..rejected[r] /\ new = <<r, n>>
    BY RefusalsAre
  <2>2. r = v /\ n = rejected[v] + 1
    BY <2>1
  <2> QED BY <2>1, <2>2
<1>5. IsFiniteSet(Refusals(rejected))
  BY RefusalsFinite
<1> HIDE DEF new
<1> QED BY <1>3, <1>4, <1>5, FS_AddElement DEF more

\* Lower counters stand for no more refusals.
LEMMA RefusalsFewer ==
  ASSUME NEW low \in [Queue!Reasons -> Nat], NEW high \in [Queue!Reasons -> Nat],
         \A r \in Queue!Reasons : low[r] <= high[r]
  PROVE  Cardinality(Refusals(low)) <= Cardinality(Refusals(high))
<1>1. Refusals(low) \subseteq Refusals(high)
  <2> SUFFICES ASSUME NEW p \in Refusals(low) PROVE p \in Refusals(high)
    OBVIOUS
  <2>1. PICK r \in Queue!Reasons, n \in Nat : n \in 1..low[r] /\ p = <<r, n>>
    BY RefusalsAre
  <2>2. n \in 1..high[r]
    <3>1. low[r] \in Nat /\ high[r] \in Nat /\ low[r] <= high[r]
      OBVIOUS
    <3> QED BY <2>1, <3>1
  <2> QED BY <2>1, <2>2, RefusalsAre
<1> QED BY <1>1, RefusalsFinite, FS_Subset

\* Counters of nothing stand for nothing.
LEMMA RefusalsNone == Cardinality(Refusals([r \in Queue!Reasons |-> 0])) = 0
<1> DEFINE none == [r \in Queue!Reasons |-> 0]
<1>1. none \in [Queue!Reasons -> Nat] /\ \A r \in Queue!Reasons : 1..none[r] = {}
  OBVIOUS
<1> HIDE DEF none
<1>2. Refusals(none) = {}
  BY <1>1, RefusalsAre
<1> QED BY <1>2, FS_EmptySet DEF none

\* Lines of the journal are counted by numbers.
LEMMA LinesTyped ==
  ASSUME journal \in Seq(JournalLine), NEW e
  PROVE  IsFiniteSet(LinesWith(e)) /\ Lines(e) \in Nat
<1>1. DOMAIN journal = 1..Len(journal) /\ Len(journal) \in Nat
  OBVIOUS
<1>2. LinesWith(e) \subseteq 1..Len(journal)
  BY <1>1 DEF LinesWith
<1>3. IsFiniteSet(1..Len(journal))
  BY <1>1, FS_Interval
<1> QED BY <1>2, <1>3, FS_Subset, FS_CardinalityType DEF Lines

\* A line more is one more of its kind.
LEMMA LineOneMore ==
  ASSUME journal \in Seq(JournalLine), NEW line \in JournalLine, journal' = Append(journal, line), NEW e
  PROVE  Lines(e)' = Lines(e) + Due(line.executed = e)
<1> DEFINE n == Len(journal) + 1
<1>1. /\ DOMAIN journal' = DOMAIN journal \cup {n} /\ n \notin DOMAIN journal
      /\ journal'[n] = line /\ \A i \in DOMAIN journal : journal'[i] = journal[i]
  OBVIOUS
<1>2. LinesWith(e)' = IF line.executed = e THEN LinesWith(e) \cup {n} ELSE LinesWith(e)
  BY <1>1 DEF LinesWith
<1>3. n \notin LinesWith(e) /\ IsFiniteSet(LinesWith(e)) /\ Lines(e) \in Nat
  BY <1>1, LinesTyped DEF LinesWith
<1> HIDE DEF n
<1>4. Cardinality(LinesWith(e) \cup {n}) = Cardinality(LinesWith(e)) + 1
  BY <1>3, FS_AddElement
<1> QED BY <1>2, <1>3, <1>4 DEF Lines, Due

\* What most steps leave as it is: the counters, the two files, and what is under way
\* between them.
Idle ==
  /\ UNCHANGED <<journal, tape>>
  /\ stats'.executed = stats.executed /\ stats'.rejected = stats.rejected
  /\ http.pc \in {"seq", "line"} <=> http'.pc \in {"seq", "line"}
  /\ http.pc = "tape" <=> http'.pc = "tape"
  /\ ctrl.pc \in {"seq", "line"} <=> ctrl'.pc \in {"seq", "line"}
  /\ ctrl.pc = "tape" <=> ctrl'.pc = "tape"
  /\ ctrl.pc \in {"seq", "line"} => ctrl'.executed = ctrl.executed

\* The steps, as far as the books are concerned.
LEMMA BookSteps ==
  ASSUME Typed, stats \in Queue!Stats, [Next]_vars
  PROVE  \/ Idle \/ RecordOutcome \/ HttpLine \/ CtrlLine \/ HttpTape \/ CtrlTape
         \/ \E v \in Queue!RefusalReasons :
              /\ stats' = [stats EXCEPT !.rejected[v] = @ + 1]
              /\ http.pc = "idle" /\ http'.pc = "seq" /\ UNCHANGED <<ctrl, journal, tape>>
<1>0. ctrl \in Ctrl /\ http \in Http /\ journalSeq \in Nat
  BY DEF Typed
<1>1. ASSUME NEW c \in Queue!Command, Submit(c), Queue!Accept(c) PROVE Idle
  <2>1. stats'.executed = stats.executed /\ stats'.rejected = stats.rejected
    BY <1>1 DEF Queue!Accept, Queue!Stats
  <2>2. UNCHANGED <<http, ctrl, journal, tape>>
    BY <1>1 DEF Submit, Queue!Refuse, Queue!Accept, Queue!RefusalReasons, Queue!Forms, fileVars
  <2> QED BY <2>1, <2>2 DEF Idle
<1>2. ASSUME NEW c \in Queue!Command, Submit(c), ~Queue!Accept(c)
      PROVE  \E v \in Queue!RefusalReasons :
               /\ stats' = [stats EXCEPT !.rejected[v] = @ + 1]
               /\ http.pc = "idle" /\ http'.pc = "seq" /\ UNCHANGED <<ctrl, journal, tape>>
  <2> DEFINE v == Queue!Verdict(c)
  <2>1. Queue!Refuse(c) /\ http' = [pc |-> "seq", cmd |-> c, reason |-> v, seq |-> 0]
    BY <1>2 DEF Submit
  <2>2. v \in Queue!RefusalReasons /\ stats' = [stats EXCEPT !.rejected[v] = @ + 1]
    BY <2>1 DEF Queue!Refuse
  <2>3. http.pc = "idle" /\ UNCHANGED <<ctrl, journal, tape>>
    BY <1>2 DEF Submit, fileVars
  <2> HIDE DEF v
  <2>4. http'.pc = "seq"
    BY <2>1
  <2> QED BY <2>2, <2>3, <2>4
<1>3. CASE \/ \E c \in Queue!Command, r \in {"active", "other"} : RefuseAtIngest(c, r)
           \/ Clock \/ UNCHANGED vars
  BY <1>3 DEF RefuseAtIngest, Clock, Queue!Tick, vars, fileVars, queueVars, Idle
<1>4. CASE HttpSeq
  <2>1. http.pc = "seq" /\ http'.pc = "line" /\ UNCHANGED <<stats, journal, tape, ctrl>>
    BY <1>0, <1>4 DEF HttpSeq, Http, queueVars
  <2> QED BY <2>1 DEF Idle
<1>5. CASE CtrlSeq
  <2>1. /\ ctrl.pc = "seq" /\ ctrl'.pc = "line" /\ ctrl'.executed = ctrl.executed
        /\ UNCHANGED <<stats, journal, tape, http>>
    BY <1>0, <1>5, NumberTyped DEF CtrlSeq, queueVars
  <2> QED BY <2>1 DEF Idle
<1>6. CASE RollEvent \/ BatchDone \/ DrainQueue \/ ExecuteRaises \/ Finalize
           \/ DuplicateInRoll \/ IllegalTiming \/ Execute \/ ExecuteRefused
  <2> SUFFICES /\ UNCHANGED <<journal, tape, http>>
               /\ stats'.executed = stats.executed /\ stats'.rejected = stats.rejected
               /\ ctrl.pc \notin {"seq", "line", "tape"} /\ ctrl'.pc \notin {"seq", "line", "tape"}
    BY DEF Idle
  <2>1. CASE RollEvent \/ BatchDone
    BY <1>0, <2>1, GotoTyped DEF RollEvent, BatchDone, CtrlPlaces, Working, queueVars, fileVars
  <2>2. CASE DrainQueue
    BY <1>0, <2>2, DrainTyped DEF DrainQueue, Queue!Drain, fileVars, Typed
  <2>3. CASE ExecuteRaises
    BY <1>0, <2>3, RaisedTyped DEF ExecuteRaises, FirstInRoll, queueVars, fileVars
  <2>4. CASE Finalize
    <3>1. \E p \in {"copy", "stop", "count", "raised", "bundle", "done"} : Goto(p)
      BY <2>4 DEF Finalize, FinalizeRun, CopyStats, CopyRaises, CountLines, Bundle, StopServer
    <3>2. UNCHANGED <<stats, journal, tape, http>> /\ ctrl.pc \notin {"seq", "line", "tape"}
      BY <2>4 DEF Finalize, FinalizeRun, CopyStats, CopyRaises, CountLines, Bundle, StopServer, queueVars, fileVars
    <3>3. ctrl'.pc \notin {"seq", "line", "tape"}
      BY <1>0, <3>1, GotoTyped DEF CtrlPlaces, Working
    <3> QED BY <3>2, <3>3
  <2>5. CASE DuplicateInRoll \/ IllegalTiming \/ Execute \/ ExecuteRefused
    <3>1. \E e \in BOOLEAN, r \in Queue!OutcomeReasons \cup {"none"} : Judge(e, r)
      BY <2>5, JudgeCases
    <3> QED BY <3>1, JudgedTyped DEF Judge, queueVars, fileVars
  <2> QED BY <1>6, <2>1, <2>2, <2>3, <2>4, <2>5
<1> QED BY <1>1, <1>2, <1>3, <1>4, <1>5, <1>6 DEF Next, CtrlStep, HttpStep

\* The books agree after every step.
LEMMA BookedStep ==
  ASSUME Typed, stats \in Queue!Stats, Booked, [Next]_vars
  PROVE  Booked'
<1> DEFINE R == Cardinality(Refusals(stats.rejected))
           D == Lines(TRUE)
           N == Lines(FALSE)
           LJ == Len(journal)
           LK == Len(tape)
           X == stats.executed
           uT == Unwritten(TRUE)
           uF == Unwritten(FALSE)
           hW == Due(http.pc \in {"seq", "line"})
           cT == Due(ctrl.pc = "tape")
           hT == Due(http.pc = "tape")
<1>0. /\ ctrl \in Ctrl /\ http \in Http /\ journal \in Seq(JournalLine) /\ tape \in Seq(TapeLine)
      /\ stats.rejected \in [Queue!Reasons -> Nat] /\ stats.executed \in Nat
      /\ lastEffect \in Cids \cup {NoCid}
  BY DEF Typed, Queue!Stats
<1>a. R \in Nat /\ D \in Nat /\ N \in Nat /\ LJ \in Nat /\ LK \in Nat /\ X \in Nat
  <2>1. D \in Nat /\ N \in Nat
    BY <1>0, LinesTyped
  <2>2. R \in Nat
    BY <1>0, RefusalsFinite
  <2>3. Len(journal) \in Nat /\ Len(tape) \in Nat /\ stats.executed \in Nat
    BY <1>0
  <2> QED BY <2>1, <2>2, <2>3
<1>b. ASSUME journal' = journal PROVE D' = D /\ N' = N /\ LJ' = LJ
  BY <1>b DEF Lines, LinesWith
<1>c. /\ X = D + uT /\ R = N + uF + hW /\ LJ = D + N /\ LJ = LK + cT + hT
  BY DEF Booked
<1>f. \A i \in DOMAIN tape : tape[i].executed <=> tape[i].reason = "none"
  BY DEF Booked
<1>d. /\ uT \in Nat /\ uF \in Nat /\ hW \in Nat /\ cT \in Nat /\ hT \in Nat
      /\ uT' \in Nat /\ uF' \in Nat /\ hW' \in Nat /\ cT' \in Nat /\ hT' \in Nat
  BY DEF Unwritten, Due
<1>e. SUFFICES /\ X' = D' + uT' /\ R' = N' + uF' + hW' /\ LJ' = D' + N' /\ LJ' = LK' + cT' + hT'
               /\ \A i \in DOMAIN tape' : tape'[i].executed <=> tape'[i].reason = "none"
  BY DEF Booked
<1> HIDE DEF R, D, N, LJ, LK, X, uT, uF, hW, cT, hT
<1>1. CASE Idle
  <2>1. journal' = journal /\ tape' = tape /\ X' = X /\ R' = R /\ LK' = LK
    BY <1>1 DEF Idle, R, X, LK
  <2>2. uT' = uT /\ uF' = uF /\ hW' = hW /\ cT' = cT /\ hT' = hT
    BY <1>1 DEF Idle, uT, uF, hW, cT, hT, Unwritten, Due
  <2> QED BY <1>b, <1>c, <1>f, <2>1, <2>2
<1>2. CASE \E v \in Queue!RefusalReasons :
             /\ stats' = [stats EXCEPT !.rejected[v] = @ + 1]
             /\ http.pc = "idle" /\ http'.pc = "seq" /\ UNCHANGED <<ctrl, journal, tape>>
  <2>1. PICK v \in Queue!Reasons :
          /\ stats' = [stats EXCEPT !.rejected[v] = @ + 1]
          /\ http.pc = "idle" /\ http'.pc = "seq" /\ UNCHANGED <<ctrl, journal, tape>>
    BY <1>2 DEF Queue!Reasons
  <2>2. stats'.executed = stats.executed /\ stats'.rejected = [stats.rejected EXCEPT ![v] = @ + 1]
    BY <2>1 DEF Queue!Stats
  <2>3. R' = R + 1 /\ D' = D /\ N' = N /\ LJ' = LJ /\ LK' = LK /\ X' = X
    BY <1>0, <1>b, <2>1, <2>2, RefusalsOneMore DEF R, LK, X
  <2>4. uT' = uT /\ uF' = uF /\ hW = 0 /\ hW' = 1 /\ hT = 0 /\ hT' = 0 /\ cT' = cT
    BY <2>1 DEF uT, uF, hW, cT, hT, Unwritten, Due
  <2>5. tape' = tape
    BY <2>1
  <2>6. X' = D' + uT' /\ R' = N' + uF' + hW' /\ LJ' = D' + N' /\ LJ' = LK' + cT' + hT'
    BY <1>a, <1>c, <1>d, <2>3, <2>4
  <2> QED BY <1>f, <2>5, <2>6
<1>3. CASE RecordOutcome
  <2>1. /\ ctrl.pc = "outcome" /\ ctrl'.pc = "seq" /\ ctrl'.executed = ctrl.executed
        /\ ctrl.executed \in BOOLEAN
        /\ ctrl.reason \in Queue!OutcomeReasons \cup {"none"} /\ (ctrl.executed <=> ctrl.reason = "none")
        /\ http' = http /\ tape' = tape /\ journal' = journal
    BY <1>0, <1>3, GotoTyped DEF RecordOutcome, CtrlPlaces, Working, Typed, fileVars, Ctrl
  <2>a. LK' = LK /\ D' = D /\ N' = N /\ LJ' = LJ /\ tape' = tape
    BY <1>b, <2>1 DEF LK
  <2>2. CASE ctrl.executed
    <3>1. stats' = [stats EXCEPT !.executed = @ + 1]
      BY <1>3, <2>2 DEF RecordOutcome, Queue!OutcomeExecuted
    <3>2. X' = X + 1 /\ R' = R
      BY <3>1 DEF Queue!Stats, R, X
    <3>3. uT = 0 /\ uF = 0 /\ uT' = 1 /\ uF' = 0 /\ hW' = hW /\ cT' = cT /\ hT' = hT
      BY <2>1, <2>2 DEF uT, uF, hW, cT, hT, Unwritten, Due
    <3>4. X' = D' + uT' /\ R' = N' + uF' + hW' /\ LJ' = D' + N' /\ LJ' = LK' + cT' + hT'
      BY <1>a, <1>c, <1>d, <2>a, <3>2, <3>3
    <3> QED BY <1>f, <2>a, <3>4
  <2>3. CASE ~ctrl.executed
    <3>1. stats' = [stats EXCEPT !.rejected[ctrl.reason] = @ + 1]
      BY <1>3, <2>3 DEF RecordOutcome, Queue!OutcomeRejected
    <3>2. ctrl.reason \in Queue!Reasons
      BY <2>1, <2>3 DEF Queue!Reasons
    <3>3. stats'.executed = stats.executed /\ stats'.rejected = [stats.rejected EXCEPT ![ctrl.reason] = @ + 1]
      BY <3>1 DEF Queue!Stats
    <3>4. X' = X /\ R' = R + 1
      BY <1>0, <3>2, <3>3, RefusalsOneMore DEF R, X
    <3>5. uT = 0 /\ uF = 0 /\ uT' = 0 /\ uF' = 1 /\ hW' = hW /\ cT' = cT /\ hT' = hT
      BY <2>1, <2>3 DEF uT, uF, hW, cT, hT, Unwritten, Due
    <3>6. X' = D' + uT' /\ R' = N' + uF' + hW' /\ LJ' = D' + N' /\ LJ' = LK' + cT' + hT'
      BY <1>a, <1>c, <1>d, <2>a, <3>4, <3>5
    <3> QED BY <1>f, <2>a, <3>6
  <2> QED BY <2>2, <2>3
<1>4. CASE HttpLine
  <2> DEFINE line == [seq |-> http.seq, cid |-> http.cmd.cid, executed |-> FALSE, effect |-> lastEffect]
  <2>1. /\ http.pc = "line" /\ http'.pc = "tape" /\ journal' = Append(journal, line)
        /\ UNCHANGED <<stats, ctrl, tape>>
    BY <1>0, <1>4 DEF HttpLine, queueVars, Http
  <2>2. http.cmd.cid \in Cids /\ http.seq \in Nat
    BY <1>0, <2>1 DEF Typed, Http, Queue!Command
  <2>3. line \in JournalLine /\ line.executed = FALSE
    BY <1>0, <2>2 DEF JournalLine
  <2> HIDE DEF line
  <2>4. D' = D + Due(line.executed = TRUE) /\ N' = N + Due(line.executed = FALSE)
    <3>1. journal \in Seq(JournalLine) /\ line \in JournalLine /\ journal' = Append(journal, line)
      BY <1>0, <2>1, <2>3
    <3>2. Lines(TRUE)' = Lines(TRUE) + Due(line.executed = TRUE)
      BY <3>1, LineOneMore
    <3>3. Lines(FALSE)' = Lines(FALSE) + Due(line.executed = FALSE)
      BY <3>1, LineOneMore
    <3> QED BY <3>2, <3>3 DEF D, N
  <2>5. D' = D /\ N' = N + 1 /\ LJ' = LJ + 1 /\ R' = R /\ X' = X /\ LK' = LK /\ tape' = tape
    BY <1>0, <1>a, <2>1, <2>3, <2>4 DEF Due, R, X, LJ, LK
  <2>6. uT' = uT /\ uF' = uF /\ hW = 1 /\ hW' = 0 /\ hT = 0 /\ hT' = 1 /\ cT' = cT
    BY <2>1 DEF uT, uF, hW, cT, hT, Unwritten, Due
  <2>7. X' = D' + uT' /\ R' = N' + uF' + hW' /\ LJ' = D' + N' /\ LJ' = LK' + cT' + hT'
    BY <1>a, <1>c, <1>d, <2>5, <2>6
  <2> QED BY <1>f, <2>5, <2>7
<1>5. CASE CtrlLine
  <2> DEFINE line == [seq |-> ctrl.seq, cid |-> ctrl.cmd.cid, executed |-> ctrl.executed,
                      effect |-> IF ctrl.reason = "timing" THEN NoCid ELSE lastEffect]
  <2>1. /\ ctrl.pc = "line" /\ ctrl'.pc = "tape" /\ ctrl'.executed = ctrl.executed
        /\ journal' = Append(journal, line) /\ UNCHANGED <<stats, http, tape>>
    BY <1>0, <1>5, GotoTyped DEF CtrlLine, queueVars, CtrlPlaces, Working
  <2>2. ctrl.cmd.cid \in Cids /\ ctrl.seq \in Nat /\ ctrl.executed \in BOOLEAN
    BY <1>0, <2>1 DEF Typed, Ctrl, Working, Queue!Payload
  <2>3. line \in JournalLine /\ line.executed = ctrl.executed
    BY <1>0, <2>2 DEF JournalLine
  <2> HIDE DEF line
  <2>4. D' = D + Due(line.executed = TRUE) /\ N' = N + Due(line.executed = FALSE)
    <3>1. journal \in Seq(JournalLine) /\ line \in JournalLine /\ journal' = Append(journal, line)
      BY <1>0, <2>1, <2>3
    <3>2. Lines(TRUE)' = Lines(TRUE) + Due(line.executed = TRUE)
      BY <3>1, LineOneMore
    <3>3. Lines(FALSE)' = Lines(FALSE) + Due(line.executed = FALSE)
      BY <3>1, LineOneMore
    <3> QED BY <3>2, <3>3 DEF D, N
  <2>5. LJ' = LJ + 1 /\ R' = R /\ X' = X /\ LK' = LK /\ tape' = tape
    BY <1>0, <2>1, <2>3 DEF R, X, LJ, LK
  <2>6. CASE ctrl.executed
    <3>1. uT = 1 /\ uF = 0 /\ uT' = 0 /\ uF' = 0 /\ cT = 0 /\ cT' = 1 /\ hW' = hW /\ hT' = hT
      BY <2>1, <2>2, <2>6 DEF uT, uF, hW, cT, hT, Unwritten, Due
    <3>2. D' = D + 1 /\ N' = N
      BY <1>a, <2>2, <2>3, <2>4, <2>6 DEF Due
    <3>3. X' = D' + uT' /\ R' = N' + uF' + hW' /\ LJ' = D' + N' /\ LJ' = LK' + cT' + hT'
      BY <1>a, <1>c, <1>d, <2>5, <3>1, <3>2
    <3> QED BY <1>f, <2>5, <3>3
  <2>7. CASE ~ctrl.executed
    <3>1. uT = 0 /\ uF = 1 /\ uT' = 0 /\ uF' = 0 /\ cT = 0 /\ cT' = 1 /\ hW' = hW /\ hT' = hT
      BY <2>1, <2>2, <2>7 DEF uT, uF, hW, cT, hT, Unwritten, Due
    <3>2. D' = D /\ N' = N + 1
      BY <1>a, <2>2, <2>3, <2>4, <2>7 DEF Due
    <3>3. X' = D' + uT' /\ R' = N' + uF' + hW' /\ LJ' = D' + N' /\ LJ' = LK' + cT' + hT'
      BY <1>a, <1>c, <1>d, <2>5, <3>1, <3>2
    <3> QED BY <1>f, <2>5, <3>3
  <2> QED BY <2>6, <2>7
<1>6. CASE HttpTape \/ CtrlTape
  <2>1. \E line \in TapeLine :
          /\ tape' = Append(tape, line) /\ (line.executed <=> line.reason = "none")
    <3>1. CASE HttpTape
      <4>1. http.pc = "tape"
        BY <3>1 DEF HttpTape
      <4>2. /\ http.cmd.cid \in Cids /\ http.seq \in Nat /\ http.reason \in Queue!RefusalReasons
        BY <1>0, <4>1 DEF Typed, Http, Queue!Command
      <4>3. [seq |-> http.seq, cid |-> http.cmd.cid, executed |-> FALSE, reason |-> http.reason] \in TapeLine
        BY <4>2 DEF TapeLine, Queue!Reasons
      <4>4. http.reason # "none"
        BY <4>2 DEF Queue!RefusalReasons, Queue!Forms
      <4> QED BY <3>1, <4>3, <4>4 DEF HttpTape
    <3>2. CASE CtrlTape
      <4>1. ctrl.pc = "tape"
        BY <3>2 DEF CtrlTape
      <4>2. /\ ctrl.cmd.cid \in Cids /\ ctrl.seq \in Nat /\ ctrl.reason \in Queue!Reasons \cup {"none"}
            /\ ctrl.executed \in BOOLEAN /\ (ctrl.executed <=> ctrl.reason = "none")
        BY <1>0, <4>1 DEF Typed, Ctrl, Working, Queue!Payload, Queue!Reasons
      <4>3. [seq |-> ctrl.seq, cid |-> ctrl.cmd.cid, executed |-> ctrl.executed, reason |-> ctrl.reason]
              \in TapeLine
        BY <4>2 DEF TapeLine
      <4> QED BY <3>2, <4>2, <4>3 DEF CtrlTape
    <3> QED BY <1>6, <3>1, <3>2
  <2>2. LK' = LK + 1
    BY <1>0, <2>1 DEF LK
  <2>6. \A i \in DOMAIN tape' : tape'[i].executed <=> tape'[i].reason = "none"
    BY <1>0, <1>f, <2>1
  <2>3. D' = D /\ N' = N /\ LJ' = LJ /\ X' = X /\ R' = R
    BY <1>6, <1>b DEF HttpTape, CtrlTape, queueVars, R, X
  <2>4. /\ uT' = uT /\ uF' = uF /\ hW' = hW
        /\ \/ cT' = cT /\ hT = 1 /\ hT' = 0
           \/ hT' = hT /\ cT = 1 /\ cT' = 0
    <3>1. CASE HttpTape
      <4>1. http.pc = "tape" /\ http'.pc = "idle" /\ ctrl' = ctrl
        BY <3>1 DEF HttpTape
      <4> QED BY <4>1 DEF uT, uF, hW, cT, hT, Unwritten, Due
    <3>2. CASE CtrlTape
      <4>1. ctrl.pc = "tape" /\ ctrl'.pc = "next" /\ http' = http
        BY <1>0, <3>2, TapedTyped DEF CtrlTape
      <4> QED BY <4>1 DEF uT, uF, hW, cT, hT, Unwritten, Due
    <3> QED BY <1>6, <3>1, <3>2
  <2>5. X' = D' + uT' /\ R' = N' + uF' + hW' /\ LJ' = D' + N'
    BY <1>c, <2>3, <2>4
  <2>7. LJ' = LK' + cT' + hT'
    <3>1. CASE cT' = cT /\ hT = 1 /\ hT' = 0
      BY <1>a, <1>c, <1>d, <2>2, <2>3, <3>1
    <3>2. CASE hT' = hT /\ cT = 1 /\ cT' = 0
      BY <1>a, <1>c, <1>d, <2>2, <2>3, <3>2
    <3> QED BY <2>4, <3>1, <3>2
  <2> QED BY <2>5, <2>6, <2>7
<1> QED BY <1>1, <1>2, <1>3, <1>4, <1>5, <1>6, BookSteps

\* While the controller has nothing under way, what was executed is so many lines of the
\* journal and of the tape; only the HTTP thread may be between the counter and a line.
LEMMA AtRest ==
  ASSUME Typed, stats \in Queue!Stats, Booked, CountersMatchTape, ctrl.pc \notin {"seq", "line", "tape"}
  PROVE  /\ stats.executed = Lines(TRUE)
         /\ stats.executed = Cardinality({i \in DOMAIN tape : tape[i].executed})
         /\ Cardinality(Refusals(stats.rejected)) <= Lines(FALSE) + 1
         /\ Len(journal) = Lines(TRUE) + Lines(FALSE)
         /\ Len(journal) <= Len(tape) + 1
<1>1. /\ stats.executed \in Nat /\ Cardinality(Refusals(stats.rejected)) \in Nat
      /\ Lines(TRUE) \in Nat /\ Lines(FALSE) \in Nat /\ Len(journal) \in Nat /\ Len(tape) \in Nat
  <2>1. /\ stats.executed \in Nat /\ stats.rejected \in [Queue!Reasons -> Nat]
        /\ journal \in Seq(JournalLine) /\ tape \in Seq(TapeLine)
    BY DEF Queue!Stats, Typed
  <2>2. Cardinality(Refusals(stats.rejected)) \in Nat
    BY <2>1, RefusalsFinite
  <2>3. Lines(TRUE) \in Nat /\ Lines(FALSE) \in Nat
    BY <2>1, LinesTyped
  <2>4. Len(journal) \in Nat /\ Len(tape) \in Nat
    BY <2>1
  <2> QED BY <2>1, <2>2, <2>3, <2>4
<1>2. /\ Unwritten(TRUE) = 0 /\ Unwritten(FALSE) = 0 /\ Due(ctrl.pc = "tape") = 0
      /\ Due(http.pc \in {"seq", "line"}) \in 0..1 /\ Due(http.pc = "tape") \in 0..1
  BY DEF Unwritten, Due
<1>3. /\ stats.executed = Lines(TRUE) + Unwritten(TRUE)
      /\ Cardinality(Refusals(stats.rejected)) = Lines(FALSE) + Unwritten(FALSE) + Due(http.pc \in {"seq", "line"})
      /\ Len(journal) = Lines(TRUE) + Lines(FALSE)
      /\ Len(journal) = Len(tape) + Due(ctrl.pc = "tape") + Due(http.pc = "tape")
  BY DEF Booked
<1>4. stats.executed = Cardinality({i \in DOMAIN tape : tape[i].executed})
  <2>1. Pending("none") = 0
    <3>1. http.pc # "idle" => http.reason # "none"
      BY DEF Typed, Queue!RefusalReasons, Queue!Forms
    <3> QED BY <3>1 DEF Pending
  <2>2. TapedAs("none") = {i \in DOMAIN tape : tape[i].executed}
    BY DEF TapedAs, Booked
  <2>a. tape \in Seq(TapeLine) /\ DOMAIN tape = 1..Len(tape)
    BY DEF Typed
  <2>3. IsFiniteSet(1..Len(tape)) /\ TapedAs("none") \subseteq 1..Len(tape)
    BY <1>1, <2>a, FS_Interval DEF TapedAs
  <2>4. Cardinality(TapedAs("none")) \in Nat
    BY <2>3, FS_Subset, FS_CardinalityType
  <2>5. stats.executed = Cardinality(TapedAs("none")) + Pending("none")
    BY DEF CountersMatchTape
  <2>6. stats.executed = Cardinality(TapedAs("none"))
    BY <2>1, <2>4, <2>5
  <2> QED BY <2>2, <2>6
<1> DEFINE x == stats.executed
           refused == Cardinality(Refusals(stats.rejected))
           did == Lines(TRUE)
           didNot == Lines(FALSE)
           lj == Len(journal)
           lt == Len(tape)
           w == Due(http.pc \in {"seq", "line"})
           t == Due(http.pc = "tape")
<1>5. /\ x = did + 0 /\ refused = didNot + 0 + w /\ lj = lt + 0 + t
      /\ x \in Nat /\ refused \in Nat /\ did \in Nat /\ didNot \in Nat /\ lj \in Nat /\ lt \in Nat
      /\ w \in 0..1 /\ t \in 0..1
  BY <1>1, <1>2, <1>3
<1> HIDE DEF x, refused, did, didNot, lj, lt, w, t
<1>6. x = did /\ refused <= didNot + 1 /\ lj <= lt + 1
  BY <1>5
<1> QED BY <1>3, <1>4, <1>6 DEF x, refused, did, didNot, lj, lt

Finalizing == {"copy", "count", "bundle", "stop", "done"}

\* While a run is finalised, the HTTP thread goes on refusing: counters and journal grow.
LEMMA OtherSteps ==
  ASSUME Typed, stats \in Queue!Stats, [Next]_vars, ~Finalize
  PROVE  /\ report' = report
         /\ \/ ctrl.pc \notin Finalizing /\ ctrl'.pc \notin Finalizing
            \/ /\ ctrl' = ctrl /\ stats'.executed = stats.executed
               /\ \A r \in Queue!Reasons : stats.rejected[r] <= stats'.rejected[r]
               /\ Len(journal) <= Len(journal')
<1>0. /\ ctrl \in Ctrl /\ journal \in Seq(JournalLine) /\ Len(journal) \in Nat
      /\ stats.rejected \in [Queue!Reasons -> Nat]
  BY DEF Typed, Queue!Stats
<1>1. ASSUME NEW c \in Queue!Command, Submit(c)
      PROVE  /\ report' = report /\ ctrl' = ctrl /\ stats'.executed = stats.executed
             /\ \A r \in Queue!Reasons : stats.rejected[r] <= stats'.rejected[r]
             /\ Len(journal) <= Len(journal')
  <2>1. report' = report /\ ctrl' = ctrl /\ journal' = journal
    BY <1>1 DEF Submit, fileVars
  <2>2. /\ stats'.executed = stats.executed
        /\ \A r \in Queue!Reasons : stats.rejected[r] <= stats'.rejected[r]
    <3>1. CASE Queue!Accept(c)
      <4>1. stats'.executed = stats.executed /\ stats'.rejected = stats.rejected
        BY <3>1 DEF Queue!Accept, Queue!Stats
      <4> QED BY <1>0, <4>1
    <3>2. CASE Queue!Refuse(c)
      <4> DEFINE v == Queue!Verdict(c)
      <4>1. stats' = [stats EXCEPT !.rejected[v] = @ + 1]
        BY <3>2 DEF Queue!Refuse
      <4> HIDE DEF v
      <4>2. stats'.executed = stats.executed /\ stats'.rejected = [stats.rejected EXCEPT ![v] = @ + 1]
        BY <4>1 DEF Queue!Stats
      <4> QED BY <1>0, <4>2
    <3> QED BY <1>1, <3>1, <3>2 DEF Submit
  <2> QED BY <1>0, <2>1, <2>2
<1>2. CASE \/ \E c \in Queue!Command, r \in {"active", "other"} : RefuseAtIngest(c, r)
           \/ Clock \/ HttpSeq \/ HttpTape \/ UNCHANGED vars
  <2>1. report' = report /\ ctrl' = ctrl /\ stats' = stats /\ journal' = journal
    BY <1>2 DEF RefuseAtIngest, Clock, Queue!Tick, HttpSeq, HttpTape, vars, fileVars, queueVars
  <2> QED BY <1>0, <2>1
<1>3. CASE HttpLine
  <2>1. report' = report /\ ctrl' = ctrl /\ stats' = stats /\ \E line : journal' = Append(journal, line)
    BY <1>3 DEF HttpLine, queueVars
  <2>2. Len(journal') = Len(journal) + 1
    BY <1>0, <2>1
  <2> QED BY <1>0, <2>1, <2>2
<1>4. CASE CtrlStep \/ RollEvent
  <2>1. CASE RollEvent \/ BatchDone \/ RecordOutcome \/ CtrlLine
    <3>1. \E p \in {"drain", "table", "seq", "tape"} : Goto(p)
      BY <2>1 DEF RollEvent, BatchDone, RecordOutcome, CtrlLine
    <3>2. report' = report /\ ctrl.pc \notin Finalizing
      BY <2>1 DEF RollEvent, BatchDone, RecordOutcome, CtrlLine, fileVars, Finalizing
    <3> QED BY <1>0, <3>1, <3>2, GotoTyped DEF CtrlPlaces, Working, Finalizing
  <2>2. CASE DrainQueue
    BY <1>0, <2>2, DrainTyped DEF DrainQueue, fileVars, Typed, Finalizing
  <2>3. CASE ExecuteRaises
    BY <1>0, <2>3, RaisedTyped DEF ExecuteRaises, FirstInRoll, fileVars, Finalizing
  <2>4. CASE DuplicateInRoll \/ IllegalTiming \/ Execute \/ ExecuteRefused
    <3>1. \E e \in BOOLEAN, r \in Queue!OutcomeReasons \cup {"none"} : Judge(e, r)
      BY <2>4, JudgeCases
    <3> QED BY <3>1, JudgedTyped DEF Judge, fileVars, Finalizing
  <2>5. CASE CtrlSeq
    BY <1>0, <2>5, NumberTyped DEF CtrlSeq, Finalizing, Typed
  <2>6. CASE CtrlTape
    BY <1>0, <2>6, TapedTyped DEF CtrlTape, Finalizing
  <2> QED BY <1>4, <2>1, <2>2, <2>3, <2>4, <2>5, <2>6 DEF CtrlStep
<1> QED BY <1>1, <1>2, <1>3, <1>4 DEF Next, HttpStep

\* What each step of finalize_run makes of the report is so.
LEMMA ToldStep ==
  ASSUME Typed, Typed', stats \in Queue!Stats, (stats \in Queue!Stats)', report \in Report,
         Booked, CountersMatchTape, Told, [Next]_vars
  PROVE  Told'
<1>0. /\ ctrl \in Ctrl /\ stats.rejected \in [Queue!Reasons -> Nat] /\ stats.executed \in Nat
      /\ report.rejected \in [Queue!Reasons -> Nat] /\ report.executed \in Nat
      /\ report.did \in Nat /\ report.didNot \in Nat /\ report.tape \in Seq(TapeLine)
      /\ journal \in Seq(JournalLine) /\ Len(journal) \in Nat /\ tape \in Seq(TapeLine) /\ Len(tape) \in Nat
      /\ stats'.rejected \in [Queue!Reasons -> Nat] /\ Len(journal') \in Nat
  BY SMTT(30) DEF Typed, Queue!Stats, Report
<1>1. CASE ~Finalize
  <2>1. report' = report
    BY <1>1, OtherSteps
  <2>2. CASE ctrl.pc \notin Finalizing /\ ctrl'.pc \notin Finalizing
    BY <2>1, <2>2 DEF Told, ReportAgrees, Finalizing
  <2>3. CASE /\ ctrl' = ctrl /\ stats'.executed = stats.executed
             /\ \A r \in Queue!Reasons : stats.rejected[r] <= stats'.rejected[r]
             /\ Len(journal) <= Len(journal')
    <3>1. ReportAgrees'
      BY <2>1, <2>3 DEF Told, ReportAgrees
    <3>2. ctrl'.pc \in {"copy", "count"} => \A r \in Queue!Reasons : report'.rejected[r] <= stats'.rejected[r]
      <4> SUFFICES ASSUME ctrl.pc \in {"copy", "count"}, NEW r \in Queue!Reasons
                   PROVE  report.rejected[r] <= stats'.rejected[r]
        BY <2>1, <2>3
      <4>1. report.rejected[r] <= stats.rejected[r] /\ stats.rejected[r] <= stats'.rejected[r]
        BY <2>3 DEF Told
      <4>2. report.rejected[r] \in Nat /\ stats.rejected[r] \in Nat /\ stats'.rejected[r] \in Nat
        BY <1>0
      <4> QED BY <4>1, <4>2
    <3>3. ctrl'.pc = "bundle" => /\ report'.did = stats'.executed
                                 /\ report'.did + report'.didNot <= Len(journal')
      <4> SUFFICES ASSUME ctrl.pc = "bundle"
                   PROVE  /\ report.did = stats'.executed
                          /\ report.did + report.didNot <= Len(journal')
        BY <2>1, <2>3
      <4>1. report.did = stats.executed /\ report.did + report.didNot <= Len(journal)
        BY DEF Told
      <4>2. report.did + report.didNot \in Nat
        BY <1>0
      <4> QED BY <1>0, <2>3, <4>1, <4>2
    <3>4. ctrl'.pc = "count" => report'.executed = stats'.executed
      BY <2>1, <2>3 DEF Told
    <3>5. ctrl'.pc \notin {"copy", "count", "bundle", "stop", "done"} => report' = NoReport
      BY <2>1, <2>3 DEF Told
    <3> QED BY <3>1, <3>2, <3>3, <3>4, <3>5 DEF Told
  <2> QED BY <1>1, <2>1, <2>2, <2>3, OtherSteps
<1>2. CASE FinalizeRun
  <2>1. ctrl.pc = "table" /\ UNCHANGED stats
    BY <1>2 DEF FinalizeRun, queueVars
  <2>2. report = NoReport
    BY <2>1 DEF Told
  <2>3. CASE Goto("stop") /\ UNCHANGED report
    <3>1. ctrl'.pc = "stop" /\ report' = NoReport
      BY <1>0, <2>2, <2>3, GotoTyped DEF CtrlPlaces
    <3>2. ReportAgrees'
      <4>1. /\ report'.rejected = [r \in Queue!Reasons |-> 0] /\ report'.executed = 0
            /\ report'.did = 0 /\ report'.didNot = 0 /\ report'.tape = <<>>
        BY <3>1 DEF NoReport
      <4>2. Cardinality(Refusals(report'.rejected)) = 0
        BY <4>1, RefusalsNone
      <4>3. {i \in DOMAIN report'.tape : report'.tape[i].executed} = {} /\ Len(report'.tape) = 0
        BY <4>1
      <4>4. Cardinality({i \in DOMAIN report'.tape : report'.tape[i].executed}) = 0
        BY <4>3, FS_EmptySet
      <4> QED BY <4>1, <4>2, <4>3, <4>4 DEF ReportAgrees
    <3> QED BY <3>1, <3>2 DEF Told
  <2>4. CASE Goto("copy") /\ report' = [report EXCEPT !.rejected = stats.rejected]
    <3>1. ctrl'.pc = "copy"
      BY <1>0, <2>4, GotoTyped DEF CtrlPlaces
    <3>2. report'.rejected = stats'.rejected
      BY <2>1, <2>4 DEF Report
    <3>3. \A r \in Queue!Reasons : report'.rejected[r] <= stats'.rejected[r]
      BY <1>0, <3>2
    <3> QED BY <3>1, <3>3 DEF Told, ReportAgrees
  <2> QED BY <1>2, <2>3, <2>4 DEF FinalizeRun
<1>3. CASE CopyStats
  <2>1. ctrl.pc = "copy" /\ UNCHANGED stats
    BY <1>3 DEF CopyStats, queueVars
  <2>2. PICK late \in SUBSET {r \in Queue!Reasons : report.rejected[r] # stats.rejected[r]} :
          report' = [report EXCEPT !.executed = stats.executed,
                       !.rejected = [r \in Queue!Reasons |-> IF r \in late THEN stats.rejected[r] ELSE @[r]]]
    BY <1>3 DEF CopyStats
  <2> DEFINE copy == [r \in Queue!Reasons |-> IF r \in late THEN stats.rejected[r] ELSE report.rejected[r]]
  <2>3. report' = [report EXCEPT !.executed = stats.executed, !.rejected = copy]
    BY <2>2
  <2>4. \A r \in Queue!Reasons : copy[r] <= stats.rejected[r]
    <3> SUFFICES ASSUME NEW r \in Queue!Reasons PROVE copy[r] <= stats.rejected[r]
      OBVIOUS
    <3>1. report.rejected[r] <= stats.rejected[r]
      BY <2>1 DEF Told
    <3>2. report.rejected[r] \in Nat /\ stats.rejected[r] \in Nat
      BY <1>0
    <3> QED BY <3>1, <3>2
  <2> HIDE DEF copy
  <2>5. report'.executed = stats.executed /\ report'.rejected = copy
    BY <2>3 DEF Report
  <2>6. ctrl'.pc = "count"
    BY <1>0, <1>3, GotoTyped DEF CopyStats, CtrlPlaces
  <2> QED BY <2>1, <2>4, <2>5, <2>6 DEF Told, ReportAgrees
<1>4. CASE CopyRaises
  <2>1. ctrl'.pc = "raised" /\ report' = NoReport
    BY <1>0, <1>4, GotoTyped DEF CopyRaises, CtrlPlaces
  <2> QED BY <2>1 DEF Told, ReportAgrees
<1>5. CASE CountLines
  <2>1. ctrl.pc = "count" /\ UNCHANGED <<stats, journal>>
    BY <1>5 DEF CountLines, queueVars
  <2>2. ctrl'.pc = "bundle"
    BY <1>0, <1>5, GotoTyped DEF CountLines, CtrlPlaces
  <2>3. /\ report'.did = Lines(TRUE) /\ report'.didNot = Lines(FALSE)
        /\ report'.executed = report.executed /\ report'.rejected = report.rejected
    BY <1>5 DEF CountLines, Report, Lines
  <2>4. /\ stats.executed = Lines(TRUE) /\ Cardinality(Refusals(stats.rejected)) <= Lines(FALSE) + 1
        /\ Len(journal) = Lines(TRUE) + Lines(FALSE)
    BY <2>1, AtRest
  <2>5. Cardinality(Refusals(report.rejected)) <= Lines(FALSE) + 1
    <3>1. \A r \in Queue!Reasons : report.rejected[r] <= stats.rejected[r]
      BY <2>1 DEF Told
    <3>2. Cardinality(Refusals(report.rejected)) <= Cardinality(Refusals(stats.rejected))
      BY <1>0, <3>1, RefusalsFewer
    <3>3. /\ Cardinality(Refusals(report.rejected)) \in Nat /\ Cardinality(Refusals(stats.rejected)) \in Nat
          /\ Lines(FALSE) \in Nat
      BY <1>0, RefusalsFinite, LinesTyped
    <3> DEFINE low == Cardinality(Refusals(report.rejected))
               high == Cardinality(Refusals(stats.rejected))
               lines == Lines(FALSE)
    <3>4. low \in Nat /\ high \in Nat /\ lines \in Nat /\ low <= high /\ high <= lines + 1
      BY <2>4, <3>2, <3>3
    <3> HIDE DEF low, high, lines
    <3>5. low <= lines + 1
      BY <3>4
    <3> QED BY <3>5 DEF low, lines
  <2>6. report.executed = stats.executed
    BY <2>1 DEF Told
  <2>7. ReportAgrees'
    BY <2>2, <2>3, <2>4, <2>5, <2>6 DEF ReportAgrees
  <2>8. report'.did = stats'.executed /\ report'.did + report'.didNot <= Len(journal')
    <3>1. report'.did + report'.didNot = Len(journal')
      BY <2>1, <2>3, <2>4
    <3>2. report'.did + report'.didNot <= Len(journal')
      BY <1>0, <3>1
    <3> QED BY <2>1, <2>3, <2>4, <3>2
  <2> QED BY <2>2, <2>7, <2>8 DEF Told
<1>6. CASE Bundle
  <2>1. ctrl.pc = "bundle"
    BY <1>6 DEF Bundle
  <2>2. ctrl'.pc = "stop"
    BY <1>0, <1>6, GotoTyped DEF Bundle, CtrlPlaces
  <2>3. /\ report'.tape = tape /\ report'.did = report.did /\ report'.didNot = report.didNot
        /\ report'.executed = report.executed /\ report'.rejected = report.rejected
    BY <1>6 DEF Bundle, Report
  <2>4. /\ stats.executed = Cardinality({i \in DOMAIN tape : tape[i].executed})
        /\ Len(journal) <= Len(tape) + 1
    BY <2>1, AtRest
  <2>5. /\ report.did = stats.executed /\ report.did + report.didNot <= Len(journal)
        /\ report.executed = report.did /\ Cardinality(Refusals(report.rejected)) <= report.didNot + 1
    BY <2>1 DEF Told, ReportAgrees
  <2>6. Len(tape) + 1 >= report.did + report.didNot
    <3>1. report.did + report.didNot \in Nat
      BY <1>0
    <3> QED BY <1>0, <2>4, <2>5, <3>1
  <2>7. ReportAgrees'
    BY <2>2, <2>3, <2>4, <2>5, <2>6 DEF ReportAgrees
  <2> QED BY <2>2, <2>7 DEF Told
<1>7. CASE StopServer
  <2>1. ctrl.pc = "stop" /\ report' = report
    BY <1>7 DEF StopServer, fileVars
  <2>2. ctrl'.pc = "done"
    BY <1>0, <1>7, GotoTyped DEF StopServer, CtrlPlaces
  <2>3. ReportAgrees'
    BY <2>1, <2>2 DEF Told, ReportAgrees
  <2> QED BY <2>2, <2>3 DEF Told
<1> QED BY <1>1, <1>2, <1>3, <1>4, <1>5, <1>6, <1>7 DEF Finalize

\* At first there is nothing to tell.
LEMMA ToldAtFirst == Init => Booked /\ Told
<1> SUFFICES ASSUME Init PROVE Booked /\ Told
  OBVIOUS
<1>1. /\ journal = <<>> /\ tape = <<>> /\ http.pc = "idle" /\ ctrl.pc = "table" /\ report = NoReport
      /\ stats.executed = 0 /\ stats.rejected = [r \in Queue!Reasons |-> 0]
  BY DEF Init, Queue!Init
<1>2. Lines(TRUE) = 0 /\ Lines(FALSE) = 0
  <2>1. LinesWith(TRUE) = {} /\ LinesWith(FALSE) = {}
    BY <1>1 DEF LinesWith
  <2> QED BY <2>1, FS_EmptySet DEF Lines
<1>3. Cardinality(Refusals(stats.rejected)) = 0
  BY <1>1, RefusalsNone
<1>4. Unwritten(TRUE) = 0 /\ Unwritten(FALSE) = 0 /\ Due(http.pc \in {"seq", "line"}) = 0
      /\ Due(ctrl.pc = "tape") = 0 /\ Due(http.pc = "tape") = 0
  BY <1>1 DEF Unwritten, Due
<1>5. Len(journal) = 0 /\ Len(tape) = 0 /\ DOMAIN tape = {}
  BY <1>1
<1>6. Booked
  <2> DEFINE did == Lines(TRUE)
             didNot == Lines(FALSE)
             uT == Unwritten(TRUE)
             uF == Unwritten(FALSE)
             w == Due(http.pc \in {"seq", "line"})
  <2>0. did = 0 /\ didNot = 0 /\ uT = 0 /\ uF = 0 /\ w = 0
    BY <1>2, <1>4
  <2> HIDE DEF did, didNot, uT, uF, w
  <2>1. stats.executed = did + uT /\ Len(journal) = did + didNot
    BY <1>1, <1>5, <2>0
  <2>2. Cardinality(Refusals(stats.rejected)) = didNot + uF + w
    BY <1>3, <2>0
  <2>3. Len(journal) = Len(tape) + Due(ctrl.pc = "tape") + Due(http.pc = "tape")
    BY <1>4, <1>5
  <2>4. \A i \in DOMAIN tape : tape[i].executed <=> tape[i].reason = "none"
    BY <1>5
  <2> QED BY <2>1, <2>2, <2>3, <2>4 DEF Booked, did, didNot, uT, uF, w
<1> QED BY <1>1, <1>6 DEF Told, ReportAgrees

\* The queue's counters, the journal, the tape and the report agree, though the report
\* is drawn up in three steps beside a thread that goes on refusing commands and no lock
\* is held from one to the next (finalize_run, _reject_locked, record_outcome).
THEOREM StatsCorrect == Spec => []StatsMatchTape
<1>1. Init => Booked /\ Told
  BY ToldAtFirst
<1>2. Typed /\ stats \in Queue!Stats /\ Booked /\ [Next]_vars => Booked'
  BY BookedStep
<1>3. /\ Typed /\ Typed' /\ stats \in Queue!Stats /\ (stats \in Queue!Stats)' /\ report \in Report
      /\ Booked /\ CountersMatchTape /\ Told /\ [Next]_vars
      => Told'
  BY ToldStep
<1>4. CountersMatchTape /\ Told => StatsMatchTape
  BY DEF Told, StatsMatchTape
<1> QED BY <1>1, <1>2, <1>3, <1>4, TypesKept, StatsTyped, ReportTyped, CountersCorrect, PTL DEF Spec

---------------------------------------------------------------------------
(* The commands settled on the tape. *)

Settling(line) == line.executed \/ line.reason \in Queue!OutcomeReasons

\* The elements of S with n elements of S up to them.
RankedIn(S, n) == {i \in S : Cardinality({j \in S : j <= i}) = n}

\* A new greatest element is the last in rank and leaves the other ranks.
LEMMA RankGrows ==
  ASSUME NEW m \in Nat, NEW S \in SUBSET (1..m)
  PROVE  /\ IsFiniteSet(S) /\ Cardinality(S) \in Nat
         /\ Cardinality(S \cup {m + 1}) = Cardinality(S) + 1
         /\ \A n \in 1..Cardinality(S) : RankedIn(S \cup {m + 1}, n) = RankedIn(S, n)
         /\ RankedIn(S \cup {m + 1}, Cardinality(S) + 1) = {m + 1}
<1> DEFINE T == S \cup {m + 1}
           UpTo(R, i) == {j \in R : j <= i}
<1>1. IsFiniteSet(S) /\ Cardinality(S) \in Nat
  <2>1. IsFiniteSet(1..m)
    BY FS_Interval
  <2> QED BY <2>1, FS_Subset, FS_CardinalityType
<1>2. m + 1 \notin S /\ Cardinality(T) = Cardinality(S) + 1
  BY <1>1, FS_AddElement
<1>3. \A i \in S : UpTo(T, i) = UpTo(S, i)
  OBVIOUS
<1>4. UpTo(T, m + 1) = T
  <2>1. \A j \in T : j <= m + 1
    OBVIOUS
  <2> QED BY <2>1, Zenon
<1>5. \A i \in S : Cardinality(UpTo(S, i)) <= Cardinality(S)
  BY <1>1, FS_Subset
<1>6. ASSUME NEW n \in 1..Cardinality(S) PROVE RankedIn(T, n) = RankedIn(S, n)
  <2>1. \A i \in T : Cardinality(UpTo(T, i)) = n <=> i \in S /\ Cardinality(UpTo(S, i)) = n
    <3>1. Cardinality(UpTo(T, m + 1)) # n
      BY <1>1, <1>2, <1>4
    <3> QED BY <1>2, <1>3, <3>1
  <2> QED BY <2>1 DEF RankedIn
<1>7. RankedIn(T, Cardinality(S) + 1) = {m + 1}
  <2>1. \A i \in T : Cardinality(UpTo(T, i)) = Cardinality(S) + 1 <=> i = m + 1
    <3>1. \A i \in S : Cardinality(UpTo(S, i)) # Cardinality(S) + 1
      BY <1>1, <1>5
    <3> QED BY <1>2, <1>3, <1>4, <3>1
  <2> QED BY <2>1 DEF RankedIn
<1> QED BY <1>1, <1>2, <1>6, <1>7

\* The controller settles the commands handed over one after the other: all that it
\* has taken up, but for the one in hand.
SettledInOrder ==
  /\ Cardinality(SettleLines) = IF ctrl.pc \in Working THEN Taken - 1 ELSE Taken
  /\ ctrl.pc \in Working => ctrl.cmd = delivered[Taken]
  /\ \A n \in 1..Cardinality(SettleLines) :
       /\ RankedIn(SettleLines, n) # {}
       /\ tape[TheOne(RankedIn(SettleLines, n))].cid = delivered[n].cid

\* A line appended to the tape settles a command or does not.
LEMMA SettleGrows ==
  ASSUME tape \in Seq(TapeLine), NEW line \in TapeLine, tape' = Append(tape, line)
  PROVE  /\ SettleLines \in SUBSET (1..Len(tape)) /\ Len(tape) \in Nat
         /\ SettleLines' = IF Settling(line) THEN SettleLines \cup {Len(tape) + 1} ELSE SettleLines
         /\ tape'[Len(tape) + 1] = line
         /\ \A n : RankedIn(SettleLines, n) # {} =>
              /\ TheOne(RankedIn(SettleLines, n)) \in DOMAIN tape
              /\ tape'[TheOne(RankedIn(SettleLines, n))] = tape[TheOne(RankedIn(SettleLines, n))]
<1>1. /\ DOMAIN tape = 1..Len(tape) /\ DOMAIN tape' = DOMAIN tape \cup {Len(tape) + 1}
      /\ Len(tape) \in Nat /\ Len(tape) + 1 \notin DOMAIN tape
      /\ tape'[Len(tape) + 1] = line /\ \A i \in DOMAIN tape : tape'[i] = tape[i]
  OBVIOUS
<1>2. SettleLines \in SUBSET (1..Len(tape))
  BY <1>1 DEF SettleLines
<1>3. SettleLines' = IF Settling(line) THEN SettleLines \cup {Len(tape) + 1} ELSE SettleLines
  BY <1>1 DEF SettleLines, Settling
<1>4. ASSUME NEW n, RankedIn(SettleLines, n) # {}
      PROVE  TheOne(RankedIn(SettleLines, n)) \in DOMAIN tape
  <2>1. TheOne(RankedIn(SettleLines, n)) \in RankedIn(SettleLines, n)
    BY <1>4 DEF TheOne
  <2> QED BY <1>1, <1>2, <2>1 DEF RankedIn
<1> QED BY <1>1, <1>2, <1>3, <1>4

\* The steps, as far as settling is concerned.
LEMMA SettleSteps ==
  ASSUME Typed, ~CanRaise, [Next]_vars
  PROVE  \/ /\ UNCHANGED <<tape, delivered>> /\ ctrl'.batch = ctrl.batch
            /\ ctrl.pc \in Working <=> ctrl'.pc \in Working
            /\ ctrl.pc \in Working => ctrl'.cmd = ctrl.cmd
         \/ /\ tape' = tape /\ delivered' = delivered \o q /\ ctrl.batch = <<>> /\ ctrl'.batch = q
            /\ ctrl.pc \notin Working /\ ctrl'.pc \notin Working
         \/ /\ UNCHANGED <<tape, delivered>>
            /\ ctrl.batch # <<>> /\ ctrl'.batch = Tail(ctrl.batch) /\ ctrl'.cmd = Head(ctrl.batch)
            /\ ctrl.pc \notin Working /\ ctrl'.pc \in Working
         \/ /\ UNCHANGED <<delivered, ctrl>>
            /\ \E line \in TapeLine : tape' = Append(tape, line) /\ ~Settling(line)
         \/ /\ delivered' = delivered /\ ctrl'.batch = ctrl.batch
            /\ ctrl.pc \in Working /\ ctrl'.pc \notin Working
            /\ \E line \in TapeLine : tape' = Append(tape, line) /\ Settling(line) /\ line.cid = ctrl.cmd.cid
<1>0. ctrl \in Ctrl /\ http \in Http /\ journalSeq \in Nat /\ q \in Seq(Queue!Payload)
  BY DEF Typed
<1>1. ASSUME NEW c \in Queue!Command, Submit(c)
      PROVE  UNCHANGED <<tape, delivered, ctrl>>
  BY <1>1 DEF Submit, Queue!Accept, Queue!Refuse, fileVars
<1>2. CASE \/ \E c \in Queue!Command, r \in {"active", "other"} : RefuseAtIngest(c, r)
           \/ Clock \/ HttpSeq \/ HttpLine \/ UNCHANGED vars
  BY <1>2 DEF RefuseAtIngest, Clock, Queue!Tick, Queue!history, HttpSeq, HttpLine, vars, fileVars, queueVars
<1>3. CASE RollEvent \/ BatchDone \/ CtrlLine
  BY <1>0, <1>3, GotoTyped DEF RollEvent, BatchDone, CtrlLine, CtrlPlaces, Working, queueVars, fileVars
<1>4. CASE RecordOutcome
  <2>1. UNCHANGED <<tape, delivered>> /\ ctrl.pc = "outcome"
    BY <1>4 DEF RecordOutcome, Queue!OutcomeExecuted, Queue!OutcomeRejected, fileVars
  <2>2. ctrl'.pc = "seq" /\ ctrl'.cmd = ctrl.cmd /\ ctrl'.batch = ctrl.batch
    BY <1>0, <1>4, GotoTyped DEF RecordOutcome, CtrlPlaces, Working
  <2> QED BY <2>1, <2>2 DEF Working
<1>5. CASE Finalize
  <2>1. \E p \in {"copy", "stop", "count", "raised", "bundle", "done"} : Goto(p)
    BY <1>5 DEF Finalize, FinalizeRun, CopyStats, CopyRaises, CountLines, Bundle, StopServer
  <2>2. UNCHANGED <<tape, delivered>> /\ ctrl.pc \notin Working
    BY <1>5 DEF Finalize, FinalizeRun, CopyStats, CopyRaises, CountLines, Bundle, StopServer, queueVars,
                fileVars, Working
  <2>3. ctrl'.pc \notin Working /\ ctrl'.batch = ctrl.batch
    BY <1>0, <2>1, GotoTyped DEF CtrlPlaces, Working
  <2> QED BY <2>2, <2>3
<1>6. CASE DrainQueue
  <2>1. UNCHANGED tape /\ delivered' = delivered \o q /\ ctrl.pc = "drain"
    BY <1>6 DEF DrainQueue, Queue!Drain, fileVars
  <2>2. ctrl.batch = <<>>
    BY <2>1 DEF Typed, Working
  <2> QED BY <1>0, <1>6, <2>1, <2>2, DrainTyped DEF Working
<1>7. CASE DuplicateInRoll \/ IllegalTiming \/ Execute \/ ExecuteRefused
  <2>1. \E e \in BOOLEAN, r \in Queue!OutcomeReasons \cup {"none"} : Judge(e, r)
    BY <1>7, JudgeCases
  <2> QED BY <2>1, JudgedTyped DEF Judge, queueVars, fileVars, Working
<1>8. CASE CtrlSeq
  BY <1>0, <1>8, NumberTyped DEF CtrlSeq, queueVars, Working
<1>9. CASE HttpTape
  <2> DEFINE line == [seq |-> http.seq, cid |-> http.cmd.cid, executed |-> FALSE, reason |-> http.reason]
  <2>1. http.pc = "tape" /\ tape' = Append(tape, line) /\ UNCHANGED <<delivered, ctrl>>
    BY <1>9 DEF HttpTape, queueVars
  <2>2. http.cmd.cid \in Cids /\ http.seq \in Nat /\ http.reason \in Queue!RefusalReasons
    BY <1>0, <2>1 DEF Typed, Http, Queue!Command
  <2>3. line \in TapeLine /\ line.executed = FALSE /\ line.reason = http.reason
    BY <2>2 DEF TapeLine, Queue!Reasons
  <2>4. http.reason \notin Queue!OutcomeReasons
    BY <2>2 DEF Queue!OutcomeReasons, Queue!RefusalReasons, Queue!Forms
  <2> HIDE DEF line
  <2>5. ~Settling(line)
    BY <2>3, <2>4 DEF Settling
  <2> QED BY <2>1, <2>3, <2>5
<1>10. CASE CtrlTape
  <2> DEFINE line == [seq |-> ctrl.seq, cid |-> ctrl.cmd.cid, executed |-> ctrl.executed, reason |-> ctrl.reason]
  <2>1. ctrl.pc = "tape" /\ tape' = Append(tape, line) /\ delivered' = delivered
    BY <1>10 DEF CtrlTape, queueVars
  <2>2. /\ ctrl.cmd.cid \in Cids /\ ctrl.seq \in Nat /\ ctrl.executed \in BOOLEAN
        /\ ctrl.reason \in Queue!OutcomeReasons \cup {"none"} /\ (ctrl.executed <=> ctrl.reason = "none")
    BY <1>0, <2>1 DEF Typed, Ctrl, Working, Queue!Payload
  <2>3. /\ line \in TapeLine /\ line.executed = ctrl.executed /\ line.reason = ctrl.reason
        /\ line.cid = ctrl.cmd.cid
    BY <2>2 DEF TapeLine, Queue!Reasons
  <2> HIDE DEF line
  <2>4. Settling(line)
    BY <2>2, <2>3 DEF Settling
  <2> QED BY <1>0, <1>10, <2>1, <2>3, <2>4, TapedTyped DEF Working
<1>11. ~ExecuteRaises
  BY DEF ExecuteRaises
<1> QED
  BY <1>1, <1>2, <1>3, <1>4, <1>5, <1>6, <1>7, <1>8, <1>9, <1>10, <1>11 DEF Next, CtrlStep, HttpStep

\* A step settles commands only in the order they were drained in.
LEMMA SettledStep ==
  ASSUME Typed, HandedOverOnce, BatchIsRest, SettledInOrder, ~CanRaise, [Next]_vars
  PROVE  SettledInOrder'
<1>0. /\ delivered \in Seq(Queue!Payload) /\ ctrl.batch \in Seq(Queue!Payload)
      /\ q \in Seq(Queue!Payload) /\ tape \in Seq(TapeLine)
      /\ Len(ctrl.batch) <= Len(delivered)
      /\ Len(ctrl.batch) \in Nat /\ Len(delivered) \in Nat /\ Len(tape) \in Nat
      /\ Taken \in Nat /\ Taken <= Len(delivered)
  BY DEF HandedOverOnce, Typed, Ctrl, BatchIsRest, Taken
<1> DEFINE Count0 == Cardinality(SettleLines)
<1>1. Count0 \in Nat /\ Count0 <= Taken
  <2>1. SettleLines \in SUBSET (1..Len(tape))
    BY <1>0 DEF SettleLines
  <2>2. Count0 \in Nat
    BY <1>0, <2>1, RankGrows
  <2> HIDE DEF Count0
  <2>3. Count0 = IF ctrl.pc \in Working THEN Taken - 1 ELSE Taken
    BY DEF SettledInOrder, Count0
  <2> QED BY <1>0, <2>2, <2>3
<1>2. CASE /\ UNCHANGED <<tape, delivered>> /\ ctrl'.batch = ctrl.batch
           /\ ctrl.pc \in Working <=> ctrl'.pc \in Working
           /\ ctrl.pc \in Working => ctrl'.cmd = ctrl.cmd
  <2>1. SettleLines' = SettleLines /\ Taken' = Taken
    BY <1>2 DEF SettleLines, Taken
  <2> QED BY <1>2, <2>1 DEF SettledInOrder
<1>3. CASE /\ tape' = tape /\ delivered' = delivered \o q /\ ctrl.batch = <<>> /\ ctrl'.batch = q
           /\ ctrl.pc \notin Working /\ ctrl'.pc \notin Working
  <2>1. SettleLines' = SettleLines
    BY <1>3 DEF SettleLines
  <2>2. Taken' = Taken
    BY <1>0, <1>3 DEF Taken
  <2>3. \A n \in 1..Len(delivered) : delivered'[n] = delivered[n]
    BY <1>0, <1>3
  <2>4. \A n \in 1..Cardinality(SettleLines) : delivered'[n] = delivered[n]
    BY <1>0, <1>1, <2>3
  <2> QED BY <1>3, <2>1, <2>2, <2>4 DEF SettledInOrder
<1>4. CASE /\ UNCHANGED <<tape, delivered>>
           /\ ctrl.batch # <<>> /\ ctrl'.batch = Tail(ctrl.batch) /\ ctrl'.cmd = Head(ctrl.batch)
           /\ ctrl.pc \notin Working /\ ctrl'.pc \in Working
  <2>1. SettleLines' = SettleLines
    BY <1>4 DEF SettleLines
  <2>2. Len(ctrl'.batch) = Len(ctrl.batch) - 1 /\ Len(ctrl.batch) >= 1
    BY <1>0, <1>4
  <2>3. Taken' = Len(delivered) - (Len(ctrl.batch) - 1)
    BY <1>4, <2>2 DEF Taken
  <2>4. Taken' = Taken + 1
    BY <1>0, <2>2, <2>3 DEF Taken
  <2>5. Head(ctrl.batch) = delivered[Taken + 1]
    BY <1>0, <1>4, <2>2 DEF BatchIsRest
  <2>6. Cardinality(SettleLines) = Taken
    BY <1>4 DEF SettledInOrder
  <2>7. Cardinality(SettleLines') = Taken' - 1
    BY <1>0, <2>1, <2>4, <2>6
  <2>8. ctrl'.cmd = delivered'[Taken']
    BY <1>4, <2>4, <2>5
  <2> QED BY <1>4, <2>1, <2>7, <2>8 DEF SettledInOrder
<1>5. CASE /\ UNCHANGED <<delivered, ctrl>>
           /\ \E line \in TapeLine : tape' = Append(tape, line) /\ ~Settling(line)
  <2>1. PICK line \in TapeLine : tape' = Append(tape, line) /\ ~Settling(line)
    BY <1>5
  <2>2. SettleLines' = SettleLines
    BY <1>0, <2>1, SettleGrows
  <2>3. \A n \in 1..Cardinality(SettleLines) :
          tape'[TheOne(RankedIn(SettleLines, n))] = tape[TheOne(RankedIn(SettleLines, n))]
    BY <1>0, <2>1, SettleGrows DEF SettledInOrder
  <2>4. Taken' = Taken
    BY <1>5 DEF Taken
  <2> QED BY <1>5, <2>2, <2>3, <2>4 DEF SettledInOrder
<1>6. CASE /\ delivered' = delivered /\ ctrl'.batch = ctrl.batch
           /\ ctrl.pc \in Working /\ ctrl'.pc \notin Working
           /\ \E line \in TapeLine : tape' = Append(tape, line) /\ Settling(line) /\ line.cid = ctrl.cmd.cid
  <2>1. PICK line \in TapeLine : tape' = Append(tape, line) /\ Settling(line) /\ line.cid = ctrl.cmd.cid
    BY <1>6
  <2> DEFINE S == SettleLines
             m == Len(tape)
  <2>2. /\ S \in SUBSET (1..m) /\ m \in Nat /\ SettleLines' = S \cup {m + 1} /\ tape'[m + 1] = line
        /\ \A n : RankedIn(S, n) # {} => tape'[TheOne(RankedIn(S, n))] = tape[TheOne(RankedIn(S, n))]
    BY <1>0, <2>1, SettleGrows
  <2>3. Taken' = Taken /\ Cardinality(S) = Taken - 1 /\ ctrl.cmd = delivered[Taken]
    BY <1>6 DEF Taken, SettledInOrder
  <2>4. \A n \in 1..Cardinality(S) : RankedIn(S, n) # {} /\ tape[TheOne(RankedIn(S, n))].cid = delivered[n].cid
    BY DEF SettledInOrder
  <2> HIDE DEF S, m
  <2>5. /\ Cardinality(S) \in Nat /\ Cardinality(S \cup {m + 1}) = Cardinality(S) + 1
        /\ \A n \in 1..Cardinality(S) : RankedIn(S \cup {m + 1}, n) = RankedIn(S, n)
        /\ RankedIn(S \cup {m + 1}, Cardinality(S) + 1) = {m + 1}
    BY <2>2, RankGrows
  <2>6. Cardinality(S) + 1 = Taken
    BY <1>0, <2>3, <2>5
  <2>7. ASSUME NEW n \in 1..Cardinality(SettleLines')
        PROVE  /\ RankedIn(SettleLines', n) # {}
               /\ tape'[TheOne(RankedIn(SettleLines', n))].cid = delivered'[n].cid
    <3>1. n \in 1..Cardinality(S) \/ n = Cardinality(S) + 1
      BY <2>2, <2>5
    <3>2. CASE n \in 1..Cardinality(S)
      BY <1>6, <2>2, <2>4, <2>5, <3>2
    <3>3. CASE n = Cardinality(S) + 1
      <4>1. RankedIn(SettleLines', n) = {m + 1}
        BY <2>2, <2>5, <3>3
      <4>2. TheOne({m + 1}) = m + 1
        BY DEF TheOne
      <4> QED BY <1>6, <2>1, <2>2, <2>3, <2>6, <3>3, <4>1, <4>2
    <3> QED BY <3>1, <3>2, <3>3
  <2>8. Cardinality(SettleLines') = Taken'
    BY <2>2, <2>3, <2>5, <2>6
  <2> QED BY <1>6, <2>7, <2>8 DEF SettledInOrder
<1> QED BY <1>2, <1>3, <1>4, <1>5, <1>6, SettleSteps

\* So the settled commands, read off the tape, are the first of those handed over.
LEMMA SettledView ==
  ASSUME SettledInOrder
  PROVE  [i \in DOMAIN Settlements |-> Settlements[i].cid]
           = [n \in 1..Cardinality(SettleLines) |-> delivered[n].cid]
<1>1. DOMAIN Settlements = 1..Cardinality(SettleLines)
  BY DEF Settlements
<1>2. ASSUME NEW n \in 1..Cardinality(SettleLines) PROVE Settlements[n].cid = delivered[n].cid
  <2>1. Settlements[n] = tape[TheOne(RankedIn(SettleLines, n))]
    BY DEF Settlements, RankedIn
  <2> QED BY <2>1 DEF SettledInOrder
<1> QED BY <1>1, <1>2

\* The settlements of the next state, seen as commands, are what was delivered first.
LEMMA SettledViewNext ==
  SettledInOrder' => ([i \in DOMAIN Settlements |-> Settlements[i].cid]
                        = [n \in 1..Cardinality(SettleLines) |-> delivered[n].cid])'
<1>1. SettledInOrder => [i \in DOMAIN Settlements |-> Settlements[i].cid]
                         = [n \in 1..Cardinality(SettleLines) |-> delivered[n].cid]
  BY SettledView
<1> QED BY <1>1, PTL

\* The ids of the first n of a sequence of commands.
LEMMA CidsOf ==
  ASSUME NEW R, \A r \in R : r.cid \in Cids, NEW s \in Seq(R), NEW n \in Nat, n <= Len(s)
  PROVE  /\ [i \in 1..n |-> s[i].cid] \in Seq(Cids)
         /\ Len([i \in 1..n |-> s[i].cid]) = n
<1>1. \A i \in 1..n : s[i] \in R
  OBVIOUS
<1>2. [i \in 1..n |-> s[i].cid] \in [1..n -> Cids]
  BY <1>1
<1>3. [i \in 1..n |-> s[i].cid] \in Seq(Cids)
  BY <1>2
<1> QED BY <1>3

\* Only the acceptance of a new id adds to the commands taken on, and it adds nothing
\* to the tape.
LEMMA AcceptSteps ==
  ASSUME Typed, [Next]_vars
  PROVE  \/ accepted' = accepted
         \/ \E c \in Queue!Command :
              /\ accepted' = Append(accepted, [cid |-> c.cid, source |-> c.source, at |-> now, replay |-> c.replay])
              /\ c.cid \notin seen /\ UNCHANGED <<tape, delivered>>
<1>1. ASSUME NEW c \in Queue!Command, Submit(c)
      PROVE  \/ accepted' = accepted
             \/ /\ accepted' = Append(accepted, [cid |-> c.cid, source |-> c.source, at |-> now, replay |-> c.replay])
                /\ c.cid \notin seen /\ UNCHANGED <<tape, delivered>>
  <2>1. CASE Queue!Accept(c)
    <3>1. c.cid \notin seen
      BY <2>1 DEF Queue!Accept, Queue!Verdict, Queue!Command, Queue!Forms
    <3> QED BY <1>1, <2>1, <3>1 DEF Submit, Queue!Accept, fileVars
  <2>2. CASE Queue!Refuse(c)
    BY <2>2 DEF Queue!Refuse
  <2> QED BY <1>1, <2>1, <2>2 DEF Submit
<1>2. CASE ~\E c \in Queue!Command : Submit(c)
  BY <1>2
  DEF RefuseAtIngest, HttpStep, HttpSeq, HttpLine, HttpTape, RollEvent, DuplicateInRoll,
      IllegalTiming, Execute, ExecuteRefused, ExecuteRaises, CtrlSeq, CtrlLine, CtrlTape, BatchDone,
      Finalize, FinalizeRun, CopyStats, CopyRaises, CountLines, Bundle, StopServer, vars, queueVars,
      DrainQueue, Queue!Drain, RecordOutcome, Queue!OutcomeExecuted, Queue!OutcomeRejected, Clock,
      Queue!Tick, Queue!history, Next, CtrlStep
<1> QED BY <1>1, <1>2

\* The queue's history of acceptances, as the ledger needs it.
AcceptedOnRecord ==
  /\ accepted \in Seq(Queue!Acceptance)
  /\ Len(delivered) <= Len(accepted)
  /\ \A i \in DOMAIN delivered : delivered[i].cid = accepted[i].cid
  /\ \A i \in DOMAIN accepted : accepted[i].cid \in seen

\* Whatever was accepted has its id on record.
LEMMA Recorded == Spec => []AcceptedOnRecord
<1>1. ASSUME QueueProofs!TypeOK, QueueProofs!HandedOverInOrder, QueueProofs!SeenIsAccepted
      PROVE  AcceptedOnRecord
  <2>1. /\ q \in Seq(QueueProofs!Payload) /\ delivered \in Seq(QueueProofs!Payload)
        /\ accepted \in Seq(QueueProofs!Acceptance)
    BY <1>1 DEF QueueProofs!TypeOK
  <2>2. Len(delivered) <= Len(accepted)
    BY <1>1, <2>1 DEF QueueProofs!HandedOverInOrder
  <2>3. \A i \in DOMAIN delivered : i \in DOMAIN accepted /\ (delivered \o q)[i] = delivered[i]
    BY <2>1, <2>2
  <2>4. \A i \in DOMAIN delivered : delivered[i].cid = accepted[i].cid
    BY <1>1, <2>3 DEF QueueProofs!HandedOverInOrder
  <2>5. \A i \in DOMAIN accepted : accepted[i].cid \in seen
    BY <1>1 DEF QueueProofs!SeenIsAccepted
  <2> QED BY <2>1, <2>2, <2>4, <2>5 DEF AcceptedOnRecord, Queue!Acceptance, QueueProofs!Acceptance
<1> QED BY <1>1, QueueCorrect, PTL

\* The commands taken on and the commands settled, as CommandLedger names them.
TakenOn == [i \in DOMAIN accepted |-> accepted[i].cid]
SettledCids == [i \in DOMAIN Settlements |-> Settlements[i].cid]

\* A step of the pipeline is a step of the ledger or leaves it as it is.
LEMMA LedgerStep ==
  ASSUME Typed, HandedOverOnce, BatchIsRest, SettledInOrder, SettledInOrder', AcceptedOnRecord,
         ~CanRaise, [Next]_vars
  PROVE  Ledger!Next \/ UNCHANGED Ledger!ledgerVars
<1> DEFINE S == Cardinality(SettleLines)
<1>0. /\ delivered \in Seq(Queue!Payload) /\ Len(delivered) \in Nat
      /\ accepted \in Seq(Queue!Acceptance) /\ Len(accepted) \in Nat
      /\ tape \in Seq(TapeLine) /\ Len(tape) \in Nat
      /\ Len(ctrl.batch) \in Nat /\ Len(ctrl.batch) <= Len(delivered) /\ Len(delivered) <= Len(accepted)
      /\ Taken \in Nat /\ Taken <= Len(delivered)
  BY DEF HandedOverOnce, AcceptedOnRecord, Typed, Ctrl, BatchIsRest, Taken
<1>1. S \in Nat /\ S = IF ctrl.pc \in Working THEN Taken - 1 ELSE Taken
  <2>1. SettleLines \in SUBSET (1..Len(tape))
    BY <1>0 DEF SettleLines
  <2> QED BY <1>0, <2>1, RankGrows DEF SettledInOrder
<1>2. /\ SettledCids = [n \in 1..S |-> delivered[n].cid]
      /\ SettledCids' = [n \in 1..S' |-> delivered'[n].cid]
  <2>1. SettledCids = [n \in 1..S |-> delivered[n].cid]
    BY SettledView DEF SettledCids
  <2>2. SettledCids' = [n \in 1..S' |-> delivered'[n].cid]
    BY SettledViewNext DEF SettledCids
  <2> QED BY <2>1, <2>2
<1>6. TakenOn \in Seq(Cids) /\ Len(TakenOn) = Len(accepted) /\ DOMAIN accepted = 1..Len(accepted)
  <2>1. DOMAIN accepted = 1..Len(accepted) /\ \A r \in Queue!Acceptance : r.cid \in Cids
    BY <1>0 DEF Queue!Acceptance
  <2>2. TakenOn = [i \in 1..Len(accepted) |-> accepted[i].cid]
    BY <2>1 DEF TakenOn
  <2> QED BY <1>0, <2>1, <2>2, CidsOf
<1>7. SettledCids \in Seq(Cids) /\ Len(SettledCids) = S
  <2>1. S <= Len(delivered) /\ \A r \in Queue!Payload : r.cid \in Cids
    BY <1>0, <1>1 DEF Queue!Payload
  <2> QED BY <1>0, <1>1, <1>2, <2>1, CidsOf
<1>3. /\ Ledger!Next <=> \/ /\ Len(SettledCids) < Len(TakenOn)
                          /\ SettledCids' = Append(SettledCids, TakenOn[Len(SettledCids) + 1])
                          /\ TakenOn' = TakenOn
                       \/ \E cid \in Cids : /\ \A i \in DOMAIN TakenOn : TakenOn[i] # cid
                                            /\ TakenOn' = Append(TakenOn, cid)
                                            /\ SettledCids' = SettledCids
      /\ UNCHANGED Ledger!ledgerVars <=> TakenOn' = TakenOn /\ SettledCids' = SettledCids
  BY DEF Ledger!Next, Ledger!Settle, Ledger!TakeOn, Ledger!ledgerVars, TakenOn, SettledCids
<1>4. CASE \E c \in Queue!Command :
              /\ accepted' = Append(accepted, [cid |-> c.cid, source |-> c.source, at |-> now, replay |-> c.replay])
              /\ c.cid \notin seen /\ UNCHANGED <<tape, delivered>>
  <2>1. PICK c \in Queue!Command :
              /\ accepted' = Append(accepted, [cid |-> c.cid, source |-> c.source, at |-> now, replay |-> c.replay])
              /\ c.cid \notin seen /\ UNCHANGED <<tape, delivered>>
    BY <1>4
  <2>2. SettledCids' = SettledCids
    <3>1. S' = S
      BY <2>1 DEF SettleLines
    <3> QED BY <1>2, <2>1, <3>1
  <2>3. c.cid \in Cids /\ \A i \in DOMAIN TakenOn : TakenOn[i] # c.cid
    BY <2>1 DEF AcceptedOnRecord, TakenOn, Queue!Command
  <2>4. TakenOn' = Append(TakenOn, c.cid)
    <3> DEFINE a == [cid |-> c.cid, source |-> c.source, at |-> now, replay |-> c.replay]
    <3>1. a.cid = c.cid /\ accepted' = Append(accepted, a)
      BY <2>1
    <3> HIDE DEF a
    <3>2. /\ DOMAIN accepted' = DOMAIN accepted \cup {Len(accepted) + 1}
          /\ DOMAIN accepted = 1..Len(accepted)
          /\ \A i \in DOMAIN accepted : accepted'[i] = accepted[i]
          /\ accepted'[Len(accepted) + 1] = a
      BY <1>0, <3>1
    <3> QED BY <1>0, <1>6, <2>3, <3>1, <3>2 DEF TakenOn
  <2> QED BY <1>3, <2>2, <2>3, <2>4
<1>5. CASE accepted' = accepted
  <2>0. TakenOn' = TakenOn
    BY <1>5 DEF TakenOn
  <2>1. CASE S' = S /\ \A n \in 1..S : delivered'[n] = delivered[n]
    BY <1>2, <1>3, <2>0, <2>1
  <2>2. CASE S' = S + 1 /\ delivered' = delivered /\ ctrl.pc \in Working
    <3>1. S + 1 = Taken /\ S + 1 \in 1..Len(delivered) /\ S + 1 \in 1..Len(accepted)
      BY <1>0, <1>1, <2>2
    <3>4. TakenOn[S + 1] = delivered[S + 1].cid
      BY <1>0, <3>1 DEF TakenOn, AcceptedOnRecord
    <3>5. delivered[S + 1].cid \in Cids
      <4>1. delivered[S + 1] \in Queue!Payload
        BY <1>0, <3>1
      <4> QED BY <4>1 DEF Queue!Payload
    <3> HIDE DEF S
    <3>6. SettledCids' = Append(SettledCids, delivered[S + 1].cid)
      BY <1>1, <1>2, <1>7, <2>2, <3>5
    <3> QED BY <1>0, <1>1, <1>3, <1>6, <1>7, <2>0, <3>1, <3>4, <3>6
  <2>3. \/ S' = S /\ \A n \in 1..S : delivered'[n] = delivered[n]
        \/ S' = S + 1 /\ delivered' = delivered /\ ctrl.pc \in Working
    <3>1. CASE UNCHANGED <<tape, delivered>>
      BY <3>1 DEF SettleLines
    <3>2. CASE tape' = tape /\ delivered' = delivered \o q
      <4>1. q \in Seq(Queue!Payload) /\ S <= Len(delivered)
        BY <1>0, <1>1 DEF Typed
      <4>2. \A n \in 1..Len(delivered) : delivered'[n] = delivered[n]
        BY <1>0, <3>2, <4>1
      <4>3. S' = S
        BY <3>2 DEF SettleLines
      <4> HIDE DEF S
      <4> QED BY <1>0, <1>1, <4>1, <4>2, <4>3
    <3>3. CASE /\ delivered' = delivered
               /\ \E line \in TapeLine : tape' = Append(tape, line) /\ ~Settling(line)
      BY <1>0, <3>3, SettleGrows
    <3>4. CASE /\ delivered' = delivered /\ ctrl.pc \in Working
               /\ \E line \in TapeLine : tape' = Append(tape, line) /\ Settling(line) /\ line.cid = ctrl.cmd.cid
      <4>1. /\ SettleLines \in SUBSET (1..Len(tape))
            /\ SettleLines' = SettleLines \cup {Len(tape) + 1}
        BY <1>0, <3>4, SettleGrows
      <4>2. Cardinality(SettleLines \cup {Len(tape) + 1}) = Cardinality(SettleLines) + 1
        BY <1>0, <4>1, RankGrows
      <4> QED BY <3>4, <4>1, <4>2
    <3> QED BY <3>1, <3>2, <3>3, <3>4, SettleSteps
  <2> QED BY <2>1, <2>2, <2>3
<1> QED BY <1>4, <1>5, AcceptSteps

\* Where no action raises, the pipeline keeps the promise of CommandLedger for every
\* command, limit and interleaving: seen from the tape, the accepted commands are
\* settled once each and in the order of acceptance.
THEOREM LedgerKept == ASSUME ~CanRaise PROVE Spec => LedgerSpec
<1>1. Init => SettledInOrder /\ Ledger!Init
  <2> SUFFICES ASSUME Init PROVE SettledInOrder /\ Ledger!Init
    OBVIOUS
  <2>1. delivered = <<>> /\ tape = <<>> /\ ctrl.batch = <<>> /\ ctrl.pc = "table" /\ accepted = <<>>
    BY DEF Init, Queue!Init
  <2>2. SettleLines = {} /\ Cardinality({}) = 0
    BY <2>1, FS_EmptySet DEF SettleLines
  <2>3. SettledInOrder
    BY <2>1, <2>2 DEF SettledInOrder, Taken, Working
  <2>4. Ledger!Init
    <3>1. DOMAIN Settlements = {} /\ DOMAIN accepted = {}
      BY <2>1, <2>2 DEF Settlements
    <3> QED BY <3>1 DEF Ledger!Init
  <2> QED BY <2>3, <2>4
<1>2. Typed /\ HandedOverOnce /\ BatchIsRest /\ SettledInOrder /\ [Next]_vars => SettledInOrder'
  BY SettledStep
<1>3. Typed /\ HandedOverOnce /\ BatchIsRest /\ SettledInOrder /\ SettledInOrder' /\ AcceptedOnRecord
      /\ [Next]_vars
        => [Ledger!Next]_(Ledger!ledgerVars)
  BY LedgerStep
<1> QED BY <1>1, <1>2, <1>3, TypesKept, HandedOver, AppliedInvariant, Recorded, PTL DEF Spec, LedgerSpec, Ledger!Spec
---------------------------------------------------------------------------
(* The replay of a tape: types and steps. *)

\* A line has its command as executed when it has no reason against it.
Honest == {e \in Tape!Entry : e.executed <=> e.reason = "none"}

ReplayTyped ==
  /\ journal \in Seq(Honest) /\ tape \subseteq Honest /\ pending \in Seq(Honest)
  /\ q \in Seq(Tape!Queue!Payload) /\ batch \in Seq(Tape!Queue!Payload)
  /\ hand \in Nat /\ game \in Seq({"comeout", "roll"})
  /\ mode \in {"live", "replay"} /\ pc \in {"table", "inject", "settle"}

\* What was done with the command of a line.
Ran(l) == l.reason = "none"

\* The command of a line, a payload as it goes into the queue.
Queued(c) == [cid |-> c.cid, source |-> c.source, body |-> c.body]

Logged(cmd, reason) ==
  /\ journal' = Append(journal, Tape!Line(cmd, reason))
  /\ tape' = IF mode = "live" THEN tape \cup {Tape!Line(cmd, reason)} ELSE tape

\* What the queue does with a command that it takes.
LEMMA QueueAccepts ==
  ASSUME NEW c, c.form \in Tape!Queue!Forms, Tape!Queue!Accept(c)
  PROVE  c.cid \notin seen /\ seen' = seen \cup {c.cid} /\ q' = Append(q, Queued(c))
<1>1. c.cid \notin seen
  <2>1. Tape!Queue!Verdict(c) = "accepted"
    BY Zenon DEF Tape!Queue!Accept
  <2> QED BY <2>1 DEF Tape!Queue!Verdict, Tape!Queue!Forms
<1> QED BY <1>1, Zenon DEF Tape!Queue!Accept, Queued

\* The queue refuses for a reason of its own, and nothing is queued.
LEMMA QueueRefuses ==
  ASSUME NEW c, Tape!Queue!Refuse(c)
  PROVE  Tape!Queue!Verdict(c) \in Tape!Queue!RefusalReasons /\ seen' = seen /\ q' = q
BY DEF Tape!Queue!Refuse

\* A well-formed command with the mark is refused for its id alone.
LEMMA MarkedRefuses ==
  ASSUME NEW c, c.form = "ok", c.replay, Tape!Queue!Refuse(c)
  PROVE  c.cid \in seen
BY Zenon DEF Tape!Queue!Refuse, Tape!Queue!Verdict, Tape!Queue!RefusalReasons, Tape!Queue!Forms

\* The hand after an event.
After(h, event) == IF event = "comeout" THEN h + 1 ELSE IF h = 0 THEN 1 ELSE h

\* The steps, as far as the lines, the tape and what waits are concerned.
Takes(c) ==
  /\ mode = "live"
  /\ c.cid \notin seen /\ seen' = seen \cup {c.cid} /\ q' = Append(q, Queued(c))
  /\ UNCHANGED <<journal, tape, pending, batch, hand, game, mode, pc>>

Refuses(c, r) ==
  /\ mode = "live"
  /\ Logged(Queued(c), r)
  /\ UNCHANGED <<pending, q, seen, batch, hand, game, mode, pc>>

Plays(event) ==
  /\ Tape!Happens(event)
  /\ hand' = After(hand, event)
  /\ pc' = IF event = "roll" THEN "inject" ELSE "table"
  /\ UNCHANGED <<journal, tape, pending, q, seen, batch, mode>>

Injecting == pc = "inject" /\ Tape!Due /\ pending' = Tail(pending)

Repeats ==
  /\ Injecting /\ ~Head(pending).executed
  /\ Logged(Queued(Head(pending)), Head(pending).reason)
  /\ UNCHANGED <<q, seen, batch, hand, game, mode, pc>>

Injects ==
  /\ Injecting /\ Head(pending).executed
  /\ Head(pending).cid \notin seen /\ seen' = seen \cup {Head(pending).cid}
  /\ q' = Append(q, Queued(Head(pending)))
  /\ UNCHANGED <<journal, tape, batch, hand, game, mode, pc>>

Bounces(r) ==
  /\ Injecting /\ Head(pending).executed
  /\ Head(pending).cid \in seen
  /\ Logged(Queued(Head(pending)), r)
  /\ UNCHANGED <<q, seen, batch, hand, game, mode, pc>>

Drains ==
  /\ pc = "inject" /\ ~Tape!Due /\ pc' = "settle"
  /\ batch' = q /\ q' = <<>>
  /\ UNCHANGED <<journal, tape, pending, seen, hand, game, mode>>

Settles(r) ==
  /\ pc = "settle" /\ batch # <<>> /\ batch' = Tail(batch)
  /\ Logged(Head(batch), r)
  /\ UNCHANGED <<pending, q, seen, hand, game, mode, pc>>

Ends ==
  /\ pc = "settle" /\ batch = <<>> /\ pc' = "table"
  /\ UNCHANGED <<journal, tape, pending, q, seen, batch, hand, game, mode>>

Starts ==
  /\ mode = "live" /\ pc = "table" /\ mode' = "replay"
  /\ pending' = Tape!Recorded /\ journal' = <<>> /\ q' = <<>> /\ seen' = {} /\ hand' = 0
  /\ UNCHANGED <<tape, batch, game, pc>>

Rests == UNCHANGED <<journal, tape, pending, q, seen, batch, hand, game, mode, pc>>

\* A line depends on its command by what goes into the queue.
LEMMA LineOfQueued == ASSUME NEW c, NEW r PROVE Tape!Line(Queued(c), r) = Tape!Line(c, r)
BY DEF Tape!Line, Queued

\* Every step of the two runs is one of these.
LEMMA ReplaySteps ==
  ASSUME [Tape!Next]_(Tape!vars)
  PROVE  \/ \E c \in Tape!Queue!Command : Takes(c)
         \/ \E c \in Tape!Queue!Command, r \in Tape!Queue!RefusalReasons : Refuses(c, r)
         \/ Plays("comeout") \/ Plays("roll")
         \/ Repeats \/ Injects
         \/ \E r \in Tape!Queue!RefusalReasons : Bounces(r)
         \/ Drains
         \/ \E r \in Tape!Queue!OutcomeReasons \cup {"none"} : Settles(r)
         \/ Ends \/ Starts \/ Rests
<1>0. \A c, r : Tape!WriteLine(c, r) => Logged(Queued(c), r)
  BY LineOfQueued, Zenon DEF Tape!WriteLine, Logged
<1>1. ASSUME NEW c \in Tape!Queue!Command, Tape!Submit(c)
      PROVE  Takes(c) \/ \E r \in Tape!Queue!RefusalReasons : Refuses(c, r)
  <2>0. c.form \in Tape!Queue!Forms
    BY DEF Tape!Queue!Command
  <2>1. CASE Tape!Queue!Accept(c) /\ UNCHANGED <<journal, tape>>
    <3>1. c.cid \notin seen /\ seen' = seen \cup {c.cid} /\ q' = Append(q, Queued(c))
      BY <2>0, <2>1, QueueAccepts
    <3> QED BY <1>1, <2>1, <3>1, Zenon DEF Tape!Submit, Takes, Tape!rollVars
  <2>2. CASE Tape!Queue!Refuse(c) /\ Tape!WriteLine(c, Tape!Queue!Verdict(c))
    <3>1. Tape!Queue!Verdict(c) \in Tape!Queue!RefusalReasons /\ seen' = seen /\ q' = q
      BY <2>2, QueueRefuses
    <3>2. Refuses(c, Tape!Queue!Verdict(c))
      BY <1>0, <1>1, <2>2, <3>1, Zenon DEF Tape!Submit, Refuses, Tape!rollVars
    <3> QED BY <3>1, <3>2
  <2> QED BY <1>1, <2>1, <2>2, Zenon DEF Tape!Submit
<1>2. ASSUME Tape!Comeout PROVE Plays("comeout")
  BY <1>2 DEF Tape!Comeout, Plays, After, Tape!queueVars, Tape!Happens
<1>3. ASSUME Tape!Roll PROVE Plays("roll")
  BY <1>3 DEF Tape!Roll, Plays, After, Tape!queueVars
<1>4. ASSUME Tape!InjectRefused PROVE Repeats
  <2>1. Logged(Queued(Head(pending)), Head(pending).reason)
    BY <1>0, <1>4, Zenon DEF Tape!InjectRefused
  <2> QED BY <1>4, <2>1, Zenon DEF Tape!InjectRefused, Repeats, Injecting, Tape!rollVars
<1>5. ASSUME Tape!InjectCommand PROVE Injects \/ \E r \in Tape!Queue!RefusalReasons : Bounces(r)
  <2> DEFINE c == Tape!Replayed(Head(pending))
  <2>0. /\ c.form = "ok" /\ c.replay /\ c.form \in Tape!Queue!Forms /\ c.cid = Head(pending).cid
        /\ Queued(c) = Queued(Head(pending))
    BY DEF Tape!Queue!Forms, Tape!Replayed, Queued
  <2>1. /\ Injecting /\ Head(pending).executed
        /\ UNCHANGED <<batch, hand, game, mode, pc>>
        /\ \/ Tape!Queue!Accept(c) /\ UNCHANGED <<journal, tape>>
           \/ Tape!Queue!Refuse(c) /\ Tape!WriteLine(c, Tape!Queue!Verdict(c))
    BY <1>5, Zenon DEF Tape!InjectCommand, Injecting, Tape!rollVars
  <2> HIDE DEF c
  <2>2. CASE Tape!Queue!Accept(c) /\ UNCHANGED <<journal, tape>>
    <3>1. c.cid \notin seen /\ seen' = seen \cup {c.cid} /\ q' = Append(q, Queued(c))
      BY <2>0, <2>2, QueueAccepts
    <3> QED BY <2>0, <2>1, <2>2, <3>1, Zenon DEF Injects
  <2>3. CASE Tape!Queue!Refuse(c) /\ Tape!WriteLine(c, Tape!Queue!Verdict(c))
    <3>1. Tape!Queue!Verdict(c) \in Tape!Queue!RefusalReasons /\ seen' = seen /\ q' = q
      BY <2>3, QueueRefuses
    <3>2. c.cid \in seen
      BY <2>0, <2>3, MarkedRefuses
    <3>3. Logged(Queued(c), Tape!Queue!Verdict(c))
      BY <1>0, <2>3, Zenon
    <3> QED BY <2>0, <2>1, <3>1, <3>2, <3>3, Zenon DEF Bounces
  <2> QED BY <2>1, <2>2, <2>3, Zenon
<1>6. ASSUME Tape!Drain PROVE Drains
  BY <1>6, Zenon DEF Tape!Drain, Tape!Queue!Drain, Drains, Tape!rollVars
<1>7. ASSUME Tape!Settle PROVE \E r \in Tape!Queue!OutcomeReasons \cup {"none"} : Settles(r)
  <2> DEFINE cmd == Head(batch)
             r == Tape!Outcome(cmd)
  <2>1. r \in Tape!Queue!OutcomeReasons \cup {"none"}
    BY DEF Tape!Outcome, Tape!Queue!OutcomeReasons
  <2>2. seen' = seen /\ q' = q
    BY <1>7, Zenon DEF Tape!Settle, Tape!Queue!OutcomeExecuted, Tape!Queue!OutcomeRejected
  <2>3. Tape!WriteLine(cmd, r)
    BY <1>7, Zenon DEF Tape!Settle
  <2>4. Logged(cmd, r)
    BY <2>3, Zenon DEF Tape!WriteLine, Logged
  <2>5. Settles(r)
    BY <1>7, <2>2, <2>4, Zenon DEF Tape!Settle, Settles, Tape!rollVars
  <2> QED BY <2>1, <2>5
<1>8. ASSUME Tape!EndRoll PROVE Ends
  BY <1>8, Zenon DEF Tape!EndRoll, Ends, Tape!rollVars, Tape!queueVars
<1>9. ASSUME Tape!StartReplay PROVE Starts
  BY <1>9, Zenon DEF Tape!StartReplay, Starts
<1>10. ASSUME UNCHANGED Tape!vars PROVE Rests
  BY <1>10 DEF Tape!vars, Tape!queueVars, Tape!rollVars, Rests
<1> QED BY <1>1, <1>2, <1>3, <1>4, <1>5, <1>6, <1>7, <1>8, <1>9, <1>10, Zenon DEF Tape!Next

---------------------------------------------------------------------------
(* The live run. *)

Single(s) == \A i, j \in 1..Len(s) : s[i].cid = s[j].cid => i = j

\* The hand of each event of a game, the one before them being start.
Hands(g, h, start) ==
  /\ h \in [1..Len(g) -> Nat]
  /\ \A k \in 1..Len(g) : h[k] = After(IF k = 1 THEN start ELSE h[k - 1], g[k])
  /\ \A k \in 1..Len(g) : start <= h[k]
  /\ \A j, k \in 1..Len(g) : j <= k => h[j] <= h[k]

RolledIn(g, h, n) == \E k \in 1..Len(g) : g[k] = "roll" /\ h[k] = n

\* The tape has the lines of the journal, which are numbered in order and never go
\* back to an earlier hand.
LiveLines ==
  /\ pending = <<>> /\ (pc # "settle" => batch = <<>>)
  /\ tape = {journal[i] : i \in 1..Len(journal)}
  /\ \A i \in 1..Len(journal) : journal[i].seq = i /\ journal[i].hand <= hand
  /\ \A i, j \in 1..Len(journal) : i <= j => journal[i].hand <= journal[j].hand

\* A command is queued, in the batch or executed, once.
LiveOnce ==
  /\ Single(q) /\ Single(batch)
  /\ \A i \in 1..Len(q), j \in 1..Len(batch) : q[i].cid # batch[j].cid
  /\ \A i \in 1..Len(q) : q[i].cid \in seen
  /\ \A i \in 1..Len(batch) : batch[i].cid \in seen
  /\ \A i \in 1..Len(journal) : Ran(journal[i]) =>
       /\ journal[i].cid \in seen
       /\ \A j \in 1..Len(q) : q[j].cid # journal[i].cid
       /\ \A j \in 1..Len(batch) : batch[j].cid # journal[i].cid
  /\ \A i, j \in 1..Len(journal) :
       Ran(journal[i]) /\ Ran(journal[j]) /\ journal[i].cid = journal[j].cid => i = j

\* What was executed was executed at a roll of its hand.
LiveGame ==
  \E h \in [1..Len(game) -> Nat] :
    /\ Hands(game, h, 0)
    /\ hand = IF Len(game) = 0 THEN 0 ELSE h[Len(game)]
    /\ pc # "table" => Len(game) > 0 /\ game[Len(game)] = "roll"
    /\ \A i \in 1..Len(journal) : Ran(journal[i]) => RolledIn(game, h, journal[i].hand)

---------------------------------------------------------------------------
(* The replay run. *)

\* Lines are told apart by their numbers, and executed commands by their ids.
TapeInv ==
  /\ IsFiniteSet(tape)
  /\ \A l, m \in tape : l.seq = m.seq => l = m
  /\ \A l, m \in tape : l.seq <= m.seq => l.hand <= m.hand
  /\ \A l, m \in tape : Ran(l) /\ Ran(m) /\ l.cid = m.cid => l = m

\* What is pending is the rest of the tape, in order; the queue has seen the others.
PendingInv ==
  /\ \A i \in 1..Len(pending) : pending[i] \in tape
  /\ \A i, j \in 1..Len(pending) : i < j => pending[i].seq < pending[j].seq
  /\ \A l \in Injected, i \in 1..Len(pending) : l.seq < pending[i].seq
  /\ seen = {l.cid : l \in {m \in Injected : Ran(m)}}

\* The commands injected and not yet settled.
Waiting == IF pc = "settle" THEN batch ELSE q

\* The line of an executed command.
Of(l, x) == Ran(l) /\ l.cid = x.cid

\* What waits and what was executed has a line each that was injected, of its hand,
\* and comes in the order of these lines.
OrderInv ==
  /\ pc # "settle" => batch = <<>>
  /\ pc # "inject" => q = <<>>
  /\ \A i \in 1..Len(Waiting) : \E l \in Injected : Of(l, Waiting[i]) /\ l.hand = hand
  /\ \A i, j \in 1..Len(Waiting), l, m \in tape :
       i < j /\ Of(l, Waiting[i]) /\ Of(m, Waiting[j]) => l.seq < m.seq
  /\ \A i \in 1..Len(journal) : Ran(journal[i]) =>
       \E l \in Injected : Of(l, journal[i]) /\ l.hand = journal[i].hand
  /\ \A i, j \in 1..Len(journal), l, m \in tape :
       i < j /\ Ran(journal[i]) /\ Ran(journal[j]) /\ Of(l, journal[i]) /\ Of(m, journal[j]) => l.seq < m.seq
  /\ \A i \in 1..Len(journal), j \in 1..Len(Waiting), l, m \in tape :
       Ran(journal[i]) /\ Of(l, journal[i]) /\ Of(m, Waiting[j]) => l.seq < m.seq

\* A command that was executed and is still pending has a roll of its hand to come.
ReplayGame ==
  \E h \in [1..Len(game) -> Nat] :
    /\ Hands(game, h, hand)
    /\ \A i \in 1..Len(pending) : Ran(pending[i]) =>
         (pc = "inject" /\ pending[i].hand = hand) \/ RolledIn(game, h, pending[i].hand)

At(s, c) == {i \in 1..Len(s) : s[i].cid = c}
OfId(lines, c) == {l \in lines : l.cid = c}

\* Each line that was injected waits or has been written again.
CountInv ==
  \A c \in Cids : Cardinality(At(journal, c)) + Cardinality(At(Waiting, c)) = Cardinality(OfId(Injected, c))

LiveInv == LiveLines /\ LiveOnce /\ LiveGame
ReplayInv == TapeInv /\ PendingInv /\ OrderInv /\ ReplayGame /\ CountInv

---------------------------------------------------------------------------
\* A line that is written.
LEMMA LineIs ==
  ASSUME NEW c, c.cid \in Cids, c.source \in Sources, c.body \in Bodies, NEW r \in Tape!Queue!Reasons \cup {"none"},
         hand \in Nat, Len(journal) \in Nat
  PROVE  /\ Tape!Line(c, r) \in Honest
         /\ Tape!Line(c, r).cid = c.cid /\ Tape!Line(c, r).hand = hand /\ Tape!Line(c, r).seq = Len(journal) + 1
         /\ Ran(Tape!Line(c, r)) <=> r = "none"
<1> DEFINE b == r = "none"
<1>1. Tape!Line(c, r) = [cid |-> c.cid, source |-> c.source, body |-> c.body, reason |-> r,
                    executed |-> b, hand |-> hand, seq |-> Len(journal) + 1]
  BY DEF Tape!Line
<1>2. b \in BOOLEAN /\ Len(journal) + 1 \in Nat /\ (b <=> r = "none")
  OBVIOUS
<1> HIDE DEF b
<1>3. Tape!Line(c, r) \in Tape!Entry
  BY <1>1, <1>2 DEF Tape!Entry
<1>4. /\ Tape!Line(c, r).cid = c.cid /\ Tape!Line(c, r).hand = hand /\ Tape!Line(c, r).seq = Len(journal) + 1
      /\ Tape!Line(c, r).reason = r /\ Tape!Line(c, r).executed = b
  BY <1>1
<1>5. Tape!Line(c, r) \in Honest
  BY <1>2, <1>3, <1>4, Zenon DEF Honest
<1> QED BY <1>4, <1>5, Zenon DEF Ran

\* Lines are typed as their fields are.
LEMMA HonestIs ==
  ASSUME NEW e \in Honest
  PROVE  /\ e.cid \in Cids /\ e.source \in Sources /\ e.body \in Bodies
         /\ e.hand \in Nat /\ e.seq \in Nat /\ e.reason \in Tape!Queue!Reasons \cup {"none"}
         /\ e.executed <=> Ran(e)
<1>1. e \in Tape!Entry /\ (e.executed <=> Ran(e))
  BY Zenon DEF Honest, Ran
<1> QED BY <1>1 DEF Tape!Entry

\* The replay's module counts as this one does.
LEMMA SameCardinality == \A S : Tape!Cardinality(S) = Cardinality(S)
BY Zenon DEF Tape!Cardinality, Cardinality

\* The tape is loaded in the order of the live run's journal.
LEMMA RecordedIs ==
  ASSUME ReplayTyped, LiveLines
  PROVE  Tape!Recorded = journal /\ IsFiniteSet(tape)
<1> DEFINE n == Len(journal)
<1>1. /\ n \in Nat /\ DOMAIN journal = 1..n /\ journal = [i \in 1..n |-> journal[i]]
  BY LenProperties DEF ReplayTyped
<1>2. /\ tape = {journal[i] : i \in 1..n}
      /\ \A i \in 1..n : journal[i].seq = i
  BY DEF LiveLines
<1> HIDE DEF n
<1>3. ASSUME NEW i \in 0..n
      PROVE  /\ IsFiniteSet({m \in tape : m.seq <= i})
             /\ Cardinality({m \in tape : m.seq <= i}) = i
  <2> DEFINE S == {m \in tape : m.seq <= i}
             g == [k \in 1..i |-> journal[k]]
  <2>1. i \in Nat /\ 1..i \subseteq 1..n
    BY <1>1, <1>3
  <2>2. g \in Bijection(1..i, S)
    <3>1. \A k \in 1..i : g[k] \in S /\ g[k].seq = k
      BY <1>2, <2>1
    <3>2. \A k, j \in 1..i : g[k] = g[j] => k = j
      BY <3>1
    <3>3. \A m \in S : \E k \in 1..i : g[k] = m
      BY <1>2, <2>1
    <3>4. g \in [1..i -> S]
      BY <3>1
    <3> HIDE DEF g, S
    <3>5. g \in Injection(1..i, S)
      BY <3>2, <3>4 DEF Injection, IsInjective
    <3>6. g \in Surjection(1..i, S)
      BY <3>3, <3>4, Zenon DEF Surjection
    <3> QED BY <3>5, <3>6 DEF Bijection
  <2>3. IsFiniteSet(1..i) /\ Cardinality(1..i) = i
    BY <2>1, FS_Interval
  <2> QED BY <2>2, <2>3, FS_Bijection DEF ExistsBijection
<1>4. tape = {m \in tape : m.seq <= n}
  BY <1>1, <1>2
<1>5. IsFiniteSet(tape) /\ Cardinality(tape) = n
  <2>1. n \in 0..n
    BY <1>1
  <2> QED BY <1>3, <1>4, <2>1
<1>6. ASSUME NEW i \in 1..n
      PROVE  (CHOOSE l \in tape : Cardinality({m \in tape : m.seq <= l.seq}) = i) = journal[i]
  <2>1. ASSUME NEW l \in tape PROVE Cardinality({m \in tape : m.seq <= l.seq}) = i <=> l = journal[i]
    <3>1. PICK k \in 1..n : l = journal[k]
      BY <1>2
    <3>2. l.seq = k /\ k \in 0..n
      BY <1>1, <1>2, <3>1
    <3>3. Cardinality({m \in tape : m.seq <= l.seq}) = k
      BY <1>3, <3>2
    <3>4. k # i => journal[k] # journal[i]
      BY <1>2
    <3> QED BY <3>1, <3>3, <3>4
  <2>2. journal[i] \in tape
    BY <1>2
  <2> QED BY <2>1, <2>2, Zenon
<1>7. Tape!Recorded = [i \in 1..n |-> journal[i]]
  BY <1>5, <1>6, SameCardinality, Zenon DEF Tape!Recorded
<1> QED BY <1>1, <1>5, <1>7

\* A line that is written keeps the types.
LEMMA LoggedTyped ==
  ASSUME ReplayTyped, NEW c \in Tape!Queue!Payload, NEW r \in Tape!Queue!Reasons \cup {"none"}, Logged(c, r)
  PROVE  journal' \in Seq(Honest) /\ tape' \subseteq Honest
<1>1. Tape!Line(c, r) \in Honest
  BY LineIs, LenProperties DEF ReplayTyped, Tape!Queue!Payload
<1> QED BY <1>1, AppendProperties DEF ReplayTyped, Logged

\* What goes into the queue is a command and keeps its id.
LEMMA QueuedTyped ==
  ASSUME NEW c, c.cid \in Cids, c.source \in Sources, c.body \in Bodies
  PROVE  Queued(c) \in Tape!Queue!Payload /\ Queued(c).cid = c.cid
BY DEF Queued, Tape!Queue!Payload

\* Where the reasons come from, and that none is "none".
LEMMA AllReasons ==
  /\ Tape!Queue!RefusalReasons \subseteq Tape!Queue!Reasons /\ Tape!Queue!OutcomeReasons \subseteq Tape!Queue!Reasons
  /\ "none" \notin Tape!Queue!RefusalReasons
BY DEF Tape!Queue!Reasons, Tape!Queue!RefusalReasons, Tape!Queue!OutcomeReasons, Tape!Queue!Forms

\* The steps keep the types.
LEMMA ReplayTypedStep ==
  ASSUME ReplayTyped, mode = "live" => LiveLines, [Tape!Next]_(Tape!vars)
  PROVE  ReplayTyped'
<1> USE DEF ReplayTyped
<1>0. ASSUME pending # <<>>
      PROVE  /\ Head(pending) \in Honest /\ Tail(pending) \in Seq(Honest)
             /\ Queued(Head(pending)) \in Tape!Queue!Payload /\ Head(pending).reason \in Tape!Queue!Reasons \cup {"none"}
  <2>1. Head(pending) \in Honest /\ Tail(pending) \in Seq(Honest)
    BY <1>0, HeadTailProperties
  <2> QED BY <2>1, HonestIs, QueuedTyped
<1>1. ASSUME NEW c \in Tape!Queue!Command, Takes(c) PROVE ReplayTyped'
  <2>1. Queued(c) \in Tape!Queue!Payload
    BY QueuedTyped DEF Tape!Queue!Command
  <2> QED BY <1>1, <2>1, AppendProperties DEF Takes
<1>2. ASSUME NEW c \in Tape!Queue!Command, NEW r \in Tape!Queue!RefusalReasons, Refuses(c, r) PROVE ReplayTyped'
  <2>1. Queued(c) \in Tape!Queue!Payload
    BY QueuedTyped DEF Tape!Queue!Command
  <2>2. journal' \in Seq(Honest) /\ tape' \subseteq Honest
    BY <1>2, <2>1, LoggedTyped, AllReasons DEF Refuses
  <2> QED BY <1>2, <2>2 DEF Refuses
<1>3. ASSUME NEW event \in {"comeout", "roll"}, Plays(event) PROVE ReplayTyped'
  <2>1. hand' \in Nat /\ pc' \in {"table", "inject", "settle"}
    BY <1>3 DEF Plays, After
  <2>2. game' \in Seq({"comeout", "roll"})
    <3>1. CASE mode = "live"
      <4>1. game' = Append(game, event)
        BY <1>3, <3>1 DEF Plays, Tape!Happens
      <4> QED BY <4>1, AppendProperties
    <3>2. CASE mode # "live"
      <4>1. game # <<>> /\ game' = Tail(game)
        BY <1>3, <3>2 DEF Plays, Tape!Happens
      <4> QED BY <4>1, HeadTailProperties
    <3> QED BY <3>1, <3>2
  <2> QED BY <1>3, <2>1, <2>2 DEF Plays
<1>4. ASSUME Repeats PROVE ReplayTyped'
  <2>1. pending # <<>> /\ pending' = Tail(pending)
    BY <1>4 DEF Repeats, Injecting, Tape!Due
  <2>2. journal' \in Seq(Honest) /\ tape' \subseteq Honest
    BY <1>0, <1>4, <2>1, LoggedTyped DEF Repeats
  <2> QED BY <1>0, <1>4, <2>1, <2>2 DEF Repeats
<1>5. ASSUME Injects PROVE ReplayTyped'
  <2>1. pending # <<>> /\ pending' = Tail(pending)
    BY <1>5 DEF Injects, Injecting, Tape!Due
  <2>2. q' \in Seq(Tape!Queue!Payload)
    BY <1>0, <1>5, <2>1, AppendProperties DEF Injects
  <2> QED BY <1>0, <1>5, <2>1, <2>2 DEF Injects
<1>6. ASSUME NEW r \in Tape!Queue!RefusalReasons, Bounces(r) PROVE ReplayTyped'
  <2>1. pending # <<>> /\ pending' = Tail(pending)
    BY <1>6 DEF Bounces, Injecting, Tape!Due
  <2>2. journal' \in Seq(Honest) /\ tape' \subseteq Honest
    BY <1>0, <1>6, <2>1, LoggedTyped, AllReasons DEF Bounces
  <2> QED BY <1>0, <1>6, <2>1, <2>2 DEF Bounces
<1>7. ASSUME Drains PROVE ReplayTyped'
  BY <1>7, EmptySeq DEF Drains
<1>8. ASSUME NEW r \in Tape!Queue!OutcomeReasons \cup {"none"}, Settles(r) PROVE ReplayTyped'
  <2>1. Head(batch) \in Tape!Queue!Payload /\ batch' \in Seq(Tape!Queue!Payload)
    BY <1>8, HeadTailProperties DEF Settles
  <2>2. journal' \in Seq(Honest) /\ tape' \subseteq Honest
    BY <1>8, <2>1, LoggedTyped, AllReasons DEF Settles
  <2> QED BY <1>8, <2>1, <2>2 DEF Settles
<1>9. ASSUME Ends PROVE ReplayTyped'
  BY <1>9 DEF Ends
<1>10. ASSUME Starts PROVE ReplayTyped'
  <2>1. pending' = journal
    BY <1>10, RecordedIs DEF Starts
  <2> QED BY <1>10, <2>1, EmptySeq DEF Starts
<1>11. ASSUME Rests PROVE ReplayTyped'
  BY <1>11 DEF Rests
<1> QED BY <1>1, <1>2, <1>3, <1>4, <1>5, <1>6, <1>7, <1>8, <1>9, <1>10, <1>11, ReplaySteps

---------------------------------------------------------------------------
(* The live run keeps its invariant. *)

\* A line is added to the others.
LEMMA Adds ==
  ASSUME ReplayTyped, NEW c \in Tape!Queue!Payload, NEW r \in Tape!Queue!Reasons \cup {"none"}, Logged(c, r)
  PROVE  /\ Len(journal) \in Nat /\ Len(journal') = Len(journal) + 1
         /\ \A i \in 1..Len(journal) : journal'[i] = journal[i] /\ journal[i] \in Honest
         /\ LET l == journal'[Len(journal) + 1]
            IN  /\ l = Tape!Line(c, r) /\ l \in Honest
                /\ l.cid = c.cid /\ l.hand = hand /\ l.seq = Len(journal) + 1
                /\ Ran(l) <=> r = "none"
         /\ mode = "live" => tape' = tape \cup {journal'[Len(journal) + 1]}
         /\ mode # "live" => tape' = tape
<1>1. Len(journal) \in Nat /\ journal \in Seq(Honest) /\ hand \in Nat
  BY LenProperties DEF ReplayTyped
<1>2. /\ Tape!Line(c, r) \in Honest
      /\ Tape!Line(c, r).cid = c.cid /\ Tape!Line(c, r).hand = hand /\ Tape!Line(c, r).seq = Len(journal) + 1
      /\ Ran(Tape!Line(c, r)) <=> r = "none"
  BY <1>1, LineIs DEF Tape!Queue!Payload
<1>3. /\ Len(journal') = Len(journal) + 1 /\ journal'[Len(journal) + 1] = Tape!Line(c, r)
      /\ \A i \in 1..Len(journal) : journal'[i] = journal[i]
  BY <1>1, <1>2, AppendProperties DEF Logged
<1>4. \A i \in 1..Len(journal) : journal[i] \in Honest
  BY <1>1, ElementOfSeq
<1>5. mode = "live" => tape' = tape \cup {Tape!Line(c, r)}
  BY DEF Logged
<1>6. mode # "live" => tape' = tape
  BY DEF Logged
<1> QED BY <1>1, <1>2, <1>3, <1>4, <1>5, <1>6, Zenon

\* A command is put behind those that wait.
LEMMA Queues ==
  ASSUME ReplayTyped, NEW c \in Tape!Queue!Payload, q' = Append(q, c)
  PROVE  /\ Len(q) \in Nat /\ Len(q') = Len(q) + 1
         /\ \A i \in 1..Len(q) : q'[i] = q[i]
         /\ q'[Len(q) + 1] = c
BY LenProperties, AppendProperties DEF ReplayTyped

\* The first of a sequence is taken away.
LEMMA Shifts ==
  ASSUME NEW S, NEW s \in Seq(S), s # <<>>
  PROVE  /\ Len(s) \in Nat /\ Len(s) >= 1 /\ Len(Tail(s)) = Len(s) - 1 /\ Head(s) = s[1]
         /\ \A i \in 1..Len(Tail(s)) : Tail(s)[i] = s[i + 1] /\ i + 1 \in 2..Len(s)
<1>1. Len(s) \in Nat /\ Len(s) >= 1 /\ Len(Tail(s)) = Len(s) - 1 /\ Head(s) = s[1]
  BY LenProperties, HeadTailProperties, EmptySeq
<1>2. \A i \in 1..Len(Tail(s)) : Tail(s)[i] = s[i + 1]
  BY HeadTailProperties
<1> QED BY <1>1, <1>2

\* The tape stays the journal's lines, in order of their numbers and of their hands.
LEMMA LiveLinesStep ==
  ASSUME ReplayTyped, mode = "live", LiveLines, [Tape!Next]_(Tape!vars), mode' = "live"
  PROVE  LiveLines'
<1> DEFINE n == Len(journal)
<1>0. n \in Nat /\ hand \in Nat /\ (\A i \in 1..n : journal[i].hand \in Nat)
  BY LenProperties, ElementOfSeq, HonestIs DEF ReplayTyped
<1>1. ASSUME NEW c \in Tape!Queue!Payload, NEW r \in Tape!Queue!Reasons \cup {"none"}, Logged(c, r),
             UNCHANGED <<pending, hand, pc>>, pc # "settle" => batch' = batch
      PROVE  LiveLines'
  <2> DEFINE L == journal'[n + 1]
  <2>1. /\ Len(journal') = n + 1 /\ \A i \in 1..n : journal'[i] = journal[i]
        /\ L.hand = hand /\ L.seq = n + 1 /\ tape' = tape \cup {L}
    BY <1>1, Adds
  <2> HIDE DEF n, L
  <2>2. \A i \in 1..Len(journal') : (i \in 1..n \/ i = n + 1)
    BY <1>0, <2>1
  <2>3. tape' = {journal'[i] : i \in 1..Len(journal')}
    <3>1. \A x \in tape : \E i \in 1..n : x = journal[i]
      BY DEF LiveLines, n
    <3>2. \A i \in 1..n : journal[i] \in tape
      BY DEF LiveLines, n
    <3>3. n + 1 \in 1..Len(journal') /\ \A i \in 1..n : i \in 1..Len(journal')
      BY <1>0, <2>1
    <3>4. journal'[n + 1] = L
      BY DEF L, n
    <3> QED BY <2>1, <2>2, <3>1, <3>2, <3>3, <3>4
  <2>4. \A i \in 1..n : journal[i].seq = i /\ journal[i].hand <= hand
    BY DEF LiveLines, n
  <2>5. \A i, j \in 1..n : i <= j => journal[i].hand <= journal[j].hand
    BY DEF LiveLines, n
  <2>6. \A i \in 1..Len(journal') : journal'[i].seq = i /\ journal'[i].hand <= hand'
    BY <1>0, <1>1, <2>1, <2>2, <2>4 DEF L, n
  <2>7. \A i, j \in 1..Len(journal') : i <= j => journal'[i].hand <= journal'[j].hand
    <3> SUFFICES ASSUME NEW i \in 1..Len(journal'), NEW j \in 1..Len(journal'), i <= j
                 PROVE  journal'[i].hand <= journal'[j].hand
      OBVIOUS
    <3>1. CASE j = n + 1
      BY <1>1, <2>1, <2>6, <3>1 DEF L, n
    <3>2. CASE j \in 1..n
      <4>1. i \in 1..n
        BY <1>0, <2>1, <3>2
      <4> QED BY <2>1, <2>5, <3>2, <4>1
    <3> QED BY <2>2, <3>1, <3>2
  <2>8. pending' = <<>> /\ (pc' # "settle" => batch' = <<>>)
    BY <1>1 DEF LiveLines
  <2> QED BY <2>3, <2>6, <2>7, <2>8 DEF LiveLines
<1>2. ASSUME UNCHANGED <<journal, tape, pending>>, hand' \in Nat, hand <= hand', pc' # "settle" => batch' = <<>>
      PROVE  LiveLines'
  BY <1>0, <1>2 DEF LiveLines
<1>3. ~Injecting
  BY DEF LiveLines, Injecting, Tape!Due
<1>4. ASSUME NEW c \in Tape!Queue!Command, Takes(c) PROVE LiveLines'
  BY <1>0, <1>2, <1>4 DEF Takes, LiveLines
<1>5. ASSUME NEW c \in Tape!Queue!Command, NEW r \in Tape!Queue!RefusalReasons, Refuses(c, r) PROVE LiveLines'
  <2>1. Queued(c) \in Tape!Queue!Payload /\ r \in Tape!Queue!Reasons
    BY QueuedTyped, AllReasons DEF Tape!Queue!Command
  <2> QED BY <1>1, <1>5, <2>1 DEF Refuses
<1>6. ASSUME NEW event \in {"comeout", "roll"}, Plays(event) PROVE LiveLines'
  BY <1>0, <1>2, <1>6 DEF Plays, After, LiveLines, Tape!Happens
<1>7. ASSUME Drains PROVE LiveLines'
  BY <1>0, <1>2, <1>7 DEF Drains, LiveLines
<1>8. ASSUME NEW r \in Tape!Queue!OutcomeReasons \cup {"none"}, Settles(r) PROVE LiveLines'
  <2>1. Head(batch) \in Tape!Queue!Payload /\ r \in Tape!Queue!Reasons \cup {"none"}
    BY <1>8, HeadTailProperties, AllReasons DEF Settles, ReplayTyped
  <2> QED BY <1>1, <1>8, <2>1 DEF Settles
<1>9. ASSUME Ends PROVE LiveLines'
  BY <1>0, <1>2, <1>9 DEF Ends
<1>10. ASSUME Rests PROVE LiveLines'
  BY <1>0, <1>2, <1>10 DEF Rests, LiveLines
<1>11. ~Starts
  BY DEF Starts
<1> QED BY <1>3, <1>4, <1>5, <1>6, <1>7, <1>8, <1>9, <1>10, <1>11, ReplaySteps DEF Repeats, Injects, Bounces

\* No command of the live run is executed twice.
LEMMA LiveOnceStep ==
  ASSUME ReplayTyped, mode = "live", LiveLines, LiveOnce, [Tape!Next]_(Tape!vars), mode' = "live"
  PROVE  LiveOnce'
<1>0. Len(q) \in Nat /\ Len(batch) \in Nat /\ Len(journal) \in Nat
  BY LenProperties DEF ReplayTyped
<1>1. ASSUME UNCHANGED <<journal, q, seen>>, batch' = batch PROVE LiveOnce'
  BY <1>1 DEF LiveOnce, Single
<1>2. ASSUME NEW c \in Tape!Queue!Command, Takes(c) PROVE LiveOnce'
  <2>1. Queued(c) \in Tape!Queue!Payload /\ Queued(c).cid = c.cid
    BY QueuedTyped DEF Tape!Queue!Command
  <2>2. /\ Len(q') = Len(q) + 1 /\ \A i \in 1..Len(q) : q'[i] = q[i]
        /\ q'[Len(q) + 1].cid = c.cid
    BY <1>2, <2>1, Queues DEF Takes
  <2>3. c.cid \notin seen /\ seen' = seen \cup {c.cid} /\ UNCHANGED <<journal, batch>>
    BY <1>2 DEF Takes
  <2>4. \A i \in 1..Len(q') : (i \in 1..Len(q) /\ q'[i] = q[i] /\ q'[i].cid \in seen)
                              \/ (i = Len(q) + 1 /\ q'[i].cid = c.cid)
    BY <1>0, <2>2 DEF LiveOnce
  <2>5. Single(q)'
    BY <2>3, <2>4 DEF LiveOnce, Single
  <2>6. \A i \in 1..Len(q'), j \in 1..Len(batch) : q'[i].cid # batch[j].cid
    BY <2>3, <2>4 DEF LiveOnce
  <2>7. \A i \in 1..Len(journal) : Ran(journal[i]) =>
          /\ journal[i].cid \in seen
          /\ \A j \in 1..Len(q') : q'[j].cid # journal[i].cid
    BY <2>3, <2>4 DEF LiveOnce
  <2>8. \A i \in 1..Len(q') : q'[i].cid \in seen'
    BY <2>3, <2>4
  <2> QED BY <2>3, <2>5, <2>6, <2>7, <2>8 DEF LiveOnce, Single
<1>3. ASSUME NEW c \in Tape!Queue!Command, NEW r \in Tape!Queue!RefusalReasons, Refuses(c, r) PROVE LiveOnce'
  <2>1. Queued(c) \in Tape!Queue!Payload /\ r \in Tape!Queue!Reasons /\ r # "none"
    BY QueuedTyped, AllReasons DEF Tape!Queue!Command
  <2>2. /\ Len(journal') = Len(journal) + 1 /\ \A i \in 1..Len(journal) : journal'[i] = journal[i]
        /\ ~Ran(journal'[Len(journal) + 1])
    BY <1>3, <2>1, Adds DEF Refuses
  <2>3. \A i \in 1..Len(journal') : Ran(journal'[i]) => i \in 1..Len(journal) /\ journal'[i] = journal[i]
    BY <1>0, <2>2
  <2>4. UNCHANGED <<q, seen, batch>>
    BY <1>3 DEF Refuses
  <2> QED BY <2>3, <2>4 DEF LiveOnce, Single, Ran
<1>4. ASSUME Drains PROVE LiveOnce'
  <2>1. batch' = q /\ q' = <<>> /\ UNCHANGED <<journal, seen>>
    BY <1>4 DEF Drains
  <2>2. Len(q') = 0
    BY <2>1
  <2> QED BY <2>1, <2>2 DEF LiveOnce, Single
<1>5. ASSUME NEW r \in Tape!Queue!OutcomeReasons \cup {"none"}, Settles(r) PROVE LiveOnce'
  <2> DEFINE c == batch[1]
  <2>0. batch # <<>> /\ batch' = Tail(batch) /\ Logged(Head(batch), r) /\ UNCHANGED <<q, seen>>
    BY <1>5 DEF Settles
  <2>1. /\ Len(batch) >= 1 /\ Len(batch') = Len(batch) - 1 /\ Head(batch) = c
        /\ \A i \in 1..Len(batch') : batch'[i] = batch[i + 1] /\ i + 1 \in 1..Len(batch) /\ i + 1 # 1
    BY <1>0, <2>0, Shifts DEF ReplayTyped
  <2>2. c \in Tape!Queue!Payload /\ r \in Tape!Queue!Reasons \cup {"none"}
    BY <2>0, <2>1, HeadTailProperties, AllReasons DEF ReplayTyped
  <2>3. /\ Len(journal') = Len(journal) + 1 /\ \A i \in 1..Len(journal) : journal'[i] = journal[i]
        /\ journal'[Len(journal) + 1].cid = c.cid
    BY <2>0, <2>1, <2>2, Adds
  <2>4. \A i \in 1..Len(journal') : (i \in 1..Len(journal) /\ journal'[i] = journal[i])
                                    \/ (i = Len(journal) + 1 /\ journal'[i].cid = c.cid)
    BY <1>0, <2>3
  <2>5. 1 \in 1..Len(batch)
    BY <1>0, <2>1
  <2>6. /\ c.cid \in seen /\ \A j \in 1..Len(q) : q[j].cid # c.cid
        /\ \A i \in 1..Len(batch') : batch'[i].cid # c.cid
    BY <2>1, <2>5 DEF LiveOnce, Single
  <2>7. \A i \in 1..Len(journal) : Ran(journal[i]) => journal[i].cid # c.cid
    BY <2>5 DEF LiveOnce
  <2> HIDE DEF c
  <2>8. Single(batch')
    <3> SUFFICES ASSUME NEW i \in 1..Len(batch'), NEW j \in 1..Len(batch'), batch'[i].cid = batch'[j].cid
                 PROVE  i = j
      BY DEF Single
    <3>1. i + 1 \in 1..Len(batch) /\ j + 1 \in 1..Len(batch) /\ batch[i + 1].cid = batch[j + 1].cid
      BY <2>1
    <3>2. i + 1 = j + 1
      BY <3>1, Zenon DEF LiveOnce, Single
    <3> QED BY <3>2
  <2>9. \A i \in 1..Len(batch') : batch'[i].cid \in seen /\ \A j \in 1..Len(q) : q[j].cid # batch'[i].cid
    BY <2>1 DEF LiveOnce
  <2>10. \A i \in 1..Len(journal), j \in 1..Len(batch') : Ran(journal[i]) => batch'[j].cid # journal[i].cid
    BY <2>1 DEF LiveOnce
  <2>11. \A i \in 1..Len(journal') : Ran(journal'[i]) =>
           /\ journal'[i].cid \in seen
           /\ \A j \in 1..Len(q) : q[j].cid # journal'[i].cid
           /\ \A j \in 1..Len(batch') : batch'[j].cid # journal'[i].cid
    BY <2>4, <2>6, <2>10 DEF LiveOnce
  <2>12. \A i, j \in 1..Len(journal') :
           Ran(journal'[i]) /\ Ran(journal'[j]) /\ journal'[i].cid = journal'[j].cid => i = j
    BY <2>4, <2>7 DEF LiveOnce
  <2> QED BY <2>0, <2>8, <2>9, <2>11, <2>12 DEF LiveOnce, Single
<1>6. ~Injecting /\ ~Starts
  BY DEF LiveLines, Injecting, Tape!Due, Starts
<1> QED BY <1>1, <1>2, <1>3, <1>4, <1>5, <1>6, ReplaySteps
        DEF Repeats, Injects, Bounces, Plays, Ends, Rests

\* The hand before the event that comes.
Last(h) == IF Len(game) = 0 THEN 0 ELSE h[Len(game)]

\* What the live run executes is executed at a roll of its hand.
LEMMA LiveGameStep ==
  ASSUME ReplayTyped, mode = "live", LiveLines, LiveGame, [Tape!Next]_(Tape!vars), mode' = "live"
  PROVE  LiveGame'
<1> DEFINE n == Len(game)
<1>0. n \in Nat /\ Len(batch) \in Nat /\ Len(journal) \in Nat /\ hand \in Nat
  BY LenProperties DEF ReplayTyped
<1> HIDE DEF n
<1>1. PICK h \in [1..n -> Nat] :
        /\ Hands(game, h, 0) /\ hand = Last(h)
        /\ pc # "table" => n > 0 /\ game[n] = "roll"
        /\ \A i \in 1..Len(journal) : Ran(journal[i]) => RolledIn(game, h, journal[i].hand)
  BY DEF LiveGame, Last, n
<1>2. ASSUME UNCHANGED <<hand, game>>, pc' # "table" => pc # "table",
             \A i \in 1..Len(journal') : Ran(journal'[i]) => RolledIn(game, h, journal'[i].hand)
      PROVE  LiveGame'
  BY <1>1, <1>2 DEF LiveGame, Last, Ran, n
<1>3. ASSUME NEW c \in Tape!Queue!Payload, NEW r \in Tape!Queue!Reasons \cup {"none"}, Logged(c, r),
             UNCHANGED <<hand, game, pc>>, r = "none" => pc # "table"
      PROVE  LiveGame'
  <2>1. /\ Len(journal') = Len(journal) + 1 /\ \A i \in 1..Len(journal) : journal'[i] = journal[i]
        /\ journal'[Len(journal) + 1].hand = hand
        /\ Ran(journal'[Len(journal) + 1]) <=> r = "none"
    BY <1>3, Adds
  <2>2. r = "none" => RolledIn(game, h, hand)
    <3>1. ASSUME r = "none" PROVE n \in 1..n /\ game[n] = "roll" /\ h[n] = hand
      BY <1>0, <1>1, <1>3, <3>1 DEF Last, n
    <3> QED BY <3>1 DEF RolledIn, n
  <2>3. \A i \in 1..Len(journal') : Ran(journal'[i]) => RolledIn(game, h, journal'[i].hand)
    <3> SUFFICES ASSUME NEW i \in 1..Len(journal'), Ran(journal'[i]) PROVE RolledIn(game, h, journal'[i].hand)
      OBVIOUS
    <3>1. CASE i = Len(journal) + 1
      BY <2>1, <2>2, <3>1
    <3>2. CASE i \in 1..Len(journal)
      BY <1>1, <2>1, <3>2
    <3> QED BY <1>0, <2>1, <3>1, <3>2
  <2> QED BY <1>2, <1>3, <2>3
<1>4. ASSUME NEW event \in {"comeout", "roll"}, Plays(event) PROVE LiveGame'
  <2> DEFINE g == [k \in 1..n + 1 |-> IF k = n + 1 THEN After(hand, event) ELSE h[k]]
  <2>1. game' = Append(game, event) /\ hand' = After(hand, event) /\ UNCHANGED journal
        /\ (pc' # "table" => event = "roll")
    BY <1>4 DEF Plays, Tape!Happens
  <2>2. /\ Len(game') = n + 1 /\ game'[n + 1] = event /\ \A k \in 1..n : game'[k] = game[k]
    BY <2>1, AppendProperties DEF ReplayTyped, n
  <2>3. After(hand, event) \in Nat /\ hand <= After(hand, event)
    BY <1>0 DEF After
  <2>4. /\ \A k \in 1..n : g[k] = h[k] /\ g[k] \in Nat
        /\ g[n + 1] = After(hand, event) /\ g \in [1..n + 1 -> Nat]
    BY <1>0, <2>3
  <2> HIDE DEF g
  <2>5. \A k \in 1..n : h[k] <= hand
    <3> SUFFICES ASSUME NEW k \in 1..n PROVE h[k] <= hand
      OBVIOUS
    <3>1. n \in 1..n /\ n # 0 /\ k <= n
      BY <1>0
    <3> QED BY <1>1, <3>1 DEF Hands, Last, n
  <2>6. \A k \in 1..n + 1 : k \in 1..n \/ k = n + 1
    BY <1>0
  <2>7. Hands(game', g, 0)
    <3>1. \A k \in 1..n + 1 : g[k] = After(IF k = 1 THEN 0 ELSE g[k - 1], game'[k])
      <4>1. ASSUME NEW k \in 1..n PROVE g[k] = After(IF k = 1 THEN 0 ELSE g[k - 1], game'[k])
        <5>1. k # 1 => k - 1 \in 1..n
          BY <1>0
        <5>2. h[k] = After(IF k = 1 THEN 0 ELSE h[k - 1], game[k])
          BY <1>1 DEF Hands, n
        <5> QED BY <2>2, <2>4, <5>1, <5>2
      <4>2. g[n + 1] = After(IF n + 1 = 1 THEN 0 ELSE g[(n + 1) - 1], game'[n + 1])
        <5>1. CASE n = 0
          BY <1>1, <2>2, <2>4, <5>1 DEF Last, n
        <5>2. CASE n # 0
          <6>1. n \in 1..n /\ (n + 1) - 1 = n /\ n + 1 # 1
            BY <1>0, <5>2
          <6> QED BY <1>1, <2>2, <2>4, <5>2, <6>1 DEF Last, n
        <5> QED BY <5>1, <5>2
      <4> QED BY <2>6, <4>1, <4>2
    <3>2. \A k \in 1..n + 1 : 0 <= g[k]
      BY <2>4
    <3>3. \A j, k \in 1..n + 1 : j <= k => g[j] <= g[k]
      <4> SUFFICES ASSUME NEW j \in 1..n + 1, NEW k \in 1..n + 1, j <= k PROVE g[j] <= g[k]
        OBVIOUS
      <4>1. CASE k = n + 1
        <5>1. CASE j = n + 1
          BY <2>3, <2>4, <4>1, <5>1
        <5>2. CASE j \in 1..n
          <6>1. g[j] \in Nat /\ g[j] <= hand /\ g[k] = After(hand, event)
            BY <2>4, <2>5, <4>1, <5>2
          <6> QED BY <1>0, <2>3, <6>1
        <5> QED BY <2>6, <5>1, <5>2
      <4>2. CASE k \in 1..n
        <5>1. j \in 1..n
          BY <1>0, <4>2
        <5>2. h[j] <= h[k]
          BY <1>1, <4>2, <5>1 DEF Hands, n
        <5> QED BY <2>4, <4>2, <5>1, <5>2
      <4> QED BY <2>6, <4>1, <4>2
    <3> QED BY <2>2, <2>4, <3>1, <3>2, <3>3 DEF Hands, After
  <2>8. \A i \in 1..Len(journal) : Ran(journal[i]) => RolledIn(game', g, journal[i].hand)
    <3> SUFFICES ASSUME NEW i \in 1..Len(journal), Ran(journal[i])
                 PROVE  \E k \in 1..n + 1 : game'[k] = "roll" /\ g[k] = journal[i].hand
      BY <2>2 DEF RolledIn
    <3>1. PICK k \in 1..n : game[k] = "roll" /\ h[k] = journal[i].hand
      BY <1>1 DEF RolledIn, n
    <3> QED BY <1>0, <2>2, <2>4, <3>1
  <2>9. hand' = g[Len(game')] /\ Len(game') # 0 /\ Len(game') > 0
    BY <1>0, <2>1, <2>2, <2>4
  <2> QED BY <2>1, <2>2, <2>4, <2>7, <2>8, <2>9 DEF LiveGame, Ran
<1>5. ASSUME NEW c \in Tape!Queue!Command, NEW r \in Tape!Queue!RefusalReasons, Refuses(c, r) PROVE LiveGame'
  <2>1. Queued(c) \in Tape!Queue!Payload /\ r \in Tape!Queue!Reasons /\ r # "none"
    BY QueuedTyped, AllReasons DEF Tape!Queue!Command
  <2> QED BY <1>3, <1>5, <2>1 DEF Refuses
<1>6. ASSUME NEW r \in Tape!Queue!OutcomeReasons \cup {"none"}, Settles(r) PROVE LiveGame'
  <2>1. Head(batch) \in Tape!Queue!Payload /\ r \in Tape!Queue!Reasons \cup {"none"}
    BY <1>6, HeadTailProperties, AllReasons DEF Settles, ReplayTyped
  <2> QED BY <1>3, <1>6, <2>1 DEF Settles
<1>7. ~Injecting /\ ~Starts
  BY DEF LiveLines, Injecting, Tape!Due, Starts
<1>8. ASSUME UNCHANGED <<hand, game, journal>>, pc' # "table" => pc # "table" PROVE LiveGame'
  BY <1>1, <1>2, <1>8
<1> QED BY <1>4, <1>5, <1>6, <1>7, <1>8, ReplaySteps
        DEF Repeats, Injects, Bounces, Takes, Drains, Ends, Rests

---------------------------------------------------------------------------
(* The replay run starts. *)

\* What the live run leaves on its tape is what the replay run relies on.
LEMMA StartsRight ==
  ASSUME ReplayTyped, LiveInv, Starts
  PROVE  ReplayInv'
<1> DEFINE n == Len(journal)
<1>0. n \in Nat
  BY LenProperties DEF ReplayTyped
<1>1. pending' = journal /\ IsFiniteSet(tape)
  BY RecordedIs DEF Starts, LiveInv
<1>2. /\ tape = {journal[i] : i \in 1..n} /\ \A i \in 1..n : journal[i].seq = i /\ journal[i] \in tape
      /\ \A i, j \in 1..n : i <= j => journal[i].hand <= journal[j].hand
  BY DEF LiveInv, LiveLines
<1>3. /\ tape' = tape /\ batch' = <<>> /\ game' = game /\ pc' = "table"
      /\ journal' = <<>> /\ q' = <<>> /\ seen' = {} /\ hand' = 0
  BY DEF LiveInv, LiveLines, Starts
<1>4. TapeInv'
  <2>1. ASSUME NEW l \in tape, NEW m \in tape
        PROVE  /\ l.seq = m.seq => l = m
               /\ l.seq <= m.seq => l.hand <= m.hand
               /\ Ran(l) /\ Ran(m) /\ l.cid = m.cid => l = m
    <3>1. PICK i \in 1..n : l = journal[i]
      BY <1>2
    <3>2. PICK j \in 1..n : m = journal[j]
      BY <1>2
    <3>3. l.seq = i /\ m.seq = j
      BY <1>2, <3>1, <3>2
    <3>4. Ran(l) /\ Ran(m) /\ l.cid = m.cid => i = j
      BY <3>1, <3>2 DEF LiveInv, LiveOnce
    <3> QED BY <1>2, <3>1, <3>2, <3>3, <3>4
  <2> QED BY <1>1, <1>3, <2>1, Zenon DEF TapeInv, Ran
<1>5. Injected' = {}
  <2>1. DOMAIN journal = 1..n
    BY LenProperties DEF ReplayTyped
  <2> QED BY <1>1, <1>2, <1>3, <2>1 DEF Injected, Range
<1>6. PendingInv'
  BY <1>0, <1>1, <1>2, <1>3, <1>5 DEF PendingInv
<1>7. Waiting' = <<>> /\ Len(<<>>) = 0 /\ 1..0 = {}
  BY <1>3 DEF Waiting
<1>8. OrderInv'
  BY <1>3, <1>7 DEF OrderInv
<1>9. ReplayGame'
  <2>1. PICK h \in [1..Len(game) -> Nat] :
          /\ Hands(game, h, 0)
          /\ \A i \in 1..n : Ran(journal[i]) => RolledIn(game, h, journal[i].hand)
    BY DEF LiveInv, LiveGame
  <2> QED BY <1>1, <1>3, <2>1 DEF ReplayGame, Ran
<1>10. CountInv'
  <2> SUFFICES ASSUME NEW c \in Cids
               PROVE  Cardinality(At(journal', c)) + Cardinality(At(Waiting', c)) = Cardinality(OfId(Injected', c))
    BY DEF CountInv
  <2>1. At(<<>>, c) = {} /\ OfId({}, c) = {}
    BY DEF At, OfId
  <2> QED BY <1>3, <1>5, <1>7, <2>1, FS_EmptySet
<1> QED BY <1>4, <1>6, <1>8, <1>9, <1>10 DEF ReplayInv

---------------------------------------------------------------------------
(* How many lines a command has. *)

Is(x, c) == IF x.cid = c THEN 1 ELSE 0

\* A command has finitely many lines.
LEMMA AtFinite ==
  ASSUME NEW S, NEW s \in Seq(S), NEW c
  PROVE  IsFiniteSet(At(s, c)) /\ Cardinality(At(s, c)) \in Nat
<1>1. IsFiniteSet(1..Len(s))
  BY FS_Interval, LenProperties
<1>2. IsFiniteSet(At(s, c))
  BY <1>1, FS_Subset DEF At
<1> QED BY <1>2, FS_CardinalityType

\* One line more.
LEMMA AtAppend ==
  ASSUME NEW S, NEW s \in Seq(S), NEW t, NEW x, NEW c, Len(t) = Len(s) + 1,
         \A i \in 1..Len(s) : t[i] = s[i], t[Len(s) + 1].cid = x.cid
  PROVE  Cardinality(At(t, c)) = Cardinality(At(s, c)) + Is(x, c)
<1> DEFINE n == Len(s)
<1>0. n \in Nat
  BY LenProperties
<1>1. IsFiniteSet(At(s, c)) /\ Cardinality(At(s, c)) \in Nat
  BY AtFinite
<1>4. n + 1 \notin At(s, c)
  BY <1>0 DEF At
<1> HIDE DEF n
<1>2. CASE x.cid = c
  <2>1. At(t, c) = At(s, c) \cup {n + 1}
    BY <1>0, <1>2 DEF At, n
  <2>2. Cardinality(At(t, c)) = Cardinality(At(s, c)) + 1
    BY <1>1, <1>4, <2>1, FS_AddElement
  <2> QED BY <1>2, <2>2 DEF Is
<1>3. CASE x.cid # c
  <2>1. At(t, c) = At(s, c)
    BY <1>0, <1>3 DEF At, n
  <2> QED BY <1>1, <1>3, <2>1 DEF Is
<1> QED BY <1>2, <1>3

\* One line less.
LEMMA AtTail ==
  ASSUME NEW S, NEW s \in Seq(S), s # <<>>, NEW c
  PROVE  Cardinality(At(s, c)) = Cardinality(At(Tail(s), c)) + Is(s[1], c)
<1> DEFINE n == Len(s)
           t == Tail(s)
           A == At(t, c)
           B == At(s, c) \ {1}
           g == [i \in A |-> i + 1]
<1>1. /\ n \in Nat /\ n >= 1 /\ Len(t) = n - 1
      /\ \A i \in 1..Len(t) : t[i] = s[i + 1] /\ i + 1 \in 1..n /\ i + 1 # 1
  BY Shifts
<1>2. t \in Seq(S)
  BY HeadTailProperties
<1>3. IsFiniteSet(A) /\ Cardinality(A) \in Nat /\ IsFiniteSet(At(s, c))
  BY <1>2, AtFinite
<1>4. \A i \in A : i \in Nat /\ i + 1 \in B
  BY <1>1 DEF At
<1>5. \A k \in B : k - 1 \in A /\ (k - 1) + 1 = k
  <2> SUFFICES ASSUME NEW k \in B PROVE k - 1 \in A /\ (k - 1) + 1 = k
    OBVIOUS
  <2>1. k \in 1..n /\ k # 1 /\ s[k].cid = c
    BY DEF At
  <2>2. k - 1 \in 1..Len(t) /\ (k - 1) + 1 = k
    BY <1>1, <2>1
  <2>3. t[k - 1] = s[k]
    BY <1>1, <2>2
  <2> QED BY <2>1, <2>2, <2>3 DEF At
<1>6. Cardinality(B) = Cardinality(A)
  <2> HIDE DEF A, B
  <2>1. g \in [A -> B]
    BY <1>4
  <2>2. g \in Injection(A, B)
    BY <1>4, <2>1 DEF Injection, IsInjective
  <2>3. g \in Surjection(A, B)
    BY <1>5, <2>1 DEF Surjection
  <2>4. ExistsBijection(A, B)
    BY <2>2, <2>3 DEF ExistsBijection, Bijection
  <2> QED BY <1>3, <2>4, FS_Bijection
<1>7. CASE s[1].cid = c
  <2>1. 1 \in At(s, c)
    BY <1>1, <1>7 DEF At
  <2>2. Cardinality(B) = Cardinality(At(s, c)) - 1 /\ Cardinality(At(s, c)) \in Nat
    BY <1>3, <2>1, FS_RemoveElement, FS_CardinalityType
  <2> QED BY <1>6, <1>7, <2>2 DEF Is
<1>8. CASE s[1].cid # c
  <2>1. B = At(s, c)
    BY <1>8 DEF At
  <2>2. Is(s[1], c) = 0
    BY <1>8 DEF Is
  <2>3. Cardinality(At(s, c)) = Cardinality(A)
    BY <1>6, <2>1
  <2> HIDE DEF A
  <2> QED BY <1>3, <2>2, <2>3 DEF A
<1> QED BY <1>7, <1>8

\* One line more among those injected.
LEMMA OfIdAdd ==
  ASSUME NEW A, IsFiniteSet(A), NEW l, l \notin A, NEW c
  PROVE  Cardinality(OfId(A \cup {l}, c)) = Cardinality(OfId(A, c)) + Is(l, c)
<1>1. IsFiniteSet(OfId(A, c)) /\ l \notin OfId(A, c)
  BY FS_Subset DEF OfId
<1>2. Cardinality(OfId(A, c)) \in Nat
  BY <1>1, FS_CardinalityType
<1>3. CASE l.cid = c
  <2>1. OfId(A \cup {l}, c) = OfId(A, c) \cup {l}
    BY <1>3 DEF OfId
  <2> QED BY <1>1, <1>3, <2>1, FS_AddElement DEF Is
<1>4. CASE l.cid # c
  <2>1. OfId(A \cup {l}, c) = OfId(A, c)
    BY <1>4 DEF OfId
  <2> QED BY <1>2, <1>4, <2>1 DEF Is
<1> QED BY <1>3, <1>4

---------------------------------------------------------------------------
(* The replay run keeps its invariant. *)

\* The next line of the tape: one that no one injected, and its command is new.
LEMMA NextLine ==
  ASSUME ReplayTyped, TapeInv, PendingInv, pending # <<>>
  PROVE  /\ pending[1] = Head(pending) /\ pending[1] \in tape \ Injected
         /\ \A m \in Injected : m.seq < pending[1].seq
         /\ \A i \in 1..Len(Tail(pending)) :
              Tail(pending)[i] = pending[i + 1] /\ i + 1 \in 1..Len(pending)
              /\ pending[1].seq < pending[i + 1].seq
         /\ tape \ Range(Tail(pending)) = Injected \cup {pending[1]}
         /\ Ran(pending[1]) => pending[1].cid \notin seen
<1> DEFINE l == pending[1]
           t == Tail(pending)
<1>0. /\ Len(pending) \in Nat /\ Len(pending) >= 1 /\ Len(t) = Len(pending) - 1 /\ Head(pending) = l
      /\ \A i \in 1..Len(t) : t[i] = pending[i + 1] /\ i + 1 \in 1..Len(pending) /\ 1 < i + 1
      /\ 1 \in 1..Len(pending)
  BY Shifts DEF ReplayTyped
<1>1. t \in Seq(Honest) /\ DOMAIN t = 1..Len(t) /\ DOMAIN pending = 1..Len(pending)
  BY HeadTailProperties, LenProperties DEF ReplayTyped
<1>2. l \in tape /\ l \notin Injected
  BY <1>0, <1>1 DEF PendingInv, Injected, Range
<1>3. \A m \in Injected : m.seq < l.seq
  BY <1>0 DEF PendingInv
<1>4. \A i \in 1..Len(t) : l.seq < pending[i + 1].seq
  BY <1>0, Zenon DEF PendingInv
<1>5. l \notin Range(t)
  <2>1. ASSUME NEW i \in DOMAIN t, t[i] = l PROVE FALSE
    <3>1. l.seq < l.seq
      BY <1>0, <1>1, <1>4, <2>1
    <3>2. l.seq \in Nat
      BY <1>2, HonestIs DEF ReplayTyped
    <3> QED BY <3>1, <3>2
  <2> QED BY <2>1 DEF Range
<1>6. Range(pending) = Range(t) \cup {l}
  <2>1. ASSUME NEW k \in DOMAIN pending PROVE pending[k] \in Range(t) \cup {l}
    <3>1. CASE k = 1
      BY <3>1
    <3>2. CASE k # 1
      <4>1. k - 1 \in DOMAIN t /\ t[k - 1] = pending[k]
        BY <1>0, <1>1, <3>2
      <4> QED BY <4>1 DEF Range
    <3> QED BY <3>1, <3>2
  <2>2. ASSUME NEW k \in DOMAIN t PROVE t[k] \in Range(pending)
    BY <1>0, <1>1 DEF Range
  <2>3. l \in Range(pending)
    BY <1>0, <1>1 DEF Range
  <2> QED BY <2>1, <2>2, <2>3 DEF Range
<1>7. tape \ Range(t) = Injected \cup {l}
  BY <1>2, <1>5, <1>6 DEF Injected
<1>8. ASSUME Ran(l), l.cid \in seen PROVE FALSE
  <2>1. PICK m \in Injected : Ran(m) /\ m.cid = l.cid
    BY <1>8 DEF PendingInv
  <2>2. m = l
    BY <1>2, <1>8, <2>1 DEF TapeInv, Injected
  <2> QED BY <1>2, <2>1, <2>2
<1> QED BY <1>0, <1>2, <1>3, <1>4, <1>7, <1>8

\* The replay run leaves the tape alone, and the queue refuses nothing that it injects.
LEMMA TapeKept ==
  ASSUME ReplayTyped, mode = "replay", ReplayInv, [Tape!Next]_(Tape!vars)
  PROVE  tape' = tape /\ TapeInv' /\ mode' = "replay" /\ ~\E r : Bounces(r)
<1>1. ASSUME NEW r, Bounces(r) PROVE FALSE
  <2>1. pending # <<>> /\ Head(pending).executed /\ Head(pending).cid \in seen
    BY <1>1 DEF Bounces, Injecting, Tape!Due
  <2>2. Head(pending) \in Honest
    BY <2>1, HeadTailProperties DEF ReplayTyped
  <2> QED BY <2>1, <2>2, NextLine, HonestIs DEF ReplayInv
<1>2. tape' = tape
  BY <1>1, ReplaySteps DEF Takes, Refuses, Plays, Repeats, Injects, Drains, Settles, Ends, Starts, Rests, Logged
<1>3. mode' = "replay"
  BY <1>1, ReplaySteps DEF Takes, Refuses, Plays, Repeats, Injects, Drains, Settles, Ends, Starts, Rests
<1> QED BY <1>1, <1>2, <1>3 DEF ReplayInv, TapeInv, Ran

\* A line goes from what is pending to what was injected.
LEMMA Pops ==
  ASSUME ReplayTyped, mode = "replay", ReplayInv, tape' = tape, Injecting
  PROVE  /\ pending # <<>> /\ pending[1] = Head(pending) /\ pending[1] \in tape \ Injected
         /\ pending[1] \in Honest
         /\ Injected' = Injected \cup {pending[1]}
         /\ \A m \in Injected : m.seq < pending[1].seq
         /\ \A i \in 1..Len(pending') :
              pending'[i] = pending[i + 1] /\ i + 1 \in 1..Len(pending)
              /\ pending[1].seq < pending[i + 1].seq
<1>1. pending # <<>> /\ pending' = Tail(pending)
  BY DEF Injecting, Tape!Due
<1> QED BY <1>1, NextLine DEF ReplayInv, Injected, ReplayTyped

\* What is pending stays the rest of the tape.
LEMMA PendingStep ==
  ASSUME ReplayTyped, mode = "replay", ReplayInv, [Tape!Next]_(Tape!vars)
  PROVE  PendingInv'
<1>0. tape' = tape /\ ~\E r : Bounces(r)
  BY TapeKept
<1>1. ASSUME Injecting, seen' = seen \cup {l.cid : l \in {m \in {pending[1]} : Ran(m)}}
      PROVE  PendingInv'
  <2>1. /\ pending[1] \in tape /\ Injected' = Injected \cup {pending[1]}
        /\ \A m \in Injected : m.seq < pending[1].seq
        /\ \A i \in 1..Len(pending') :
              pending'[i] = pending[i + 1] /\ i + 1 \in 1..Len(pending)
              /\ pending[1].seq < pending[i + 1].seq
    BY <1>0, <1>1, Pops
  <2>2. Len(pending') \in Nat /\ \A m \in tape : m.seq \in Nat
    <3>1. pending' \in Seq(Honest)
      BY <1>1, HeadTailProperties DEF Injecting, Tape!Due, ReplayTyped
    <3> QED BY <3>1, LenProperties, HonestIs DEF ReplayTyped
  <2>3. \A i \in 1..Len(pending) : pending[i] \in tape
    BY DEF ReplayInv, PendingInv
  <2>4. \A i \in 1..Len(pending') : pending'[i] \in tape'
    BY <1>0, <2>1, <2>3
  <2>5. \A i, j \in 1..Len(pending') : i < j => pending'[i].seq < pending'[j].seq
    <3> SUFFICES ASSUME NEW i \in 1..Len(pending'), NEW j \in 1..Len(pending'), i < j
                 PROVE  pending'[i].seq < pending'[j].seq
      OBVIOUS
    <3>1. i + 1 < j + 1 /\ i + 1 \in 1..Len(pending) /\ j + 1 \in 1..Len(pending)
      BY <2>1
    <3>2. pending[i + 1].seq < pending[j + 1].seq
      BY <3>1, Zenon DEF ReplayInv, PendingInv
    <3> QED BY <2>1, <3>2
  <2>6. \A l \in Injected', i \in 1..Len(pending') : l.seq < pending'[i].seq
    <3> SUFFICES ASSUME NEW l \in Injected', NEW i \in 1..Len(pending') PROVE l.seq < pending'[i].seq
      OBVIOUS
    <3>1. l.seq \in Nat /\ pending[1].seq \in Nat /\ pending[i + 1].seq \in Nat
      BY <2>1, <2>2, <2>3 DEF Injected
    <3> QED BY <2>1, <3>1
  <2>7. seen' = {l.cid : l \in {m \in Injected' : Ran(m)}}
    BY <1>1, <2>1 DEF ReplayInv, PendingInv
  <2> QED BY <2>4, <2>5, <2>6, <2>7 DEF PendingInv, Ran
<1>2. ASSUME UNCHANGED <<pending, seen>> PROVE PendingInv'
  BY <1>0, <1>2 DEF ReplayInv, PendingInv, Injected, Ran
<1>3. ASSUME Repeats PROVE PendingInv'
  <2>1. Injecting /\ seen' = seen /\ ~Head(pending).executed
    BY <1>3 DEF Repeats
  <2>2. ~Ran(pending[1])
    BY <1>0, <2>1, Pops, HonestIs
  <2> QED BY <1>1, <2>1, <2>2
<1>4. ASSUME Injects PROVE PendingInv'
  <2>1. Injecting /\ seen' = seen \cup {pending[1].cid} /\ Head(pending).executed
    BY <1>0, <1>4, Pops DEF Injects
  <2>2. Ran(pending[1])
    BY <1>0, <2>1, Pops, HonestIs
  <2> QED BY <1>1, <2>1, <2>2
<1> QED BY <1>0, <1>2, <1>3, <1>4, ReplaySteps DEF Takes, Refuses, Plays, Drains, Settles, Ends, Starts, Rests

\* No roll goes by without the commands of its hand, so those pending have one to come.
LEMMA ReplayGameStep ==
  ASSUME ReplayTyped, mode = "replay", ReplayInv, [Tape!Next]_(Tape!vars)
  PROVE  ReplayGame'
<1>0. tape' = tape /\ ~\E r : Bounces(r)
  BY TapeKept
<1>1. PICK h \in [1..Len(game) -> Nat] :
        /\ Hands(game, h, hand)
        /\ \A i \in 1..Len(pending) : Ran(pending[i]) =>
             (pc = "inject" /\ pending[i].hand = hand) \/ RolledIn(game, h, pending[i].hand)
  BY DEF ReplayInv, ReplayGame
<1>2. ASSUME UNCHANGED <<pending, hand, game>>, pc = "inject" => pc' = "inject" PROVE ReplayGame'
  BY <1>1, <1>2 DEF ReplayGame, Ran
<1>3. ASSUME Injecting, UNCHANGED <<hand, game, pc>> PROVE ReplayGame'
  <2>1. \A i \in 1..Len(pending') : pending'[i] = pending[i + 1] /\ i + 1 \in 1..Len(pending)
    BY <1>0, <1>3, Pops
  <2>2. \A i \in 1..Len(pending') : Ran(pending'[i]) =>
             (pc = "inject" /\ pending'[i].hand = hand) \/ RolledIn(game, h, pending'[i].hand)
    BY <1>1, <2>1
  <2> QED BY <1>1, <1>3, <2>2 DEF ReplayGame, Ran
<1>4. ASSUME Drains PROVE ReplayGame'
  <2>1. ~Tape!Due /\ UNCHANGED <<pending, hand, game>>
    BY <1>4 DEF Drains
  <2>2. ASSUME NEW i \in 1..Len(pending) PROVE pending[i].hand # hand
    <3>1. pending # <<>> /\ 1 \in 1..Len(pending) /\ hand < pending[1].hand
      <4>1. Len(pending) \in Nat /\ 1 \in 1..Len(pending) /\ pending # <<>>
        BY LenProperties DEF ReplayTyped
      <4>2. pending[1].hand \in Nat /\ hand \in Nat
        BY <4>1, ElementOfSeq, HonestIs DEF ReplayTyped
      <4> QED BY <2>1, <4>1, <4>2 DEF Tape!Due
    <3>2. pending[1] \in tape /\ pending[i] \in tape /\ pending[1].seq <= pending[i].seq
      <4>1. pending[1] \in tape /\ pending[i] \in tape
        BY <3>1 DEF ReplayInv, PendingInv
      <4>2. pending[1].seq \in Nat /\ pending[i].seq \in Nat
        BY <4>1, HonestIs DEF ReplayTyped
      <4>3. CASE i = 1
        BY <4>1, <4>2, <4>3
      <4>4. CASE i # 1
        <5>1. 1 < i
          BY <4>4
        <5>2. pending[1].seq < pending[i].seq
          BY <3>1, <5>1 DEF ReplayInv, PendingInv
        <5> QED BY <4>1, <4>2, <5>2
      <4> QED BY <4>3, <4>4
    <3>3. pending[1].hand <= pending[i].hand
      BY <3>2 DEF ReplayInv, TapeInv
    <3>4. pending[1].hand \in Nat /\ pending[i].hand \in Nat /\ hand \in Nat
      BY <3>2, HonestIs DEF ReplayTyped
    <3> QED BY <3>1, <3>3, <3>4
  <2>3. \A i \in 1..Len(pending) : Ran(pending[i]) => RolledIn(game, h, pending[i].hand)
    BY <1>1, <2>2
  <2> QED BY <1>1, <2>1, <2>3 DEF ReplayGame, Ran
<1>5. ASSUME NEW event \in {"comeout", "roll"}, Plays(event) PROVE ReplayGame'
  <2> DEFINE m == Len(game')
             g == [k \in 1..m |-> h[k + 1]]
  <2>1. /\ game # <<>> /\ game' = Tail(game) /\ event = Head(game) /\ hand' = After(hand, event)
        /\ pc = "table" /\ UNCHANGED pending /\ (event = "roll" => pc' = "inject")
    BY <1>5 DEF Plays, Tape!Happens
  <2>2. /\ Len(game) \in Nat /\ Len(game) >= 1 /\ m = Len(game) - 1 /\ event = game[1]
        /\ \A k \in 1..m : game'[k] = game[k + 1] /\ k + 1 \in 1..Len(game)
    BY <2>1, Shifts DEF ReplayTyped
  <2> HIDE DEF m
  <2>3. /\ g \in [1..m -> Nat] /\ \A k \in 1..m : g[k] = h[k + 1]
    BY <1>1, <2>2
  <2> HIDE DEF g
  <2>4. 1 \in 1..Len(game) /\ h[1] = hand'
    BY <1>1, <2>1, <2>2 DEF Hands
  <2>5. Hands(game', g, hand')
    <3>1. \A k \in 1..m : g[k] = After(IF k = 1 THEN hand' ELSE g[k - 1], game'[k])
      <4> SUFFICES ASSUME NEW k \in 1..m PROVE g[k] = After(IF k = 1 THEN hand' ELSE g[k - 1], game'[k])
        OBVIOUS
      <4>1. k + 1 # 1 /\ (k + 1) - 1 = k
        BY <2>2
      <4>2. h[k + 1] = After(h[k], game[k + 1])
        <5>1. h[k + 1] = After(IF k + 1 = 1 THEN hand ELSE h[(k + 1) - 1], game[k + 1])
          BY <1>1, <2>2, Zenon DEF Hands
        <5> QED BY <4>1, <5>1
      <4>3. k # 1 => k - 1 \in 1..m /\ (k - 1) + 1 = k
        BY <2>2
      <4>4. h[k] = IF k = 1 THEN hand' ELSE g[k - 1]
        BY <2>3, <2>4, <4>3
      <4> QED BY <2>2, <2>3, <4>2, <4>4
    <3>2. \A k \in 1..m : hand' <= g[k]
      <4> SUFFICES ASSUME NEW k \in 1..m PROVE hand' <= g[k]
        OBVIOUS
      <4>1. k + 1 \in 1..Len(game) /\ 1 <= k + 1
        BY <2>2
      <4>2. h[1] <= h[k + 1]
        BY <1>1, <2>4, <4>1, Zenon DEF Hands
      <4> QED BY <2>3, <2>4, <4>2
    <3>3. \A j, k \in 1..m : j <= k => g[j] <= g[k]
      <4> SUFFICES ASSUME NEW j \in 1..m, NEW k \in 1..m, j <= k PROVE g[j] <= g[k]
        OBVIOUS
      <4>1. j + 1 \in 1..Len(game) /\ k + 1 \in 1..Len(game) /\ j + 1 <= k + 1
        BY <2>2
      <4>2. h[j + 1] <= h[k + 1]
        BY <1>1, <4>1, Zenon DEF Hands
      <4> QED BY <2>3, <4>2
    <3> QED BY <2>3, <3>1, <3>2, <3>3 DEF Hands, m
  <2>6. \A i \in 1..Len(pending) : Ran(pending[i]) =>
          (pc' = "inject" /\ pending[i].hand = hand') \/ RolledIn(game', g, pending[i].hand)
    <3> SUFFICES ASSUME NEW i \in 1..Len(pending), Ran(pending[i])
                 PROVE  (pc' = "inject" /\ pending[i].hand = hand') \/ RolledIn(game', g, pending[i].hand)
      OBVIOUS
    <3>1. PICK k \in 1..Len(game) : game[k] = "roll" /\ h[k] = pending[i].hand
      BY <1>1, <2>1 DEF RolledIn
    <3>2. CASE k = 1
      BY <2>1, <2>2, <2>4, <3>1, <3>2
    <3>3. CASE k # 1
      <4>1. k - 1 \in 1..m /\ (k - 1) + 1 = k
        BY <2>2, <3>3
      <4>2. game'[k - 1] = "roll" /\ g[k - 1] = pending[i].hand
        BY <2>2, <2>3, <3>1, <4>1
      <4> QED BY <4>1, <4>2 DEF RolledIn, m
    <3> QED BY <3>2, <3>3
  <2> QED BY <2>1, <2>3, <2>5, <2>6 DEF ReplayGame, Ran, m
<1>6. ASSUME Ends PROVE ReplayGame'
  BY <1>2, <1>6 DEF Ends
<1> QED BY <1>0, <1>2, <1>3, <1>4, <1>5, <1>6, ReplaySteps
        DEF Takes, Refuses, Repeats, Injects, Settles, Starts, Rests

\* What waits and the lines that were injected for it.
LEMMA WaitingTyped ==
  ASSUME ReplayTyped
  PROVE  Waiting \in Seq(Tape!Queue!Payload) /\ Len(Waiting) \in Nat
BY LenProperties DEF Waiting, ReplayTyped

\* A line that was injected stays in the queue or the batch until it is written again.
LEMMA CountStep ==
  ASSUME ReplayTyped, mode = "replay", ReplayInv, [Tape!Next]_(Tape!vars)
  PROVE  CountInv'
<1>0. tape' = tape /\ ~\E r : Bounces(r)
  BY TapeKept
<1> SUFFICES ASSUME NEW c \in Cids
             PROVE  Cardinality(At(journal', c)) + Cardinality(At(Waiting', c)) = Cardinality(OfId(Injected', c))
  BY DEF CountInv
<1> DEFINE J == Cardinality(At(journal, c))
           W == Cardinality(At(Waiting, c))
           I == Cardinality(OfId(Injected, c))
<1>1. J + W = I /\ J \in Nat /\ W \in Nat /\ I \in Nat /\ IsFiniteSet(Injected)
  <2>1. J \in Nat /\ W \in Nat
    BY WaitingTyped, AtFinite DEF ReplayTyped
  <2>2. IsFiniteSet(Injected)
    BY FS_Subset DEF ReplayInv, TapeInv, Injected
  <2>3. IsFiniteSet(OfId(Injected, c))
    BY <2>2, FS_Subset DEF OfId
  <2> QED BY <2>1, <2>2, <2>3, FS_CardinalityType DEF ReplayInv, CountInv
<1>2. OrderInv
  BY DEF ReplayInv
<1>3. ASSUME UNCHANGED <<pending, journal>>, Waiting' = Waiting
      PROVE  Cardinality(At(journal', c)) + Cardinality(At(Waiting', c)) = Cardinality(OfId(Injected', c))
  <2>1. Injected' = Injected
    BY <1>0, <1>3 DEF Injected
  <2> QED BY <1>1, <1>3, <2>1
<1>4. CASE Repeats
  <2>1. Injecting /\ Logged(Queued(pending[1]), pending[1].reason) /\ Waiting' = Waiting
    BY <1>0, <1>4, Pops DEF Repeats, Waiting
  <2>2. /\ pending[1] \in Honest /\ pending[1] \notin Injected /\ Injected' = Injected \cup {pending[1]}
    BY <1>0, <2>1, Pops
  <2>3. Cardinality(At(journal', c)) = J + Is(pending[1], c)
    <3>1. Queued(pending[1]) \in Tape!Queue!Payload /\ Queued(pending[1]).cid = pending[1].cid
          /\ pending[1].reason \in Tape!Queue!Reasons \cup {"none"}
      BY <2>2, HonestIs, QueuedTyped
    <3>2. /\ Len(journal') = Len(journal) + 1 /\ \A i \in 1..Len(journal) : journal'[i] = journal[i]
          /\ journal'[Len(journal) + 1].cid = pending[1].cid
      BY <2>1, <3>1, Adds
    <3> QED BY <3>2, AtAppend DEF ReplayTyped
  <2>4. Cardinality(OfId(Injected', c)) = I + Is(pending[1], c)
    BY <1>1, <2>2, OfIdAdd
  <2> QED BY <1>1, <2>1, <2>3, <2>4 DEF Is
<1>5. CASE Injects
  <2>1. Injecting /\ q' = Append(q, Queued(pending[1])) /\ Waiting = q /\ Waiting' = q' /\ journal' = journal
    BY <1>0, <1>5, Pops DEF Injects, Injecting, Waiting
  <2>2. /\ pending[1] \in Honest /\ pending[1] \notin Injected /\ Injected' = Injected \cup {pending[1]}
    BY <1>0, <2>1, Pops
  <2>3. Cardinality(At(Waiting', c)) = W + Is(pending[1], c)
    <3>1. Queued(pending[1]) \in Tape!Queue!Payload /\ Queued(pending[1]).cid = pending[1].cid
      BY <2>2, HonestIs, QueuedTyped
    <3>2. /\ Len(q') = Len(q) + 1 /\ \A i \in 1..Len(q) : q'[i] = q[i]
          /\ q'[Len(q) + 1].cid = pending[1].cid
      BY <2>1, <3>1, Queues
    <3>3. q \in Seq(Tape!Queue!Payload)
      BY DEF ReplayTyped
    <3>4. Cardinality(At(q', c)) = Cardinality(At(q, c)) + Is(pending[1], c)
      BY <3>2, <3>3, AtAppend
    <3> QED BY <2>1, <3>4
  <2>4. Cardinality(OfId(Injected', c)) = I + Is(pending[1], c)
    BY <1>1, <2>2, OfIdAdd
  <2> QED BY <1>1, <2>1, <2>3, <2>4 DEF Is
<1>6. ASSUME NEW r \in Tape!Queue!OutcomeReasons \cup {"none"}, Settles(r)
      PROVE  Cardinality(At(journal', c)) + Cardinality(At(Waiting', c)) = Cardinality(OfId(Injected', c))
  <2>1. /\ batch # <<>> /\ Waiting = batch /\ Waiting' = Tail(batch) /\ Logged(Head(batch), r)
        /\ Injected' = Injected
    BY <1>0, <1>6 DEF Settles, Waiting, Injected
  <2>2. batch[1] = Head(batch) /\ Head(batch) \in Tape!Queue!Payload /\ r \in Tape!Queue!Reasons \cup {"none"}
    BY <2>1, Shifts, HeadTailProperties, AllReasons DEF ReplayTyped
  <2>3. Cardinality(At(journal', c)) = J + Is(batch[1], c)
    <3>1. /\ Len(journal') = Len(journal) + 1 /\ \A i \in 1..Len(journal) : journal'[i] = journal[i]
          /\ journal'[Len(journal) + 1].cid = batch[1].cid
      BY <2>1, <2>2, Adds
    <3> QED BY <3>1, AtAppend DEF ReplayTyped
  <2>4. W = Cardinality(At(Waiting', c)) + Is(batch[1], c)
    BY <2>1, AtTail DEF ReplayTyped
  <2>5. Cardinality(At(Waiting', c)) \in Nat
    <3>1. Tail(batch) \in Seq(Tape!Queue!Payload)
      BY <2>1, HeadTailProperties DEF ReplayTyped
    <3> QED BY <2>1, <3>1, AtFinite
  <2> QED BY <1>1, <2>1, <2>3, <2>4, <2>5 DEF Is
<1>7. ASSUME NEW event \in {"comeout", "roll"}, Plays(event)
      PROVE  Cardinality(At(journal', c)) + Cardinality(At(Waiting', c)) = Cardinality(OfId(Injected', c))
  <2>1. Waiting' = Waiting /\ UNCHANGED <<pending, journal>>
    BY <1>7 DEF Plays, Tape!Happens, Waiting
  <2> QED BY <1>3, <2>1
<1>8. CASE Drains
  <2>1. Waiting' = Waiting /\ UNCHANGED <<pending, journal>>
    BY <1>8 DEF Drains, Waiting
  <2> QED BY <1>3, <2>1
<1>9. CASE Ends
  <2>1. Waiting' = Waiting /\ UNCHANGED <<pending, journal>>
    BY <1>2, <1>9 DEF Ends, Waiting, OrderInv
  <2> QED BY <1>3, <2>1
<1>10. CASE Rests
  <2>1. Waiting' = Waiting /\ UNCHANGED <<pending, journal>>
    BY <1>10 DEF Rests, Waiting
  <2> QED BY <1>3, <2>1
<1> QED BY <1>0, <1>4, <1>5, <1>6, <1>7, <1>8, <1>9, <1>10, ReplaySteps
        DEF Takes, Refuses, Starts

\* There is one line for a command that was executed.
LEMMA OneLine ==
  ASSUME TapeInv, NEW x, NEW l \in tape, NEW m \in tape, Of(l, x), Of(m, x)
  PROVE  l = m
BY Zenon DEF TapeInv, Of

\* A command comes in its own hand, after those before it on the tape.
LEMMA OrderStep ==
  ASSUME ReplayTyped, mode = "replay", ReplayInv, [Tape!Next]_(Tape!vars)
  PROVE  OrderInv'
<1>0. /\ tape' = tape /\ ~\E r : Bounces(r)
      /\ OrderInv /\ TapeInv /\ Injected \subseteq tape
  BY TapeKept DEF ReplayInv, Injected
<1>9. Len(journal) \in Nat /\ Len(Waiting) \in Nat /\ Len(q) \in Nat /\ Len(batch) \in Nat
  BY LenProperties, WaitingTyped DEF ReplayTyped
<1>1. ASSUME UNCHANGED <<pending, journal>>, Waiting' = Waiting, hand' = hand \/ Waiting = <<>>,
             pc' # "settle" => batch' = <<>>, pc' # "inject" => q' = <<>>
      PROVE  OrderInv'
  <2>1. Injected' = Injected
    BY <1>0, <1>1 DEF Injected
  <2>2. \A i \in 1..Len(Waiting) : \E l \in Injected : Of(l, Waiting[i]) /\ l.hand = hand'
    <3>1. CASE hand' = hand
      BY <1>0, <3>1 DEF OrderInv
    <3>2. CASE Waiting = <<>>
      BY <3>2
    <3> QED BY <1>1, <3>1, <3>2
  <2> QED BY <1>0, <1>1, <2>1, <2>2 DEF OrderInv
<1>2. CASE Repeats
  <2>1. /\ Injecting /\ Logged(Queued(pending[1]), pending[1].reason) /\ ~Head(pending).executed
        /\ Waiting' = Waiting /\ UNCHANGED <<q, batch, hand, pc>>
    BY <1>0, <1>2, Pops DEF Repeats, Waiting
  <2>2. pending[1] \in Honest /\ pending[1] = Head(pending) /\ Injected \subseteq Injected'
    BY <1>0, <2>1, Pops
  <2>3. /\ Queued(pending[1]) \in Tape!Queue!Payload
        /\ pending[1].reason \in Tape!Queue!Reasons \cup {"none"} /\ pending[1].reason # "none"
    BY <2>1, <2>2, HonestIs, QueuedTyped DEF Ran
  <2>4. /\ Len(journal') = Len(journal) + 1 /\ \A i \in 1..Len(journal) : journal'[i] = journal[i]
        /\ ~Ran(journal'[Len(journal) + 1])
    BY <2>1, <2>3, Adds
  <2>5. \A i \in 1..Len(journal') : Ran(journal'[i]) => i \in 1..Len(journal) /\ journal'[i] = journal[i]
    BY <1>9, <2>4
  <2>6. \A i \in 1..Len(Waiting) : \E l \in Injected' : Of(l, Waiting[i]) /\ l.hand = hand
    BY <1>0, <2>2 DEF OrderInv
  <2>7. \A i \in 1..Len(journal') : Ran(journal'[i]) =>
          \E l \in Injected' : Of(l, journal'[i]) /\ l.hand = journal'[i].hand
    BY <1>0, <2>2, <2>5 DEF OrderInv
  <2>8. \A i, j \in 1..Len(journal'), l, m \in tape :
          i < j /\ Ran(journal'[i]) /\ Ran(journal'[j]) /\ Of(l, journal'[i]) /\ Of(m, journal'[j]) => l.seq < m.seq
    BY <1>0, <2>5 DEF OrderInv
  <2>9. \A i \in 1..Len(journal'), j \in 1..Len(Waiting), l, m \in tape :
          Ran(journal'[i]) /\ Of(l, journal'[i]) /\ Of(m, Waiting[j]) => l.seq < m.seq
    BY <1>0, <2>5 DEF OrderInv
  <2> QED BY <1>0, <2>1, <2>6, <2>7, <2>8, <2>9 DEF OrderInv
<1>3. CASE Injects
  <2> DEFINE a == pending[1]
  <2>1. /\ Injecting /\ q' = Append(q, Queued(a)) /\ Head(pending).executed
        /\ Waiting = q /\ Waiting' = q' /\ UNCHANGED <<journal, batch, hand, pc>>
    BY <1>0, <1>3, Pops DEF Injects, Injecting, Waiting
  <2>2. /\ a \in Honest /\ a \in tape /\ a \notin Injected /\ Injected' = Injected \cup {a}
        /\ a = Head(pending) /\ \A m \in Injected : m.seq < a.seq
    BY <1>0, <2>1, Pops
  <2>3. Ran(a) /\ a.hand \in Nat
    BY <2>1, <2>2, HonestIs
  <2>4. a.hand = hand
    <3>1. a.hand <= hand /\ 1 \in 1..Len(pending)
      BY <2>1, Shifts DEF Injecting, Tape!Due, ReplayTyped
    <3>2. hand <= a.hand
      <4>1. PICK h \in [1..Len(game) -> Nat] :
              Hands(game, h, hand) /\ (a.hand = hand \/ RolledIn(game, h, a.hand))
        BY <2>3, <3>1 DEF ReplayInv, ReplayGame
      <4>2. hand \in Nat
        BY DEF ReplayTyped
      <4> QED BY <4>1, <4>2 DEF Hands, RolledIn
    <3> QED BY <2>3, <3>1, <3>2 DEF ReplayTyped
  <2>5. /\ Len(q') = Len(q) + 1 /\ \A i \in 1..Len(q) : q'[i] = q[i]
        /\ q'[Len(q) + 1].cid = a.cid
    <3>1. Queued(a) \in Tape!Queue!Payload /\ Queued(a).cid = a.cid
      BY <2>2, HonestIs, QueuedTyped
    <3> QED BY <2>1, <3>1, Queues
  <2>6. \A i \in 1..Len(q') : i \in 1..Len(q) \/ i = Len(q) + 1
    BY <1>9, <2>5
  <2>7. /\ Of(a, q'[Len(q) + 1])
        /\ \A m \in tape : Of(m, q'[Len(q) + 1]) => m = a
    <3>1. Of(a, q'[Len(q) + 1])
      BY <2>3, <2>5 DEF Of
    <3> QED BY <1>0, <2>2, <3>1, OneLine
  <2> HIDE DEF a
  <2>8. \A i \in 1..Len(q') : \E l \in Injected' : Of(l, q'[i]) /\ l.hand = hand
    BY <1>0, <2>1, <2>2, <2>4, <2>5, <2>6, <2>7 DEF OrderInv
  <2>9. \A i, j \in 1..Len(q'), l, m \in tape :
          i < j /\ Of(l, q'[i]) /\ Of(m, q'[j]) => l.seq < m.seq
    <3> SUFFICES ASSUME NEW i \in 1..Len(q'), NEW j \in 1..Len(q'), NEW l \in tape, NEW m \in tape,
                        i < j, Of(l, q'[i]), Of(m, q'[j])
                 PROVE  l.seq < m.seq
      OBVIOUS
    <3>1. i \in 1..Len(q) /\ q'[i] = q[i]
      BY <1>9, <2>5
    <3>2. CASE j = Len(q) + 1
      <4>1. l \in Injected
        <5>1. PICK k \in Injected : Of(k, q[i])
          BY <1>0, <2>1, <3>1 DEF OrderInv
        <5> QED BY <1>0, <3>1, <5>1, OneLine
      <4> QED BY <2>2, <2>7, <3>2, <4>1
    <3>3. CASE j \in 1..Len(q)
      <4>1. q'[j] = q[j]
        BY <2>5, <3>3
      <4> QED BY <1>0, <2>1, <3>1, <3>3, <4>1, Zenon DEF OrderInv
    <3> QED BY <2>6, <3>2, <3>3
  <2>10. \A i \in 1..Len(journal) : Ran(journal[i]) =>
           \E l \in Injected' : Of(l, journal[i]) /\ l.hand = journal[i].hand
    BY <1>0, <2>2 DEF OrderInv
  <2>11. \A i \in 1..Len(journal), j \in 1..Len(q'), l, m \in tape :
           Ran(journal[i]) /\ Of(l, journal[i]) /\ Of(m, q'[j]) => l.seq < m.seq
    <3> SUFFICES ASSUME NEW i \in 1..Len(journal), NEW j \in 1..Len(q'), NEW l \in tape, NEW m \in tape,
                        Ran(journal[i]), Of(l, journal[i]), Of(m, q'[j])
                 PROVE  l.seq < m.seq
      OBVIOUS
    <3>1. CASE j = Len(q) + 1
      <4>1. l \in Injected
        <5>1. PICK k \in Injected : Of(k, journal[i])
          BY <1>0 DEF OrderInv
        <5> QED BY <1>0, <5>1, OneLine
      <4> QED BY <2>2, <2>7, <3>1, <4>1
    <3>2. CASE j \in 1..Len(q)
      <4>1. q'[j] = q[j]
        BY <2>5, <3>2
      <4> QED BY <1>0, <2>1, <3>2, <4>1, Zenon DEF OrderInv
    <3> QED BY <2>6, <3>1, <3>2
  <2>12. pc' = "inject" /\ batch' = <<>>
    BY <1>0, <2>1 DEF OrderInv, Injecting
  <2> QED BY <1>0, <2>1, <2>8, <2>9, <2>10, <2>11, <2>12 DEF OrderInv
<1>4. ASSUME NEW r \in Tape!Queue!OutcomeReasons \cup {"none"}, Settles(r) PROVE OrderInv'
  <2> DEFINE n == Len(journal)
             L == journal'[n + 1]
  <2>1. /\ batch # <<>> /\ batch' = Tail(batch) /\ Logged(Head(batch), r) /\ pc = "settle"
        /\ Waiting = batch /\ Waiting' = batch' /\ Injected' = Injected /\ UNCHANGED <<q, hand, pc>>
    BY <1>0, <1>4 DEF Settles, Waiting, Injected
  <2>2. /\ batch[1] = Head(batch) /\ Head(batch) \in Tape!Queue!Payload /\ r \in Tape!Queue!Reasons \cup {"none"}
        /\ 1 \in 1..Len(batch)
        /\ \A i \in 1..Len(batch') : batch'[i] = batch[i + 1] /\ i + 1 \in 1..Len(batch) /\ 1 < i + 1
    BY <2>1, Shifts, HeadTailProperties, AllReasons DEF ReplayTyped
  <2>3. /\ Len(journal') = n + 1 /\ \A i \in 1..n : journal'[i] = journal[i]
        /\ L.cid = batch[1].cid /\ L.hand = hand
    BY <2>1, <2>2, Adds
  <2>4. \A i \in 1..Len(journal') : (i \in 1..n /\ journal'[i] = journal[i]) \/ (i = n + 1 /\ journal'[i] = L)
    BY <1>9, <2>3
  <2>5. \A l : Of(l, L) <=> Of(l, batch[1])
    BY <2>3 DEF Of
  <2> HIDE DEF n, L
  <2>6. \A i \in 1..Len(batch') : \E l \in Injected : Of(l, batch'[i]) /\ l.hand = hand
    BY <1>0, <2>1, <2>2 DEF OrderInv
  <2>7. \A i, j \in 1..Len(batch'), l, m \in tape :
          i < j /\ Of(l, batch'[i]) /\ Of(m, batch'[j]) => l.seq < m.seq
    <3> SUFFICES ASSUME NEW i \in 1..Len(batch'), NEW j \in 1..Len(batch'), NEW l \in tape, NEW m \in tape,
                        i < j, Of(l, batch'[i]), Of(m, batch'[j])
                 PROVE  l.seq < m.seq
      OBVIOUS
    <3>1. /\ i + 1 \in 1..Len(batch) /\ j + 1 \in 1..Len(batch) /\ i + 1 < j + 1
          /\ Of(l, batch[i + 1]) /\ Of(m, batch[j + 1])
      BY <2>2
    <3> QED BY <1>0, <2>1, <3>1, Zenon DEF OrderInv
  <2>8. \A i \in 1..Len(journal') : Ran(journal'[i]) =>
          \E l \in Injected : Of(l, journal'[i]) /\ l.hand = journal'[i].hand
    <3>1. \E l \in Injected : Of(l, L) /\ l.hand = L.hand
      BY <1>0, <2>1, <2>2, <2>3, <2>5 DEF OrderInv
    <3>2. \A i \in 1..n : Ran(journal[i]) => \E l \in Injected : Of(l, journal[i]) /\ l.hand = journal[i].hand
      BY <1>0 DEF OrderInv, n
    <3> QED BY <2>4, <3>1, <3>2
  <2>9. \A i, j \in 1..Len(journal'), l, m \in tape :
          i < j /\ Ran(journal'[i]) /\ Ran(journal'[j]) /\ Of(l, journal'[i]) /\ Of(m, journal'[j]) => l.seq < m.seq
    <3> SUFFICES ASSUME NEW i \in 1..Len(journal'), NEW j \in 1..Len(journal'), NEW l \in tape, NEW m \in tape,
                        i < j, Ran(journal'[i]), Ran(journal'[j]), Of(l, journal'[i]), Of(m, journal'[j])
                 PROVE  l.seq < m.seq
      OBVIOUS
    <3>1. i \in 1..n /\ journal'[i] = journal[i]
      BY <1>9, <2>3 DEF n
    <3>2. CASE journal'[j] = L
      <4>1. Of(m, batch[1])
        BY <2>5, <3>2
      <4> QED BY <1>0, <2>1, <2>2, <3>1, <4>1, Zenon DEF OrderInv, n
    <3>3. CASE j \in 1..n /\ journal'[j] = journal[j]
      BY <1>0, <3>1, <3>3, Zenon DEF OrderInv, n
    <3> QED BY <2>4, <3>2, <3>3
  <2>10. \A i \in 1..Len(journal'), j \in 1..Len(batch'), l, m \in tape :
           Ran(journal'[i]) /\ Of(l, journal'[i]) /\ Of(m, batch'[j]) => l.seq < m.seq
    <3> SUFFICES ASSUME NEW i \in 1..Len(journal'), NEW j \in 1..Len(batch'), NEW l \in tape, NEW m \in tape,
                        Ran(journal'[i]), Of(l, journal'[i]), Of(m, batch'[j])
                 PROVE  l.seq < m.seq
      OBVIOUS
    <3>1. j + 1 \in 1..Len(batch) /\ 1 < j + 1 /\ Of(m, batch[j + 1])
      BY <2>2
    <3>2. CASE journal'[i] = L
      <4>1. Of(l, batch[1])
        BY <2>5, <3>2
      <4> QED BY <1>0, <2>1, <2>2, <3>1, <4>1, Zenon DEF OrderInv
    <3>3. CASE i \in 1..n /\ journal'[i] = journal[i]
      BY <1>0, <2>1, <3>1, <3>3, Zenon DEF OrderInv, n
    <3> QED BY <2>4, <3>2, <3>3
  <2> QED BY <1>0, <2>1, <2>6, <2>7, <2>8, <2>9, <2>10 DEF OrderInv
<1>5. ASSUME NEW event \in {"comeout", "roll"}, Plays(event) PROVE OrderInv'
  <2>1. /\ Waiting = <<>> /\ Waiting' = <<>> /\ UNCHANGED <<pending, journal, batch, q>>
        /\ pc' # "settle" /\ batch = <<>> /\ q = <<>>
    BY <1>0, <1>5 DEF Plays, Tape!Happens, Waiting, OrderInv
  <2> QED BY <1>1, <2>1
<1>6. CASE Drains
  BY <1>1, <1>6 DEF Drains, Waiting
<1>7. CASE Ends
  <2>1. Waiting' = Waiting /\ q = <<>>
    BY <1>0, <1>7 DEF Ends, Waiting, OrderInv
  <2> QED BY <1>1, <1>7, <2>1 DEF Ends
<1>8. CASE Rests
  BY <1>0, <1>1, <1>8 DEF Rests, Waiting, OrderInv
<1> QED BY <1>0, <1>2, <1>3, <1>4, <1>5, <1>6, <1>7, <1>8, ReplaySteps
        DEF Takes, Refuses, Starts

---------------------------------------------------------------------------
(* The two runs together. *)

RunsInv == ReplayTyped /\ (mode = "live" => LiveInv) /\ (mode = "replay" => ReplayInv)

\* The two runs begin with their invariant.
LEMMA RunsStart == Tape!Init => RunsInv
<1> SUFFICES ASSUME Tape!Init PROVE RunsInv
  OBVIOUS
<1>1. /\ mode = "live" /\ pc = "table" /\ hand = 0 /\ batch = <<>> /\ journal = <<>>
      /\ tape = {} /\ pending = <<>> /\ game = <<>> /\ q = <<>> /\ seen = {}
  BY Zenon DEF Tape!Init, Tape!Queue!Init
<1>2. ReplayTyped
  BY <1>1, EmptySeq DEF ReplayTyped
<1>3. Len(<<>>) = 0 /\ 1..0 = {}
  OBVIOUS
<1>4. LiveLines
  BY <1>1, <1>3 DEF LiveLines
<1>5. LiveOnce
  BY <1>1, <1>3 DEF LiveOnce, Single
<1>6. LiveGame
  <2> DEFINE h == [k \in {} |-> 0]
  <2>1. h \in [1..Len(game) -> Nat] /\ 1..Len(game) = {}
    BY <1>1, <1>3
  <2>2. Hands(game, h, 0)
    BY <2>1 DEF Hands
  <2> HIDE DEF h
  <2>3. Len(game) = 0 /\ hand = 0 /\ pc = "table" /\ \A i \in 1..Len(journal) : FALSE
    BY <1>1, <1>3
  <2> QED BY <2>1, <2>2, <2>3, Zenon DEF LiveGame
<1> QED BY <1>1, <1>2, <1>4, <1>5, <1>6 DEF RunsInv, LiveInv

\* A step of either run, or from the one to the other, keeps it.
LEMMA RunsStep == RunsInv /\ [Tape!Next]_(Tape!vars) => RunsInv'
<1> SUFFICES ASSUME RunsInv, [Tape!Next]_(Tape!vars) PROVE RunsInv'
  OBVIOUS
<1>1. ReplayTyped /\ mode \in {"live", "replay"}
  BY DEF RunsInv, ReplayTyped
<1>2. ReplayTyped'
  BY <1>1, ReplayTypedStep DEF RunsInv, LiveInv
<1>3. CASE mode = "replay"
  <2>1. mode' = "replay" /\ TapeInv'
    BY <1>1, <1>3, TapeKept DEF RunsInv
  <2>2. PendingInv' /\ OrderInv' /\ ReplayGame' /\ CountInv'
    BY <1>1, <1>3, PendingStep, OrderStep, ReplayGameStep, CountStep DEF RunsInv
  <2> QED BY <1>2, <2>1, <2>2 DEF RunsInv, ReplayInv
<1>4. CASE mode = "live"
  <2>1. CASE mode' = "live"
    <3>1. LiveLines' /\ LiveOnce' /\ LiveGame'
      BY <1>1, <1>4, <2>1, LiveLinesStep, LiveOnceStep, LiveGameStep DEF RunsInv, LiveInv
    <3> QED BY <1>2, <2>1, <3>1 DEF RunsInv, LiveInv
  <2>2. CASE mode' # "live"
    <3>1. Starts
      <4>1. ~Injecting
        BY <1>4 DEF RunsInv, LiveInv, LiveLines, Injecting, Tape!Due
      <4> QED BY <1>4, <2>2, <4>1, ReplaySteps
              DEF Takes, Refuses, Plays, Repeats, Injects, Bounces, Drains, Settles, Ends, Rests
    <3>2. ReplayInv' /\ mode' = "replay"
      BY <1>1, <1>4, <3>1, StartsRight DEF RunsInv, Starts
    <3> QED BY <1>2, <3>2 DEF RunsInv
  <2> QED BY <2>1, <2>2
<1> QED BY <1>1, <1>3, <1>4

\* It holds throughout.
LEMMA RunsKept == Tape!Spec => []RunsInv
BY RunsStart, RunsStep, PTL DEF Tape!Spec

\* Lines that have a command executed.
LEMMA DoneRan ==
  ASSUME ReplayTyped
  PROVE  /\ Done = {i \in 1..Len(journal) : Ran(journal[i])}
         /\ \A l \in tape : l.executed <=> Ran(l)
<1>1. DOMAIN journal = 1..Len(journal) /\ \A i \in 1..Len(journal) : journal[i] \in Honest
  BY LenProperties, ElementOfSeq DEF ReplayTyped
<1>2. \A i \in 1..Len(journal) : journal[i].executed <=> Ran(journal[i])
  BY <1>1, HonestIs
<1>3. \A l \in tape : l.executed <=> Ran(l)
  BY HonestIs DEF ReplayTyped
<1> QED BY <1>1, <1>2, <1>3, Zenon DEF Done

\* The replay executes only what the live run executed, in its hand and in the live
\* order, whatever the limits, the tape and the game (`_inject_replay_commands`).
THEOREM ReplayKeepsOrder == Tape!Spec => []OrderKept
<1>1. RunsInv => OrderKept
  <2> SUFFICES ASSUME RunsInv, mode = "replay" PROVE OrderKept
    BY DEF OrderKept
  <2>1. ReplayTyped /\ OrderInv /\ TapeInv /\ Injected \subseteq tape
    BY DEF RunsInv, ReplayInv, Injected
  <2>2. /\ \A i \in Done : i \in 1..Len(journal) /\ Ran(journal[i])
        /\ \A l \in tape : l.executed <=> Ran(l)
    BY <2>1, DoneRan
  <2> DEFINE E == {l \in tape : l.executed}
             f == [i \in Done |-> CHOOSE l \in E : Of(l, journal[i]) /\ l.hand = journal[i].hand]
  <2>3. \A i \in Done : f[i] \in E /\ Of(f[i], journal[i]) /\ f[i].hand = journal[i].hand
    <3> SUFFICES ASSUME NEW i \in Done
                 PROVE  \E l \in E : Of(l, journal[i]) /\ l.hand = journal[i].hand
      OBVIOUS
    <3>1. PICK l \in Injected : Of(l, journal[i]) /\ l.hand = journal[i].hand
      BY <2>1, <2>2 DEF OrderInv
    <3>2. l \in E
      BY <2>1, <2>2, <3>1 DEF Of
    <3> QED BY <3>1, <3>2
  <2>4. f \in [Done -> E]
    BY <2>3
  <2> HIDE DEF f
  <2>5. \A i, j \in Done : j < i => f[j].seq < f[i].seq
    BY <2>1, <2>2, <2>3 DEF OrderInv
  <2>6. \A i \in Done : journal[i].cid = f[i].cid /\ journal[i].hand = f[i].hand
    BY <2>3 DEF Of
  <2> QED BY <2>4, <2>5, <2>6 DEF OrderKept
<1> QED BY <1>1, RunsKept, PTL

\* What the live queue let pass is let pass again, and between two events each line
\* that was injected has been written again, once (`_csc_replay`).
THEOREM ReplayLeavesNothingOut == Tape!Spec => []NoneLeftOut
<1>1. RunsInv => NoneLeftOut
  <2> SUFFICES ASSUME RunsInv, mode = "replay" PROVE NoneLeftOut
    BY DEF NoneLeftOut
  <2>1. ReplayTyped /\ ReplayInv /\ Injected \subseteq tape
    BY DEF RunsInv, Injected
  <2>2. \A l \in Injected : l.executed => l.cid \in seen
    BY <2>1, DoneRan DEF ReplayInv, PendingInv
  <2>3. ASSUME pc = "table", NEW cid \in Cids
        PROVE  Cardinality({i \in DOMAIN journal : journal[i].cid = cid})
                 = Cardinality({l \in Injected : l.cid = cid})
    <3>1. Waiting = <<>>
      BY <2>1, <2>3 DEF ReplayInv, OrderInv, Waiting
    <3>2. At(Waiting, cid) = {} /\ Cardinality({}) = 0
      BY <3>1, FS_EmptySet DEF At
    <3>3. Cardinality(At(journal, cid)) \in Nat
      BY <2>1, AtFinite DEF ReplayTyped
    <3>4. Cardinality(At(journal, cid)) = Cardinality(OfId(Injected, cid))
      BY <2>1, <3>2, <3>3 DEF ReplayInv, CountInv
    <3>5. DOMAIN journal = 1..Len(journal)
      BY <2>1, LenProperties DEF ReplayTyped
    <3> QED BY <3>4, <3>5, Zenon DEF At, OfId
  <2> QED BY <2>2, <2>3 DEF NoneLeftOut
<1> QED BY <1>1, RunsKept, PTL
=============================================================================
