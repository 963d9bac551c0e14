------------------------- MODULE RunArtifactsProofs -------------------------
(***************************************************************************)
(* Types of the run directories; that a client who has read the result of  *)
(* a finished run has read the result; that a run which returned 0 left    *)
(* its result; and that a journal is its run's own: for any number of      *)
(* processes and directories.                                              *)
(***************************************************************************)
EXTENDS RunListing, FiniteSetTheorems, TLAPS

\* What a step does to the state of its process: it keeps the summary once the
\* table was played, and holds an "ok" one only if it was.
Advances(old, new) ==
  /\ old.at \notin BeforePlay => new.at \notin BeforePlay /\ new.summary = old.summary
  /\ HoldsOk(new) => new.summary = "ok"
  /\ new.summary = "ok" => new.played # "no"

\* What it may do to the summaries: replace one by what the process holds.
Tells(p) ==
  \A d \in Dirs :
    \/ art'[d].summary = art[d].summary
    \/ /\ art'[d].summary = [by |-> p, says |-> Told(proc[p])]
       /\ proc[p].at \notin BeforePlay

StepOf(p) ==
  /\ \E s \in States : /\ proc' = [proc EXCEPT ![p] = s] /\ Advances(proc[p], s)
                       /\ s.at # "new" => s.dir \in Dirs
  /\ art' \in [Dirs -> Contents]
  /\ Tells(p)
  /\ exported' \in Exports
  /\ upsets' \in 0..MaxUpsets
  /\ met' \subseteq Procs

IInv == TypeOK /\ SummariesTold

LEMMA UpsetTyped == ASSUME upsets \in 0..MaxUpsets, Upset PROVE upsets' \in 0..MaxUpsets
  BY ArtifactConstants DEF Upset, ArtifactConstants

LEMMA FinallyTyped ==
  ASSUME NEW s \in States
  PROVE  /\ Finally(s) \in States
         /\ Finally(s).at = "summary" /\ Finally(s).round = "last"
         /\ Finally(s).summary = s.summary /\ Finally(s).played = s.played
         /\ Finally(s).dir = s.dir
  BY DEF Finally, States, Emitting

LEMMA AtTyped ==
  ASSUME NEW s \in States,
         NEW a \in BeforePlay \cup AfterPlay \cup Emitting \cup {"repair", "missing", "close", "done", "dead"}
  PROVE  LET t == [s EXCEPT !.at = a]
         IN  /\ t \in States /\ t.at = a /\ t.round = s.round
             /\ t.summary = s.summary /\ t.played = s.played /\ t.dir = s.dir
  BY DEF States

LEMMA ReadyTyped ==
  ASSUME NEW s \in States, NEW d \in Dirs
  PROVE  LET ready == [s EXCEPT !.at = "prepared", !.dir = d]
         IN  /\ ready \in States /\ ready.at = "prepared" /\ ready.dir = d
             /\ ready.summary = s.summary /\ ready.played = s.played
  BY DEF States, BeforePlay

LEMMA CodeTyped ==
  ASSUME NEW s \in States, NEW c \in {"none", "0", "1", "2", "raised"}
  PROVE  LET t == [s EXCEPT !.code = c]
         IN  /\ t \in States /\ t.at = s.at /\ t.round = s.round /\ t.dir = s.dir
             /\ t.summary = s.summary /\ t.played = s.played
  BY DEF States

LEMMA SoftTyped ==
  ASSUME NEW s \in States
  PROVE  LET t == [s EXCEPT !.code = "0", !.summary = "engine_unavailable", !.manifest = TRUE]
         IN  t \in States /\ t.dir = s.dir /\ t.summary = "engine_unavailable"
  BY DEF States

LEMMA SummedTyped ==
  ASSUME NEW s \in States, NEW played \in {"asked", "more"}
  PROVE  LET t == Summed(s, played)
         IN  /\ t \in States /\ t.at = "played" /\ t.dir = s.dir
             /\ t.summary = "ok" /\ t.played # "no"
  BY DEF States, Summed, AfterPlay

LEMMA BegunTyped ==
  ASSUME NEW s \in States, NEW j \in BOOLEAN, NEW trace \in Traces
  PROVE  /\ Begun(s, j, trace) \in States /\ Begun(s, j, trace).at = "summary"
         /\ Begun(s, j, trace).dir = s.dir /\ Begun(s, j, trace).summary = s.summary
         /\ Begun(s, j, trace).played = s.played
  BY ZenonT(60) DEF Begun, States, Emitting, Traces

LEMMA RepairedTyped ==
  ASSUME NEW s \in States
  PROVE  LET t == [s EXCEPT !.at = "missing", !.manifest = TRUE]
         IN  /\ t \in States /\ t.at = "missing" /\ t.dir = s.dir
             /\ t.summary = s.summary /\ t.played = s.played
  BY DEF States

LEMMA ClosedTyped ==
  ASSUME NEW s \in States
  PROVE  LET t == [s EXCEPT !.at = "done", !.trace = "off"]
         IN  /\ t \in States /\ t.at = "done" /\ t.dir = s.dir
             /\ t.summary = s.summary /\ t.played = s.played
  BY DEF States, Traces

LEMMA StoppedTyped ==
  ASSUME NEW s \in States
  PROVE  LET t == [s EXCEPT !.at = "close", !.code = "raised"]
         IN  /\ t \in States /\ t.at = "close" /\ t.dir = s.dir
             /\ t.summary = s.summary /\ t.played = s.played
  BY DEF States

LEMMA RaisedTyped ==
  ASSUME NEW s \in States
  PROVE  LET t == Raised(s)
         IN  /\ t \in States /\ t.dir = s.dir
             /\ t.summary = s.summary /\ t.played = s.played
             /\ \/ s.round # "last" /\ t.at \in {"summary", "missing"}
                \/ t.at = "close"
<1>1. CASE s.round = "first"
  BY <1>1 DEF Raised, States, Emitting
<1>2. CASE s.round = "retry"
  BY <1>2 DEF Raised, States, Emitting
<1>3. CASE s.round = "last"
  BY <1>3 DEF Raised, States, Emitting
<1> QED BY <1>1, <1>2, <1>3 DEF States

LEMMA EmittedTyped ==
  ASSUME NEW s \in States
  PROVE  LET t == Emitted(s)
         IN  /\ t \in States /\ t.dir = s.dir
             /\ t.summary = s.summary /\ t.played = s.played
             /\ \/ s.round # "last" /\ t.at = "repair"
                \/ t.at = "close"
  BY DEF Emitted, States

LEMMA DecisionsTyped ==
  ASSUME NEW d \in Dirs, NEW v \in {"none", "empty", "rowed"}, art \in [Dirs -> Contents],
         art' = [art EXCEPT ![d].decisions = v]
  PROVE  art' \in [Dirs -> Contents] /\ \A e \in Dirs : art'[e].summary = art[e].summary
<1>1. [art[d] EXCEPT !.decisions = v] \in Contents
  BY DEF Contents
<1>2. [art[d] EXCEPT !.decisions = v].summary = art[d].summary
  BY DEF Contents
<1> QED BY <1>1, <1>2

LEMMA PrepareStep ==
  ASSUME NEW p \in Procs, IInv, Prepare(p) PROVE StepOf(p)
<1> USE DEF IInv, TypeOK
<1>1. met' \subseteq Procs /\ exported' = exported
  BY DEF Prepare, Working
<1>2. PICK d \in Ids : TakeDir(p, d)
  BY DEF Prepare
<1>3. d \in Dirs
  BY ArtifactConstants DEF ArtifactConstants
<1> DEFINE ready == [proc[p] EXCEPT !.at = "prepared", !.dir = d]
<1>4. /\ ready \in States /\ ready.at = "prepared" /\ ready.dir = d
      /\ ready.summary = proc[p].summary /\ ready.played = proc[p].played
  BY <1>3, ReadyTyped
<1>5. proc[p].at = "new" /\ (proc[p].summary = "ok" => proc[p].played # "no")
  BY DEF Prepare, SummariesTold
<1> HIDE DEF ready
<1>6. CASE Go(p, ready) /\ UNCHANGED <<art, upsets>>
  BY <1>1, <1>3, <1>4, <1>5, <1>6
     DEF StepOf, Go, Advances, Tells, HoldsOk, BeforePlay, AfterPlay, Emitting
<1>7. CASE /\ Go(p, [ready EXCEPT !.trace = "empty"])
           /\ art' = [art EXCEPT ![d].decisions = "empty"] /\ UNCHANGED upsets
  <2> DEFINE s == [ready EXCEPT !.trace = "empty"]
  <2>1. s \in States /\ s.at = "prepared" /\ s.dir = d
        /\ s.summary = proc[p].summary /\ s.played = proc[p].played
    BY <1>4 DEF States, Traces
  <2>2. art' \in [Dirs -> Contents] /\ \A e \in Dirs : art'[e].summary = art[e].summary
    BY <1>3, <1>7, DecisionsTyped
  <2> HIDE DEF s
  <2>3. proc' = [proc EXCEPT ![p] = s]
    BY <1>7 DEF Go, s
  <2> QED BY <1>1, <1>3, <1>5, <1>7, <2>1, <2>2, <2>3
     DEF StepOf, Advances, Tells, HoldsOk, BeforePlay, AfterPlay, Emitting
<1>8. CASE /\ Upset /\ Go(p, [ready EXCEPT !.at = "done", !.code = "raised"])
           /\ UNCHANGED art
  <2> DEFINE s == [ready EXCEPT !.at = "done", !.code = "raised"]
  <2>1. s \in States /\ s.at = "done" /\ s.dir = d
        /\ s.summary = proc[p].summary /\ s.played = proc[p].played
    BY <1>4 DEF States
  <2> HIDE DEF s
  <2>2. proc' = [proc EXCEPT ![p] = s]
    BY <1>8 DEF Go, s
  <2> QED BY <1>1, <1>3, <1>5, <1>8, <2>1, <2>2, UpsetTyped
     DEF StepOf, Advances, Tells, HoldsOk, BeforePlay, AfterPlay, Emitting
<1> QED BY <1>2, <1>6, <1>7, <1>8 DEF TakeDir, ready

\* The steps that only change the state of their process, and nothing that is
\* counted: what is left to show is that the new state is an advance.
LEMMA OwnStep ==
  ASSUME NEW p \in Procs, IInv, NEW s \in States, Go(p, s), Advances(proc[p], s),
         s.dir = proc[p].dir, proc[p].at # "new", UNCHANGED <<art, exported, met>>,
         upsets' \in 0..MaxUpsets
  PROVE  StepOf(p)
  BY DEF StepOf, Go, IInv, TypeOK, Tells

\* An early exit, with whatever the process holds by then.
LEMMA FinallyStep ==
  ASSUME NEW p \in Procs, IInv, NEW s \in States, Go(p, Finally(s)),
         s.dir = proc[p].dir, proc[p].at # "new", UNCHANGED <<art, exported, met>>,
         upsets' \in 0..MaxUpsets,
         s.summary = "ok" => s.played # "no",
         proc[p].at \notin BeforePlay => s.summary = proc[p].summary
  PROVE  StepOf(p)
<1>1. Advances(proc[p], Finally(s))
  BY FinallyTyped DEF Advances, HoldsOk, BeforePlay, AfterPlay, Emitting
<1> QED BY <1>1, FinallyTyped, OwnStep

LEMMA ValidateStep ==
  ASSUME NEW p \in Procs, IInv, Validate(p) PROVE StepOf(p)
<1>1. /\ proc[p] \in States /\ proc[p].at = "prepared"
      /\ proc[p].summary = "ok" => proc[p].played # "no"
      /\ UNCHANGED <<art, exported, met>> /\ upsets' \in 0..MaxUpsets
  BY DEF IInv, TypeOK, SummariesTold, Validate
<1>2. CASE Go(p, [proc[p] EXCEPT !.at = "valid"])
  <2> DEFINE s == [proc[p] EXCEPT !.at = "valid"]
  <2>1. /\ s \in States /\ s.at = "valid" /\ s.dir = proc[p].dir
        /\ s.summary = proc[p].summary /\ s.played = proc[p].played
    BY <1>1, AtTyped DEF BeforePlay
  <2> HIDE DEF s
  <2>2. Advances(proc[p], s)
    BY <1>1, <2>1 DEF Advances, HoldsOk, BeforePlay, AfterPlay, Emitting
  <2>3. Go(p, s)
    BY <1>2 DEF s
  <2> QED BY <1>1, <2>1, <2>2, <2>3, OwnStep
<1>3. ASSUME NEW code \in {"1", "raised"}, Go(p, Finally([proc[p] EXCEPT !.code = code]))
      PROVE  StepOf(p)
  <2> DEFINE s == [proc[p] EXCEPT !.code = code]
  <2>1. /\ s \in States /\ s.dir = proc[p].dir
        /\ s.summary = proc[p].summary /\ s.played = proc[p].played
    <3>1. code \in {"none", "0", "1", "2", "raised"}
      BY <1>3
    <3> QED BY <1>1, <3>1, CodeTyped
  <2> HIDE DEF s
  <2>2. Go(p, Finally(s))
    BY <1>3 DEF s
  <2> QED BY <1>1, <2>1, <2>2, FinallyStep
<1> QED BY <1>2, <1>3 DEF Validate

LEMMA AttachStep ==
  ASSUME NEW p \in Procs, IInv, Attach(p) PROVE StepOf(p)
<1>1. /\ proc[p] \in States /\ proc[p].at = "valid"
      /\ proc[p].summary = "ok" => proc[p].played # "no"
      /\ UNCHANGED <<art, exported, met>> /\ upsets' \in 0..MaxUpsets
  BY DEF IInv, TypeOK, SummariesTold, Attach
<1>2. CASE Go(p, [proc[p] EXCEPT !.at = "attached"])
  <2> DEFINE s == [proc[p] EXCEPT !.at = "attached"]
  <2>1. /\ s \in States /\ s.at = "attached" /\ s.dir = proc[p].dir
        /\ s.summary = proc[p].summary /\ s.played = proc[p].played
    BY <1>1, AtTyped DEF BeforePlay
  <2> HIDE DEF s
  <2>2. Advances(proc[p], s)
    BY <1>1, <2>1 DEF Advances, HoldsOk, BeforePlay, AfterPlay, Emitting
  <2>3. Go(p, s)
    BY <1>2 DEF s
  <2> QED BY <1>1, <2>1, <2>2, <2>3, OwnStep
<1>3. CASE Go(p, Finally([proc[p] EXCEPT !.code = "2"]))
  BY <1>1, <1>3, CodeTyped, FinallyStep, ZenonT(60)
<1>4. CASE Go(p, Finally([proc[p] EXCEPT !.code = "0", !.summary = "engine_unavailable",
                                         !.manifest = TRUE]))
  <2> DEFINE s == [proc[p] EXCEPT !.code = "0", !.summary = "engine_unavailable", !.manifest = TRUE]
  <2>1. s \in States /\ s.dir = proc[p].dir /\ s.summary = "engine_unavailable"
    BY <1>1, SoftTyped
  <2> HIDE DEF s
  <2>2. Go(p, Finally(s))
    BY <1>4 DEF s
  <2> QED BY <1>1, <2>1, <2>2, FinallyStep DEF BeforePlay
<1> QED BY <1>2, <1>3, <1>4 DEF Attach

LEMMA RollsStep ==
  ASSUME NEW p \in Procs, IInv, RunTableRolls(p) PROVE StepOf(p)
<1>1. /\ proc[p] \in States /\ proc[p].at = "attached"
      /\ proc[p].summary = "ok" => proc[p].played # "no"
      /\ UNCHANGED <<art, exported, met>> /\ upsets' \in 0..MaxUpsets
  BY DEF IInv, TypeOK, SummariesTold, RunTableRolls
<1>2. ASSUME NEW played \in Drives, Go(p, Summed(proc[p], played)) PROVE StepOf(p)
  <2> DEFINE s == Summed(proc[p], played)
  <2>1. /\ s \in States /\ s.at = "played" /\ s.dir = proc[p].dir
        /\ s.summary = "ok" /\ s.played # "no"
    BY <1>1, SummedTyped, ArtifactConstants DEF ArtifactConstants
  <2> HIDE DEF s
  <2>2. Advances(proc[p], s)
    BY <1>1, <2>1 DEF Advances, HoldsOk, BeforePlay, AfterPlay, Emitting
  <2>3. Go(p, s)
    BY <1>2 DEF s
  <2> QED BY <1>1, <2>1, <2>2, <2>3, OwnStep
<1>3. CASE Go(p, Finally([proc[p] EXCEPT !.code = "2"]))
  BY <1>1, <1>3, CodeTyped, FinallyStep, ZenonT(60)
<1> QED BY <1>2, <1>3 DEF RunTableRolls

\* What every step after the play has in common: the summary is kept, and a
\* process that must hold an "ok" one had to before.
LEMMA KeptStep ==
  ASSUME NEW p \in Procs, IInv, NEW s \in States, Go(p, s), s.dir = proc[p].dir,
         s.summary = proc[p].summary, s.played = proc[p].played,
         s.at \notin BeforePlay, HoldsOk(s) => HoldsOk(proc[p]), proc[p].at # "new",
         art' \in [Dirs -> Contents], Tells(p),
         exported' \in Exports,
         upsets' \in 0..MaxUpsets, UNCHANGED met
  PROVE  StepOf(p)
<1>1. Advances(proc[p], s)
  BY DEF Advances, IInv, SummariesTold
<1> QED BY <1>1 DEF StepOf, Go, IInv, TypeOK

LEMMA SameTells ==
  ASSUME NEW p \in Procs, \A d \in Dirs : art'[d].summary = art[d].summary PROVE Tells(p)
  BY DEF Tells

\* Looking at the journal decides about the header, and no more.
LEMMA LookedTyped ==
  ASSUME NEW s \in States, NEW h \in BOOLEAN
  PROVE  LET t == [s EXCEPT !.at = "looked", !.heads = h] IN
    /\ t \in States /\ t.at = "looked" /\ t.round = s.round /\ t.dir = s.dir /\ t.played = s.played
    /\ t.code = s.code /\ t.summary = s.summary /\ t.manifest = s.manifest
  BY DEF States, AfterPlay

LEMMA LookAtJournalStep ==
  ASSUME NEW p \in Procs, IInv, LookAtJournal(p) PROVE StepOf(p)
<1> DEFINE h == ~(exported.there /\ exported.headed)
           s == [proc[p] EXCEPT !.at = "looked", !.heads = h]
<1>1. /\ proc[p] \in States /\ proc[p].at = "played" /\ UNCHANGED <<art, exported, upsets, met>>
      /\ upsets \in 0..MaxUpsets /\ Go(p, s)
  BY DEF IInv, TypeOK, LookAtJournal
<1>2. h \in BOOLEAN
  OBVIOUS
<1> HIDE DEF h
<1>3. /\ s \in States /\ s.at = "looked" /\ s.dir = proc[p].dir
      /\ s.summary = proc[p].summary /\ s.played = proc[p].played
  BY <1>1, <1>2, LookedTyped
<1> HIDE DEF s
<1>4. Advances(proc[p], s)
  BY <1>1, <1>3 DEF Advances, HoldsOk, BeforePlay, AfterPlay, IInv, SummariesTold
<1> QED BY <1>1, <1>3, <1>4, OwnStep

LEMMA OpenJournalStep ==
  ASSUME NEW p \in Procs, IInv, OpenJournal(p) PROVE StepOf(p)
<1>1. /\ proc[p] \in States /\ proc[p].at = "looked" /\ UNCHANGED <<art, met>>
      /\ art \in [Dirs -> Contents] /\ exported \in Exports
      /\ upsets \in 0..MaxUpsets
  BY DEF IInv, TypeOK, OpenJournal
<1>2. Tells(p)
  BY <1>1, SameTells
<1>3. PICK at \in {"open", "captured", "failed"} : Go(p, [proc[p] EXCEPT !.at = at])
  BY DEF OpenJournal
<1>4. exported' \in Exports /\ upsets' \in 0..MaxUpsets
  <2>1. CASE exported' = Opened /\ UNCHANGED upsets
    BY <1>1, <2>1 DEF Opened, Emptied, Exports, OpenMode
  <2>2. CASE Upset /\ UNCHANGED exported
    BY <1>1, <2>2, UpsetTyped
  <2> QED BY <2>1, <2>2 DEF OpenJournal
<1> DEFINE s == [proc[p] EXCEPT !.at = at]
<1>5. /\ s \in States /\ s.at = at /\ s.dir = proc[p].dir
      /\ s.summary = proc[p].summary /\ s.played = proc[p].played
  <2>1. at \in AfterPlay
    BY <1>3 DEF AfterPlay
  <2> QED BY <1>1, <2>1, AtTyped
<1>6. Go(p, s)
  BY <1>3
<1> HIDE DEF s
<1>7. s.at \notin BeforePlay /\ HoldsOk(proc[p])
  BY <1>1, <1>3, <1>5 DEF HoldsOk, BeforePlay, AfterPlay
<1> QED BY <1>1, <1>2, <1>4, <1>5, <1>6, <1>7, KeptStep

LEMMA WriteSummaryStep ==
  ASSUME NEW p \in Procs, IInv, WriteSummary(p) PROVE StepOf(p)
<1>1. /\ proc[p] \in States /\ proc[p].at = "open" /\ UNCHANGED <<art, met>>
      /\ art \in [Dirs -> Contents] /\ exported \in Exports
      /\ upsets \in 0..MaxUpsets
  BY DEF IInv, TypeOK, WriteSummary
<1>2. Tells(p)
  BY <1>1, SameTells
<1>3. exported' \in Exports /\ upsets' \in 0..MaxUpsets
  <2>1. CASE exported' = Written(p) /\ UNCHANGED upsets
    <3>1. exported.rows \in Seq(Procs) /\ <<p>> \in Seq(Procs) /\ proc[p].heads \in BOOLEAN
      BY <1>1 DEF Exports, States
    <3>2. <<p>> \o exported.rows \in Seq(Procs)
      BY <3>1
    <3>3. Written(p) \in Exports
      BY <3>1, <3>2 DEF Written, OpenMode, Exports
    <3> QED BY <1>1, <2>1, <3>3
  <2>2. CASE Upset /\ UNCHANGED exported
    BY <1>1, <2>2, UpsetTyped
  <2> QED BY <2>1, <2>2 DEF WriteSummary
<1> DEFINE s == [proc[p] EXCEPT !.at = "captured"]
<1>4. /\ s \in States /\ s.at = "captured" /\ s.dir = proc[p].dir
      /\ s.summary = proc[p].summary /\ s.played = proc[p].played
  BY <1>1, AtTyped DEF AfterPlay
<1>5. Go(p, s)
  BY DEF WriteSummary
<1> HIDE DEF s
<1>6. s.at \notin BeforePlay /\ HoldsOk(proc[p])
  BY <1>1, <1>4 DEF HoldsOk, BeforePlay, AfterPlay
<1> QED BY <1>1, <1>2, <1>3, <1>4, <1>5, <1>6, KeptStep

\* Finalize and CloseTrace see to the row of the trace, then go on.
LEMMA RowStep ==
  ASSUME NEW p \in Procs, IInv, NEW s \in States,
         \/ art' = [art EXCEPT ![proc[p].dir].decisions = "rowed"] /\ UNCHANGED upsets
         \/ Upset /\ UNCHANGED art
         \/ UNCHANGED <<art, upsets>>,
         Go(p, s), s.dir = proc[p].dir, s.summary = proc[p].summary, s.played = proc[p].played,
         s.at \notin BeforePlay, HoldsOk(s) => HoldsOk(proc[p]), proc[p].at # "new",
         UNCHANGED <<exported, met>>
  PROVE  StepOf(p)
<1>1. /\ art \in [Dirs -> Contents] /\ proc[p].dir \in Dirs
      /\ exported' \in Exports /\ UNCHANGED met
      /\ upsets \in 0..MaxUpsets
  BY DEF IInv, TypeOK
<1>2. art' \in [Dirs -> Contents] /\ \A e \in Dirs : art'[e].summary = art[e].summary
  BY <1>1, DecisionsTyped
<1>3. upsets' \in 0..MaxUpsets
  BY <1>1, UpsetTyped
<1>4. Tells(p)
  BY <1>2, SameTells
<1> QED BY <1>1, <1>2, <1>3, <1>4, KeptStep

LEMMA FinalizeStep ==
  ASSUME NEW p \in Procs, IInv, Finalize(p) PROVE StepOf(p)
<1>1. /\ proc[p] \in States /\ proc[p].at \in {"captured", "failed"}
      /\ UNCHANGED <<exported, met>> /\ exported.there \in BOOLEAN
  BY DEF IInv, TypeOK, Finalize, Exports
<1>2. HoldsOk(proc[p]) /\ proc[p].at # "new"
  BY <1>1 DEF HoldsOk, AfterPlay
<1>3. JournalFound(p) \in BOOLEAN
  BY <1>1 DEF JournalFound
<1>4. PICK trace \in Traces :
        /\ Go(p, Begun(proc[p], JournalFound(p), trace))
        /\ \/ art' = [art EXCEPT ![proc[p].dir].decisions = "rowed"] /\ UNCHANGED upsets
           \/ Upset /\ UNCHANGED art
           \/ UNCHANGED <<art, upsets>>
  BY <1>1 DEF Finalize, SummaryRow
<1> DEFINE s == Begun(proc[p], JournalFound(p), trace)
<1>5. /\ s \in States /\ s.at = "summary" /\ s.dir = proc[p].dir
      /\ s.summary = proc[p].summary /\ s.played = proc[p].played
  BY <1>1, <1>3, BegunTyped
<1>6. Go(p, s)
  BY <1>4
<1> HIDE DEF s
<1>7. s.at \notin BeforePlay
  BY <1>5 DEF BeforePlay
<1> QED BY <1>1, <1>2, <1>4, <1>5, <1>6, <1>7, RowStep

LEMMA CloseTraceStep ==
  ASSUME NEW p \in Procs, IInv, CloseTrace(p) PROVE StepOf(p)
<1> DEFINE s == [proc[p] EXCEPT !.at = "done", !.trace = "off"]
<1>1. /\ proc[p] \in States /\ proc[p].at = "close" /\ UNCHANGED <<exported, met>>
  BY DEF IInv, TypeOK, CloseTrace
<1>2. /\ s \in States /\ s.at = "done" /\ s.dir = proc[p].dir
      /\ s.summary = proc[p].summary /\ s.played = proc[p].played
  BY <1>1, ClosedTyped
<1>3. /\ Go(p, s)
      /\ \/ art' = [art EXCEPT ![proc[p].dir].decisions = "rowed"] /\ UNCHANGED upsets
         \/ Upset /\ UNCHANGED art
         \/ UNCHANGED <<art, upsets>>
  BY DEF CloseTrace, SummaryRow
<1> HIDE DEF s
<1>4. s.at \notin BeforePlay /\ ~HoldsOk(s) /\ proc[p].at # "new"
  BY <1>1, <1>2 DEF HoldsOk, BeforePlay, AfterPlay, Emitting
<1> QED BY <1>1, <1>2, <1>3, <1>4, RowStep

\* What is written of a directory, and what that leaves of its summary.
LEMMA SummaryTyped ==
  ASSUME NEW d \in Dirs, NEW r \in [by : Writers, says : Results], art \in [Dirs -> Contents],
         art' = [art EXCEPT ![d].summary = r]
  PROVE  /\ art' \in [Dirs -> Contents]
         /\ \A e \in Dirs : art'[e].summary = art[e].summary \/ art'[e].summary = r
<1>1. /\ [art[d] EXCEPT !.summary = r] \in Contents
      /\ [art[d] EXCEPT !.summary = r].summary = r
  BY DEF Contents
<1>2. art' = [art EXCEPT ![d] = [art[d] EXCEPT !.summary = r]]
  OBVIOUS
<1> QED BY <1>1, <1>2

LEMMA RecordTyped ==
  ASSUME NEW p \in Procs, NEW says \in Results
  PROVE  [by |-> p, says |-> says] \in [by : Writers, says : Results]
  BY DEF Writers

LEMMA ManifestTyped ==
  ASSUME NEW p \in Procs, NEW d \in Dirs, NEW full \in BOOLEAN, art \in [Dirs -> Contents],
         art' = [art EXCEPT ![d].manifest = [by |-> p, full |-> full]]
  PROVE  art' \in [Dirs -> Contents] /\ \A e \in Dirs : art'[e].summary = art[e].summary
<1> DEFINE r == [by |-> p, full |-> full]
<1>1. r \in [by : Writers, full : BOOLEAN]
  BY DEF Writers
<1> HIDE DEF r
<1>2. /\ [art[d] EXCEPT !.manifest = r] \in Contents
      /\ [art[d] EXCEPT !.manifest = r].summary = art[d].summary
  BY <1>1 DEF Contents
<1>3. art' = [art EXCEPT ![d] = [art[d] EXCEPT !.manifest = r]]
  BY DEF r
<1> QED BY <1>2, <1>3

LEMMA JournalTyped ==
  ASSUME NEW d \in Dirs, NEW j \in Journals, art \in [Dirs -> Contents], PutJournal(d, j)
  PROVE  art' \in [Dirs -> Contents] /\ \A e \in Dirs : art'[e].summary = art[e].summary
<1>1. /\ [art[d] EXCEPT !.journal = j] \in Contents
      /\ [art[d] EXCEPT !.journal = j].summary = art[d].summary
  BY DEF Contents
<1>2. art' = [art EXCEPT ![d] = [art[d] EXCEPT !.journal = j]]
  BY DEF PutJournal
<1> QED BY <1>1, <1>2

\* A write that raises: to the retry, to the fallback summary, or to the end.
LEMMA RaisedStep ==
  ASSUME NEW p \in Procs, IInv, proc[p].at \in Emitting, Go(p, Raised(proc[p])),
         art' \in [Dirs -> Contents], Tells(p), upsets' \in 0..MaxUpsets,
         UNCHANGED <<exported, met>>
  PROVE  StepOf(p)
<1> DEFINE s == Raised(proc[p])
<1>1. proc[p] \in States /\ exported' \in Exports
  BY DEF IInv, TypeOK
<1>2. /\ s \in States /\ s.dir = proc[p].dir
      /\ s.summary = proc[p].summary /\ s.played = proc[p].played
      /\ \/ proc[p].round # "last" /\ s.at \in {"summary", "missing"}
         \/ s.at = "close"
  BY <1>1, RaisedTyped
<1> HIDE DEF s
<1>3. s.at \notin BeforePlay /\ HoldsOk(s) => HoldsOk(proc[p])
  BY <1>2 DEF HoldsOk, BeforePlay, AfterPlay, Emitting
<1>4. s.at \notin BeforePlay /\ proc[p].at # "new"
  BY <1>2 DEF BeforePlay, Emitting
<1>5. Go(p, s)
  BY DEF s
<1> QED BY <1>1, <1>2, <1>3, <1>4, <1>5, KeptStep

\* A write that does not: on to the next file.
LEMMA OnStep ==
  ASSUME NEW p \in Procs, IInv, proc[p].at \in Emitting, NEW at \in Emitting,
         Go(p, [proc[p] EXCEPT !.at = at]),
         art' \in [Dirs -> Contents], Tells(p), upsets' \in 0..MaxUpsets,
         UNCHANGED <<exported, met>>
  PROVE  StepOf(p)
<1> DEFINE s == [proc[p] EXCEPT !.at = at]
<1>1. proc[p] \in States /\ exported' \in Exports
  BY DEF IInv, TypeOK
<1>2. /\ s \in States /\ s.at = at /\ s.round = proc[p].round /\ s.dir = proc[p].dir
      /\ s.summary = proc[p].summary /\ s.played = proc[p].played
  BY <1>1, AtTyped
<1>3. Go(p, s)
  BY DEF s
<1> HIDE DEF s
<1>4. s.at \notin BeforePlay /\ proc[p].at # "new"
  BY <1>2 DEF BeforePlay, Emitting
<1>5. HoldsOk(s) => HoldsOk(proc[p])
  BY <1>2 DEF HoldsOk, AfterPlay, Emitting
<1> QED BY <1>1, <1>2, <1>3, <1>4, <1>5, KeptStep

\* The summary that is emitted is the one the process holds.
LEMMA SummaryOfTold ==
  ASSUME NEW p \in Procs, IInv, proc[p].at \in Emitting
  PROVE  SummaryOf(proc[p]) = Told(proc[p]) /\ Told(proc[p]) \in Results
<1>1. /\ proc[p] \in States
      /\ proc[p].round # "last" => proc[p].summary = "ok"
  BY DEF IInv, TypeOK, SummariesTold, HoldsOk
<1>2. /\ proc[p].round \in {"first", "retry", "last"}
      /\ proc[p].summary \in {"none", "ok", "engine_unavailable"}
  BY <1>1 DEF States
<1> QED BY <1>1, <1>2 DEF SummaryOf, FallbackResult, Told, Results

LEMMA EmitSummaryStep ==
  ASSUME NEW p \in Procs, IInv, EmitSummary(p) PROVE StepOf(p)
<1>1. /\ proc[p].at \in Emitting /\ UNCHANGED <<exported, met>> /\ proc[p].dir \in Dirs
      /\ art \in [Dirs -> Contents] /\ upsets \in 0..MaxUpsets
  BY DEF IInv, TypeOK, EmitSummary, Emitting
<1>2. SummaryOf(proc[p]) = Told(proc[p]) /\ Told(proc[p]) \in Results
  BY <1>1, SummaryOfTold
<1>3. CASE /\ art' = [art EXCEPT ![proc[p].dir].summary = [by |-> p, says |-> SummaryOf(proc[p])]]
           /\ Go(p, [proc[p] EXCEPT !.at = "manifest"])
           /\ UNCHANGED upsets
  <2> DEFINE d == proc[p].dir
             r == [by |-> p, says |-> Told(proc[p])]
  <2>1. art' \in [Dirs -> Contents] /\ \A e \in Dirs : art'[e].summary = art[e].summary \/ art'[e].summary = r
    <3>1. d \in Dirs /\ r \in [by : Writers, says : Results]
      BY <1>1, <1>2, RecordTyped
    <3>2. art' = [art EXCEPT ![d].summary = r]
      BY <1>2, <1>3
    <3> HIDE DEF d, r
    <3> QED BY <1>1, <3>1, <3>2, SummaryTyped
  <2>2. Tells(p)
    BY <1>1, <2>1 DEF Tells, BeforePlay, Emitting
  <2>3. upsets' \in 0..MaxUpsets /\ "manifest" \in Emitting
    BY <1>1, <1>3 DEF Emitting
  <2> QED BY <1>1, <1>3, <2>1, <2>2, <2>3, OnStep
<1>4. CASE Upset /\ Go(p, Raised(proc[p])) /\ UNCHANGED <<art, order>>
  <2>1. Tells(p) /\ upsets' \in 0..MaxUpsets /\ art' \in [Dirs -> Contents]
    BY <1>1, <1>4, SameTells, UpsetTyped
  <2> QED BY <1>1, <1>4, <2>1, RaisedStep
<1> QED BY <1>3, <1>4 DEF EmitSummary

LEMMA EmitManifestStep ==
  ASSUME NEW p \in Procs, IInv, EmitManifest(p) PROVE StepOf(p)
<1>1. /\ proc[p].at \in Emitting /\ UNCHANGED <<exported, met>> /\ proc[p].dir \in Dirs
      /\ proc[p] \in States /\ art \in [Dirs -> Contents] /\ upsets \in 0..MaxUpsets
  BY DEF IInv, TypeOK, EmitManifest, Emitting
<1>2. CASE /\ art' = [art EXCEPT ![proc[p].dir].manifest = [by |-> p, full |-> ManifestOf(proc[p])]]
           /\ Go(p, [proc[p] EXCEPT !.at = "decisions"])
           /\ UNCHANGED upsets
  <2> DEFINE d == proc[p].dir
             full == ManifestOf(proc[p])
  <2>1. d \in Dirs /\ full \in BOOLEAN
    BY <1>1 DEF ManifestOf, States
  <2>2. art' = [art EXCEPT ![d].manifest = [by |-> p, full |-> full]]
    BY <1>2
  <2> HIDE DEF d, full
  <2>3. art' \in [Dirs -> Contents] /\ \A e \in Dirs : art'[e].summary = art[e].summary
    BY <1>1, <2>1, <2>2, ManifestTyped
  <2>4. Tells(p) /\ upsets' \in 0..MaxUpsets /\ "decisions" \in Emitting
    BY <1>1, <1>2, <2>3, SameTells DEF Emitting
  <2> QED BY <1>1, <1>2, <2>3, <2>4, OnStep
<1>3. CASE Upset /\ Go(p, Raised(proc[p])) /\ UNCHANGED <<art, order>>
  <2>1. Tells(p) /\ upsets' \in 0..MaxUpsets /\ art' \in [Dirs -> Contents]
    BY <1>1, <1>3, SameTells, UpsetTyped
  <2> QED BY <1>1, <1>3, <2>1, RaisedStep
<1> QED BY <1>2, <1>3 DEF EmitManifest

LEMMA EmitDecisionsStep ==
  ASSUME NEW p \in Procs, IInv, EmitDecisions(p) PROVE StepOf(p)
<1>1. /\ proc[p].at \in Emitting /\ UNCHANGED <<exported, met>> /\ proc[p].dir \in Dirs
      /\ art \in [Dirs -> Contents] /\ upsets \in 0..MaxUpsets
      /\ Go(p, [proc[p] EXCEPT !.at = "journal"]) /\ "journal" \in Emitting
  BY DEF IInv, TypeOK, EmitDecisions, Emitting
<1>2. PICK v \in {"rowed", "empty"} :
        \/ art' = [art EXCEPT ![proc[p].dir].decisions = v]
        \/ art' = art
  BY DEF EmitDecisions
<1>3. upsets' \in 0..MaxUpsets
  BY <1>1, UpsetTyped DEF EmitDecisions
<1>4. art' \in [Dirs -> Contents] /\ \A e \in Dirs : art'[e].summary = art[e].summary
  BY <1>1, <1>2, DecisionsTyped
<1>5. Tells(p)
  BY <1>4, SameTells
<1> QED BY <1>1, <1>3, <1>4, <1>5, OnStep

LEMMA CopiedTyped ==
  ASSUME exported \in Exports
  PROVE  Copied \in Journals /\ Stub \in Journals /\ EmptyFile \in Journals
<1>1. exported.headed \in BOOLEAN /\ exported.rows \in Seq(Procs)
  BY DEF Exports
<1>2. EmptyFile \in Journals
  BY DEF EmptyFile, Journals
<1> QED BY <1>1, <1>2 DEF Copied, Stub, Journals

\* The journal is put, copied, stubbed or left: what counts here is that the
\* summaries are as they were.
LEMMA JournalKept ==
  ASSUME NEW p \in Procs, NEW d \in Dirs, art \in [Dirs -> Contents], upsets \in 0..MaxUpsets,
         \/ \E j \in Journals : PutJournal(d, j)
         \/ art' = art,
         UNCHANGED upsets \/ Upset
  PROVE  art' \in [Dirs -> Contents] /\ Tells(p) /\ upsets' \in 0..MaxUpsets
<1>1. art' \in [Dirs -> Contents] /\ \A e \in Dirs : art'[e].summary = art[e].summary
  BY JournalTyped
<1>2. upsets' \in 0..MaxUpsets
  BY UpsetTyped
<1> QED BY <1>1, <1>2, SameTells

LEMMA EmitJournalStep ==
  ASSUME NEW p \in Procs, IInv, EmitJournal(p) PROVE StepOf(p)
<1>1. /\ proc[p].at \in Emitting /\ UNCHANGED <<exported, met>> /\ proc[p].dir \in Dirs
      /\ proc[p] \in States /\ art \in [Dirs -> Contents] /\ upsets \in 0..MaxUpsets
      /\ exported \in Exports
  BY DEF IInv, TypeOK, EmitJournal, Emitting
<1>2. \/ \E j \in Journals : PutJournal(proc[p].dir, j)
      \/ art' = art
  BY <1>1, CopiedTyped DEF EmitJournal
<1>3. UNCHANGED upsets \/ Upset
  BY DEF EmitJournal
<1>4. art' \in [Dirs -> Contents] /\ Tells(p) /\ upsets' \in 0..MaxUpsets
  BY <1>1, <1>2, <1>3, JournalKept
<1>5. CASE Go(p, Raised(proc[p]))
  BY <1>1, <1>4, <1>5, RaisedStep
<1>6. CASE Go(p, Emitted(proc[p]))
  <2> DEFINE s == Emitted(proc[p])
  <2>1. /\ s \in States /\ s.dir = proc[p].dir
        /\ s.summary = proc[p].summary /\ s.played = proc[p].played
        /\ \/ proc[p].round # "last" /\ s.at = "repair"
           \/ s.at = "close"
    BY <1>1, EmittedTyped
  <2>2. Go(p, s)
    BY <1>6
  <2> HIDE DEF s
  <2>3. HoldsOk(s) => HoldsOk(proc[p])
    BY <1>1, <2>1 DEF HoldsOk, AfterPlay, Emitting
  <2>4. s.at \notin BeforePlay /\ proc[p].at # "new"
    BY <1>1, <2>1 DEF BeforePlay, Emitting
  <2> QED BY <1>1, <1>4, <2>1, <2>2, <2>3, <2>4, KeptStep
<1> QED BY <1>5, <1>6 DEF EmitJournal

LEMMA RepairStep ==
  ASSUME NEW p \in Procs, IInv, Repair(p) PROVE StepOf(p)
<1>1. /\ proc[p].at = "repair" /\ UNCHANGED <<exported, met>> /\ proc[p].dir \in Dirs
      /\ proc[p] \in States /\ art \in [Dirs -> Contents] /\ upsets \in 0..MaxUpsets
      /\ exported \in Exports
  BY DEF IInv, TypeOK, Repair
<1>2. [kind |-> "rows", headed |-> TRUE, rows |-> <<p>>] \in Journals
  BY DEF Journals
<1>3. \/ \E j \in Journals : PutJournal(proc[p].dir, j)
      \/ art' = art
  BY <1>1, <1>2, CopiedTyped DEF Repair
<1>4. UNCHANGED upsets \/ Upset
  BY DEF Repair
<1>5. art' \in [Dirs -> Contents] /\ Tells(p) /\ upsets' \in 0..MaxUpsets
  BY <1>1, <1>3, <1>4, JournalKept
<1> DEFINE s == [proc[p] EXCEPT !.at = "missing", !.manifest = TRUE]
<1>6. /\ s \in States /\ s.at = "missing" /\ s.dir = proc[p].dir
      /\ s.summary = proc[p].summary /\ s.played = proc[p].played
  BY <1>1, RepairedTyped
<1>7. Go(p, s)
  BY DEF Repair
<1> HIDE DEF s
<1>8. HoldsOk(proc[p]) /\ s.at \notin BeforePlay /\ proc[p].at # "new"
  BY <1>1, <1>6 DEF HoldsOk, BeforePlay
<1> QED BY <1>1, <1>5, <1>6, <1>7, <1>8, KeptStep

LEMMA EnsureSummaryStep ==
  ASSUME NEW p \in Procs, IInv, EnsureSummary(p) PROVE StepOf(p)
<1>1. /\ proc[p].at = "missing" /\ UNCHANGED <<exported, met>> /\ proc[p].dir \in Dirs
      /\ proc[p] \in States /\ art \in [Dirs -> Contents] /\ upsets \in 0..MaxUpsets
      /\ exported \in Exports
      /\ proc[p].summary = "ok" /\ HoldsOk(proc[p])
  BY DEF IInv, TypeOK, EnsureSummary, SummariesTold, HoldsOk
<1>2. FallbackResult(proc[p]) = Told(proc[p]) /\ Told(proc[p]) \in Results
  BY <1>1 DEF FallbackResult, Told, Results
<1> DEFINE d == proc[p].dir
           r == [by |-> p, says |-> Told(proc[p])]
<1>3. \/ art' = [art EXCEPT ![d].summary = r]
      \/ UNCHANGED art
  BY <1>2 DEF EnsureSummary
<1>4. d \in Dirs /\ r \in [by : Writers, says : Results]
  BY <1>1, <1>2, RecordTyped
<1>5. /\ art' \in [Dirs -> Contents]
      /\ \A e \in Dirs : art'[e].summary = art[e].summary \/ art'[e].summary = r
  <2> HIDE DEF d, r
  <2>1. CASE art' = [art EXCEPT ![d].summary = r]
    BY <1>1, <1>4, <2>1, SummaryTyped
  <2>2. CASE UNCHANGED art
    BY <1>1, <2>2
  <2> QED BY <1>3, <2>1, <2>2
<1>6. Tells(p)
  BY <1>1, <1>5 DEF Tells, BeforePlay
<1>7. upsets' \in 0..MaxUpsets
  BY <1>1, UpsetTyped DEF EnsureSummary
<1> DEFINE t == [proc[p] EXCEPT !.code = "0"]
<1>8. /\ t \in States /\ t.dir = proc[p].dir
      /\ t.summary = proc[p].summary /\ t.played = proc[p].played
  BY <1>1, CodeTyped
<1>9. Go(p, Finally(t))
  BY DEF EnsureSummary
<1> HIDE DEF t
<1>10. /\ Finally(t) \in States /\ Finally(t).dir = proc[p].dir /\ Finally(t).at = "summary"
       /\ Finally(t).summary = proc[p].summary /\ Finally(t).played = proc[p].played
  BY <1>8, FinallyTyped
<1>11. Finally(t).at \notin BeforePlay /\ proc[p].at # "new"
  BY <1>1, <1>10 DEF BeforePlay
<1> QED BY <1>1, <1>5, <1>6, <1>7, <1>9, <1>10, <1>11, KeptStep

LEMMA InterruptStep ==
  ASSUME NEW p \in Procs, IInv, Interrupt(p) PROVE StepOf(p)
<1>1. /\ proc[p].at \notin {"new", "done", "dead"} /\ UNCHANGED <<art, exported, met>>
      /\ proc[p] \in States /\ art \in [Dirs -> Contents] /\ upsets' \in 0..MaxUpsets
      /\ exported \in Exports
      /\ proc[p].summary = "ok" => proc[p].played # "no"
  BY UpsetTyped DEF IInv, TypeOK, Interrupt, Working, SummariesTold
<1>2. CASE Go(p, [proc[p] EXCEPT !.at = "close", !.code = "raised"])
  <2> DEFINE s == [proc[p] EXCEPT !.at = "close", !.code = "raised"]
  <2>1. /\ s \in States /\ s.at = "close" /\ s.dir = proc[p].dir
        /\ s.summary = proc[p].summary /\ s.played = proc[p].played
    BY <1>1, StoppedTyped
  <2>2. Go(p, s)
    BY <1>2
  <2> HIDE DEF s
  <2>3. ~HoldsOk(s) /\ s.at \notin BeforePlay
    BY <2>1 DEF HoldsOk, BeforePlay, AfterPlay, Emitting
  <2> QED BY <1>1, <2>1, <2>2, <2>3, SameTells, KeptStep
<1>3. CASE Go(p, Finally([proc[p] EXCEPT !.code = "raised"]))
  <2> DEFINE s == [proc[p] EXCEPT !.code = "raised"]
  <2>1. /\ s \in States /\ s.dir = proc[p].dir
        /\ s.summary = proc[p].summary /\ s.played = proc[p].played
    BY <1>1, CodeTyped
  <2>2. Go(p, Finally(s))
    BY <1>3
  <2> HIDE DEF s
  <2> QED BY <1>1, <2>1, <2>2, FinallyStep
<1>4. \/ Go(p, [proc[p] EXCEPT !.at = "close", !.code = "raised"])
      \/ Go(p, Finally([proc[p] EXCEPT !.code = "raised"]))
  BY DEF Interrupt
<1> QED BY <1>2, <1>3, <1>4

LEMMA KillStep ==
  ASSUME NEW p \in Procs, IInv, Kill(p) PROVE StepOf(p)
<1>1. /\ proc[p].at \notin {"new", "done", "dead"} /\ UNCHANGED <<art, exported, met>>
      /\ proc[p] \in States /\ art \in [Dirs -> Contents] /\ upsets' \in 0..MaxUpsets
      /\ exported \in Exports
  BY UpsetTyped DEF IInv, TypeOK, Kill, Working
<1> DEFINE s == [proc[p] EXCEPT !.at = "dead"]
<1>2. /\ s \in States /\ s.at = "dead" /\ s.dir = proc[p].dir
      /\ s.summary = proc[p].summary /\ s.played = proc[p].played
  BY <1>1, AtTyped
<1>3. Go(p, s)
  BY DEF Kill
<1> HIDE DEF s
<1>4. ~HoldsOk(s) /\ s.at \notin BeforePlay
  BY <1>2 DEF HoldsOk, BeforePlay, AfterPlay, Emitting
<1> QED BY <1>1, <1>2, <1>3, <1>4, SameTells, KeptStep

LEMMA RunIsStep ==
  ASSUME NEW p \in Procs, IInv, Run(p) PROVE StepOf(p)
<1>1. CASE Prepare(p) BY <1>1, PrepareStep
<1>2. CASE Validate(p) BY <1>2, ValidateStep
<1>3. CASE Attach(p) BY <1>3, AttachStep
<1>4. CASE RunTableRolls(p) BY <1>4, RollsStep
<1>5. CASE OpenJournal(p) BY <1>5, OpenJournalStep
<1>6. CASE WriteSummary(p) BY <1>6, WriteSummaryStep
<1>7. CASE Finalize(p) BY <1>7, FinalizeStep
<1>8. CASE EmitSummary(p) BY <1>8, EmitSummaryStep
<1>9. CASE EmitManifest(p) BY <1>9, EmitManifestStep
<1>10. CASE EmitDecisions(p) BY <1>10, EmitDecisionsStep
<1>11. CASE EmitJournal(p) BY <1>11, EmitJournalStep
<1>12. CASE Repair(p) BY <1>12, RepairStep
<1>13. CASE EnsureSummary(p) BY <1>13, EnsureSummaryStep
<1>14. CASE CloseTrace(p) BY <1>14, CloseTraceStep
<1>15. CASE Interrupt(p) BY <1>15, InterruptStep
<1>16. CASE Kill(p) BY <1>16, KillStep
<1>17. CASE LookAtJournal(p) BY <1>17, LookAtJournalStep
<1> QED BY <1>1, <1>2, <1>3, <1>4, <1>5, <1>6, <1>7, <1>8, <1>9, <1>10, <1>11, <1>12,
           <1>13, <1>14, <1>15, <1>16, <1>17 DEF Run

\* A step keeps the invariant: what is on disk in a process's name is what that
\* process holds, and goes on holding.
LEMMA StepKeeps ==
  ASSUME NEW p \in Procs, IInv, StepOf(p) PROVE IInv'
<1>1. PICK s \in States : /\ proc' = [proc EXCEPT ![p] = s] /\ Advances(proc[p], s)
                          /\ s.at # "new" => s.dir \in Dirs
  BY DEF StepOf
<1>2. /\ proc' \in [Procs -> States] /\ proc'[p] = s
      /\ \A q \in Procs \ {p} : proc'[q] = proc[q]
  BY <1>1 DEF IInv, TypeOK
<1>3. TypeOK'
  BY <1>1, <1>2 DEF IInv, TypeOK, StepOf
<1>4. \A q \in Procs : /\ HoldsOk(proc'[q]) => proc'[q].summary = "ok"
                       /\ proc'[q].summary = "ok" => proc'[q].played # "no"
  BY <1>1, <1>2 DEF Advances, IInv, SummariesTold
<1>5. \A q \in Procs : proc[q].at \notin BeforePlay =>
        Told(proc'[q]) = Told(proc[q]) /\ proc'[q].at \notin BeforePlay
  BY <1>1, <1>2 DEF Advances, Told
<1>6. ASSUME NEW d \in Dirs
      PROVE  /\ art'[d].summary.by # NoOne =>
                  /\ art'[d].summary.says = Told(proc'[art'[d].summary.by])
                  /\ proc'[art'[d].summary.by].at \notin BeforePlay
             /\ art'[d].summary.by = NoOne => art'[d].summary.says = "none"
  <2>1. CASE art'[d].summary = art[d].summary
    <3>1. art[d].summary.by \in Writers
      BY DEF IInv, TypeOK, Contents
    <3> QED BY <2>1, <3>1, <1>5 DEF IInv, SummariesTold, Writers
  <2>2. CASE /\ art'[d].summary = [by |-> p, says |-> Told(proc[p])]
             /\ proc[p].at \notin BeforePlay
    BY <2>2, <1>5, ArtifactConstants DEF ArtifactConstants
  <2> QED BY <2>1, <2>2 DEF StepOf, Tells
<1> QED BY <1>3, <1>4, <1>6 DEF IInv, SummariesTold

LEMMA Starts == ListInit => IInv
<1> SUFFICES ASSUME ListInit PROVE IInv
  OBVIOUS
<1>1. /\ proc = [p \in Procs |-> Unstarted] /\ art = [d \in Dirs |-> Bare]
      /\ exported = [there |-> FALSE, headed |-> FALSE, rows |-> <<>>] /\ upsets = 0 /\ met = {}
  BY DEF ListInit, Init
<1>2. Unstarted \in States /\ Unstarted.at = "new" /\ Unstarted.summary = "none"
  BY DEF Unstarted, States, Traces, BeforePlay
<1>3. Bare \in Contents /\ Bare.summary.by = NoOne /\ Bare.summary.says = "none"
  BY DEF Bare, Contents, Writers, Results, Journals
<1>4. TypeOK
  BY <1>1, <1>2, <1>3, ArtifactConstants DEF TypeOK, Exports, ArtifactConstants
<1>5. ~HoldsOk(Unstarted)
  BY <1>2 DEF HoldsOk, AfterPlay, Emitting
<1> QED BY <1>1, <1>2, <1>3, <1>4, <1>5 DEF IInv, SummariesTold

LEMMA Steps == IInv /\ [Next]_vars => IInv'
<1> SUFFICES ASSUME IInv, [Next]_vars PROVE IInv'
  OBVIOUS
<1>1. ASSUME NEW p \in Procs, RunStep(p) PROVE IInv'
  BY <1>1, RunIsStep, StepKeeps DEF RunStep
<1>2. CASE RunsList \/ UNCHANGED vars
  <2>1. UNCHANGED files
    BY <1>2 DEF RunsList, vars
  <2> QED BY <2>1 DEF files, IInv, TypeOK, SummariesTold
<1> QED BY <1>1, <1>2 DEF Next

\* The state of every process and directory is one the code can write.
THEOREM TypeCorrect == Spec => []TypeOK
<1>1. IInv => TypeOK
  BY DEF IInv
<1> QED BY <1>1, Starts, Steps, PTL DEF Spec

\* What is on disk in a run's name is the result that run holds; a run that did
\* not play never has one that says ok.
THEOREM SummariesCorrect == Spec => []SummariesTold
<1>1. IInv => SummariesTold
  BY DEF IInv
<1> QED BY <1>1, Starts, Steps, PTL DEF Spec

\* What a client reads of a finished run stays (cli.py rewrites summary.json up
\* to three times), for any number of runs, ids and failures.
THEOREM ResultsSettle == Spec => ResultSettles
<1> DEFINE Stays == \A d \in Dirs :
             (Finished(d) /\ art'[d].summary.by = art[d].summary.by) =>
               art'[d].summary.says = art[d].summary.says
<1>1. ASSUME NEW p \in Procs, IInv, RunStep(p) PROVE Stays
  <2>1. Tells(p)
    BY <1>1, RunIsStep DEF RunStep, StepOf
  <2>2. SUFFICES ASSUME NEW d \in Dirs, Finished(d), art'[d].summary.by = art[d].summary.by
                 PROVE  art'[d].summary.says = art[d].summary.says
    OBVIOUS
  <2>3. CASE art'[d].summary = [by |-> p, says |-> Told(proc[p])]
    BY <1>1, <2>2, <2>3 DEF IInv, SummariesTold, Finished
  <2> QED BY <2>1, <2>3 DEF Tells
<1>2. IInv /\ [Next]_vars => [Stays]_vars
  <2> SUFFICES ASSUME IInv, Next PROVE Stays
    OBVIOUS
  <2>1. CASE RunsList
    BY <2>1 DEF RunsList, files
  <2> QED BY <1>1, <2>1 DEF Next
<1> QED BY <1>2, Starts, Steps, PTL DEF Spec, ResultSettles

(***************************************************************************)
(* What a process that returned 0 leaves, and whose journal it is.         *)
(***************************************************************************)
\* What p has put on disk, a being the files of its directory.
Summarized(a, p) == a.summary = [by |-> p, says |-> "ok"]
Manifested(a, p) == a.manifest = [by |-> p, full |-> TRUE]
Whole(a, p) == Summarized(a, p) /\ Manifested(a, p)

\* What a process knows of itself: when it returns 0 after it played, it holds a
\* manifest and has only its last emission before it.
Career(s) ==
  /\ s.at \in BeforePlay \cup AfterPlay => s.code = "none"
  /\ s.at \in BeforePlay => s.played = "no"
  /\ s.played # "no" => s.summary = "ok"
  /\ s.at = "missing" => s.manifest
  /\ (s.played # "no" /\ s.code = "0") => s.round = "last" /\ s.manifest

\* How far the files a have got when a process that played is in state s and u upsets
\* have happened: what is not there and should be has cost two of them.
Due(s, a, u, p) ==
  s.played # "no" =>
    /\ (s.at \in Emitting /\ s.round = "retry") => u >= 1
    /\ (s.at = "summary" /\ s.code = "0") => Whole(a, p) \/ u >= 2
    /\ s.at = "manifest" => Summarized(a, p) /\ (s.code = "0" => Manifested(a, p) \/ u >= 2)
    /\ s.at \in {"decisions", "journal"} =>
         Summarized(a, p) /\ ((s.round # "last" \/ s.code = "0") => Manifested(a, p))
    /\ s.at = "repair" => Whole(a, p)
    /\ s.at = "missing" => Whole(a, p) \/ u >= 2
    /\ (s.at \in {"close", "done"} /\ s.code = "0") => Whole(a, p)

Exported(p, heads) == [there |-> TRUE, headed |-> heads, rows |-> <<p>>]
Own(p, heads) == [kind |-> "rows", headed |-> heads, rows |-> <<p>>]

\* The way of the journal of a process that meets no other, when nothing fails: what
\* it left in export/, x, is what it copies.
Carries(s, a, x, p) ==
  s.played # "no" =>
    /\ s.at = "open" => x = Emptied
    /\ s.at = "captured" => x = Exported(p, s.heads)
    /\ s.at # "failed"
    /\ s.at \in Emitting \cup {"repair", "missing", "close"} =>
         s.journal /\ s.round # "retry" /\ x = Exported(p, s.heads)
    /\ (s.at \in {"repair", "missing", "close"} \/ (s.at \in Emitting /\ s.round = "last")) =>
         a.journal = Own(p, s.heads)
    /\ (s.at = "done" /\ a.summary.by = p) => a.journal = Own(p, s.heads)

\* Where a process has written the summary of its directory.
Telling == {"manifest", "decisions", "journal", "repair"}

\* The parts of a step of p to state s: whose state and files it may change.
Moves(p, s) ==
  /\ proc[p].at \notin {"done", "dead"} /\ s.at # "new"
  /\ proc' = [proc EXCEPT ![p] = s]
  /\ proc[p].at # "new" => s.dir = proc[p].dir
  /\ \A d \in Dirs \ {s.dir} : /\ art'[d].summary = art[d].summary
                               /\ art'[d].manifest = art[d].manifest
                               /\ art'[d].journal = art[d].journal
  /\ upsets' \in Nat /\ upsets <= upsets'
  /\ met' = IF proc[p].at # "new" \/ Working = {} THEN met ELSE met \cup Working \cup {p}

\* Which of its own it changes, and when.
Leaves(p, s) ==
  /\ art'[s.dir].summary = art[s.dir].summary \/ art'[s.dir].summary.by = p
  /\ \/ art'[s.dir].journal = art[s.dir].journal
     \/ proc[p].at \in Telling /\ art'[s.dir].summary = art[s.dir].summary
  /\ s.at \in Telling => \/ art'[s.dir].summary.by = p
                         \/ proc[p].at \in Telling /\ art'[s.dir].summary = art[s.dir].summary
  /\ proc[p].at \notin {"looked", "open"} => exported' = exported
  /\ (upsets' = 0 /\ proc[p].at = "new") => s.at # "done"

Turn(p) ==
  \E s \in States :
    /\ Moves(p, s) /\ Leaves(p, s)
    /\ Career(s)
    /\ (upsets' <= 2 /\ Due(proc[p], art[s.dir], upsets, p)) => Due(s, art'[s.dir], upsets', p)
    /\ (upsets' = 0 /\ Carries(proc[p], art[s.dir], exported, p)) =>
         Carries(s, art'[s.dir], exported', p)

\* The fields of a state that is changed in some of them.
LEMMA AtFields ==
  ASSUME NEW s \in States,
         NEW at \in BeforePlay \cup AfterPlay \cup Emitting \cup {"repair", "missing", "close", "done", "dead"}
  PROVE  LET t == [s EXCEPT !.at = at] IN
    /\ t \in States /\ t.at = at /\ t.round = s.round /\ t.dir = s.dir /\ t.played = s.played /\ t.code = s.code
    /\ t.summary = s.summary /\ t.manifest = s.manifest /\ t.journal = s.journal /\ t.heads = s.heads
  BY DEF States

\* An exit code changes that field alone.
LEMMA CodeFields ==
  ASSUME NEW s \in States, NEW code PROVE LET t == [s EXCEPT !.code = code] IN
    /\ t.at = s.at /\ t.round = s.round /\ t.dir = s.dir /\ t.played = s.played /\ t.code = code
    /\ t.summary = s.summary /\ t.manifest = s.manifest /\ t.journal = s.journal /\ t.heads = s.heads
  BY DEF States

\* An early exit goes to the last emission, whatever else it holds.
LEMMA FinallyFields ==
  ASSUME NEW s \in States PROVE LET t == Finally(s) IN
    /\ t.at = "summary" /\ t.round = "last" /\ t.dir = s.dir /\ t.played = s.played /\ t.code = s.code
    /\ t.summary = s.summary /\ t.manifest = s.manifest /\ t.journal = s.journal /\ t.heads = s.heads
  BY DEF States, Finally

\* The repair makes sure of a manifest.
LEMMA RepairedFields ==
  ASSUME NEW s \in States, NEW at PROVE LET t == [s EXCEPT !.at = at, !.manifest = TRUE] IN
    /\ t.at = at /\ t.round = s.round /\ t.dir = s.dir /\ t.played = s.played /\ t.code = s.code
    /\ t.summary = s.summary /\ t.manifest /\ t.journal = s.journal /\ t.heads = s.heads
  BY DEF States

\* Closing the trace ends the process.
LEMMA ClosedFields ==
  ASSUME NEW s \in States PROVE LET t == [s EXCEPT !.at = "done", !.trace = "off"] IN
    /\ t.at = "done" /\ t.round = s.round /\ t.dir = s.dir /\ t.played = s.played /\ t.code = s.code
    /\ t.summary = s.summary /\ t.manifest = s.manifest /\ t.journal = s.journal /\ t.heads = s.heads
  BY DEF States

\* The first emission has the journal that was found.
LEMMA BegunFields ==
  ASSUME NEW s \in States, NEW j, NEW trace PROVE LET t == Begun(s, j, trace) IN
    /\ t.at = "summary" /\ t.round = "first" /\ t.dir = s.dir /\ t.played = s.played /\ t.code = s.code
    /\ t.summary = s.summary /\ t.manifest = s.manifest /\ t.journal = j /\ t.heads = s.heads
  BY DEF States, Begun

\* A write that raises leads to the retry, the fallback summary or the end.
LEMMA RaisedFields ==
  ASSUME NEW s \in States PROVE LET t == Raised(s) IN
    /\ t.dir = s.dir /\ t.played = s.played /\ t.code = s.code /\ t.summary = s.summary
    /\ t.journal = s.journal /\ t.heads = s.heads
    /\ \/ s.round = "first" /\ t.round = "retry" /\ t.at = "summary" /\ t.manifest = s.manifest
       \/ s.round = "retry" /\ t.round = "retry" /\ t.at = "missing" /\ t.manifest
       \/ s.round = "last" /\ t.round = "last" /\ t.at = "close" /\ t.manifest = s.manifest
<1>1. CASE s.round = "first"
  BY <1>1 DEF Raised, States
<1>2. CASE s.round = "retry"
  BY <1>2 DEF Raised, States
<1>3. CASE s.round = "last"
  BY <1>3 DEF Raised, States
<1> QED BY <1>1, <1>2, <1>3 DEF States

\* An emission that does not raise leads to the repair or the end.
LEMMA EmittedFields ==
  ASSUME NEW s \in States PROVE LET t == Emitted(s) IN
    /\ t.at = (IF s.round = "last" THEN "close" ELSE "repair")
    /\ t.round = s.round /\ t.dir = s.dir /\ t.played = s.played /\ t.code = s.code
    /\ t.summary = s.summary /\ t.manifest = s.manifest /\ t.journal = s.journal /\ t.heads = s.heads
  BY DEF States, Emitted

\* Of the files, what is due depends on the summary and the manifest.
LEMMA DueSame ==
  ASSUME NEW s, NEW a, NEW b, NEW u, NEW p, Due(s, a, u, p),
         b.summary = a.summary, b.manifest = a.manifest
  PROVE  Due(s, b, u, p)
  BY DEF Due, Whole, Summarized, Manifested

\* And with more upsets less is.
LEMMA DueLess ==
  ASSUME NEW s, NEW a, NEW u \in Nat, NEW v \in Nat, NEW p, Due(s, a, u, p), u <= v
  PROVE  Due(s, a, v, p)
  BY DEF Due

\* A write that raises: one upset more, and the retry or the end.
LEMMA RaisedCareer ==
  ASSUME NEW s \in States, s.at \in Emitting, Career(s) PROVE Career(Raised(s))
<1> DEFINE t == Raised(s)
<1>1. /\ t.played = s.played /\ t.code = s.code /\ t.summary = s.summary
      /\ \/ s.round = "first" /\ t.round = "retry" /\ t.at = "summary" /\ t.manifest = s.manifest
         \/ s.round = "retry" /\ t.round = "retry" /\ t.at = "missing" /\ t.manifest
         \/ s.round = "last" /\ t.round = "last" /\ t.at = "close" /\ t.manifest = s.manifest
  BY RaisedFields
<1> HIDE DEF t
<1>2. Career(t)
  BY <1>1 DEF Career, BeforePlay, AfterPlay, Emitting
<1> QED BY <1>2 DEF t

\* After it what is due is one upset less.
LEMMA RaisedDue ==
  ASSUME NEW s \in States, NEW a, NEW b, NEW u \in Nat, NEW p, s.at \in {"summary", "manifest", "journal"},
         Career(s), Due(s, a, u, p), u + 1 <= 2,
         b.summary = a.summary, b.manifest = a.manifest
  PROVE  Due(Raised(s), b, u + 1, p)
<1> DEFINE t == Raised(s)
<1> SUFFICES Due(t, b, u + 1, p)
  OBVIOUS
<1>1. /\ t.played = s.played /\ t.code = s.code /\ t.summary = s.summary
      /\ \/ s.round = "first" /\ t.round = "retry" /\ t.at = "summary" /\ t.manifest = s.manifest
         \/ s.round = "retry" /\ t.round = "retry" /\ t.at = "missing" /\ t.manifest
         \/ s.round = "last" /\ t.round = "last" /\ t.at = "close" /\ t.manifest = s.manifest
  BY RaisedFields
<1> HIDE DEF t
<1>2. Due(s, b, u, p)
  BY DueSame
<1>3. CASE s.round = "first"
  BY <1>1, <1>2, <1>3 DEF Due, Career, Emitting
<1>4. CASE s.round = "retry"
  BY <1>1, <1>2, <1>4 DEF Due, Emitting
<1>5. CASE s.round = "last"
  BY <1>1, <1>2, <1>5 DEF Due, Whole, Emitting
<1> QED BY <1>1, <1>3, <1>4, <1>5

Careers == \A p \in Procs : Career(proc[p])

\* The count of upsets only grows, by one.
LEMMA UpsetGrows ==
  ASSUME upsets \in 0..MaxUpsets, UNCHANGED upsets \/ Upset
  PROVE  /\ upsets \in Nat /\ upsets' \in Nat /\ upsets <= upsets'
         /\ upsets' = upsets \/ upsets' = upsets + 1
         /\ Upset => upsets' = upsets + 1 /\ upsets' # 0
  BY ArtifactConstants DEF Upset, ArtifactConstants

\* A step that leaves what matters here of all files as it was.
LEMMA QuietTurn ==
  ASSUME NEW p \in Procs, IInv, NEW s \in States, Go(p, s), s.dir = proc[p].dir,
         proc[p].at \notin {"new", "done", "dead"}, s.at # "new",
         \A d \in Dirs : /\ art'[d].summary = art[d].summary
                         /\ art'[d].manifest = art[d].manifest
                         /\ art'[d].journal = art[d].journal,
         UNCHANGED upsets \/ Upset, UNCHANGED met,
         proc[p].at \notin {"looked", "open"} => exported' = exported,
         s.at \in Telling => proc[p].at \in Telling,
         Career(s),
         (upsets' <= 2 /\ Due(proc[p], art[s.dir], upsets, p)) => Due(s, art'[s.dir], upsets', p),
         (upsets' = 0 /\ Carries(proc[p], art[s.dir], exported, p)) =>
           Carries(s, art'[s.dir], exported', p)
  PROVE  Turn(p)
<1>1. upsets' \in Nat /\ upsets <= upsets'
  BY UpsetGrows DEF IInv, TypeOK
<1>2. s.dir \in Dirs
  BY DEF IInv, TypeOK
<1>3. Moves(p, s)
  BY <1>1 DEF Moves, Go
<1>4. Leaves(p, s)
  BY <1>2 DEF Leaves
<1> QED BY <1>3, <1>4 DEF Turn

\* A process that has not played owes nothing.
LEMMA Idle ==
  ASSUME NEW s, s.played = "no", NEW a, NEW u, NEW x, NEW p PROVE Due(s, a, u, p) /\ Carries(s, a, x, p)
  BY DEF Due, Carries

\* The steps before the play, and those that leave it: no file, and no emission in between.
LEMMA EarlyTurn ==
  ASSUME NEW p \in Procs, IInv, NEW s \in States, Go(p, s), s.dir = proc[p].dir,
         proc[p].at \in BeforePlay \ {"new"}, s.at \notin Telling \cup {"new"},
         s.played = "no" \/ s.at = "played", Career(s),
         UNCHANGED <<art, exported, upsets, met>>
  PROVE  Turn(p)
<1>1. Due(s, art'[s.dir], upsets', p) /\ Carries(s, art'[s.dir], exported', p)
  BY DEF Due, Carries, Emitting
<1>2. proc[p].at \notin {"new", "done", "dead"}
  BY DEF BeforePlay
<1> QED BY <1>1, <1>2, QuietTurn

\* An early exit before the play.
LEMMA FinallyEarly ==
  ASSUME NEW p \in Procs, IInv, Careers, NEW s \in States, Go(p, Finally(s)), s.dir = proc[p].dir,
         proc[p].at \in BeforePlay \ {"new"}, s.played = proc[p].played,
         UNCHANGED <<art, exported, upsets, met>>
  PROVE  Turn(p)
<1> DEFINE t == Finally(s)
<1>1. t \in States /\ t.dir = s.dir /\ t.at = "summary" /\ t.played = s.played
  BY FinallyTyped
<1>2. Go(p, t)
  OBVIOUS
<1> HIDE DEF t
<1>3. s.played = "no"
  BY DEF Careers, Career
<1>4. Career(t) /\ t.at \notin Telling \cup {"new"}
  BY <1>1, <1>3 DEF Career, BeforePlay, AfterPlay, Telling
<1> QED BY <1>1, <1>2, <1>3, <1>4, EarlyTurn

\* Validating, with its exits.
LEMMA ValidateTurn ==
  ASSUME NEW p \in Procs, IInv, Careers, Validate(p) PROVE Turn(p)
<1>1. /\ proc[p] \in States /\ proc[p].at = "prepared" /\ proc[p].at \in BeforePlay \ {"new"}
      /\ UNCHANGED <<art, exported, upsets, met>> /\ Career(proc[p])
  BY DEF IInv, TypeOK, Careers, Validate, BeforePlay
<1>2. CASE Go(p, [proc[p] EXCEPT !.at = "valid"])
  <2> DEFINE s == [proc[p] EXCEPT !.at = "valid"]
  <2>1. /\ s \in States /\ s.at = "valid" /\ s.dir = proc[p].dir /\ s.played = proc[p].played
        /\ s.code = proc[p].code
    BY <1>1, AtFields DEF BeforePlay
  <2>2. Go(p, s)
    BY <1>2
  <2> HIDE DEF s
  <2>3. Career(s) /\ s.played = "no" /\ s.at \notin Telling \cup {"new"}
    BY <1>1, <2>1 DEF Career, BeforePlay, Telling
  <2> QED BY <1>1, <2>1, <2>2, <2>3, EarlyTurn
<1>3. ASSUME NEW code \in {"1", "raised"}, Go(p, Finally([proc[p] EXCEPT !.code = code]))
      PROVE  Turn(p)
  <2> DEFINE s == [proc[p] EXCEPT !.code = code]
  <2>1. s \in States /\ s.dir = proc[p].dir /\ s.played = proc[p].played
    <3>1. code \in {"none", "0", "1", "2", "raised"}
      BY <1>3
    <3> QED BY <1>1, <3>1, CodeTyped
  <2>2. Go(p, Finally(s))
    BY <1>3
  <2> HIDE DEF s
  <2> QED BY <1>1, <2>1, <2>2, FinallyEarly
<1> QED BY <1>2, <1>3 DEF Validate

\* Attaching an engine, with its exits, one of which returns 0.
LEMMA AttachTurn ==
  ASSUME NEW p \in Procs, IInv, Careers, Attach(p) PROVE Turn(p)
<1>1. /\ proc[p] \in States /\ proc[p].at = "valid" /\ proc[p].at \in BeforePlay \ {"new"}
      /\ UNCHANGED <<art, exported, upsets, met>> /\ Career(proc[p])
  BY DEF IInv, TypeOK, Careers, Attach, BeforePlay
<1>2. CASE Go(p, [proc[p] EXCEPT !.at = "attached"])
  <2> DEFINE s == [proc[p] EXCEPT !.at = "attached"]
  <2>1. /\ s \in States /\ s.at = "attached" /\ s.dir = proc[p].dir /\ s.played = proc[p].played
        /\ s.code = proc[p].code
    BY <1>1, AtFields DEF BeforePlay
  <2>2. Go(p, s)
    BY <1>2
  <2> HIDE DEF s
  <2>3. Career(s) /\ s.played = "no" /\ s.at \notin Telling \cup {"new"}
    BY <1>1, <2>1 DEF Career, BeforePlay, Telling
  <2> QED BY <1>1, <2>1, <2>2, <2>3, EarlyTurn
<1>3. CASE Go(p, Finally([proc[p] EXCEPT !.code = "2"]))
  BY <1>1, <1>3, CodeTyped, FinallyEarly
<1>4. CASE Go(p, Finally([proc[p] EXCEPT !.code = "0", !.summary = "engine_unavailable",
                                         !.manifest = TRUE]))
  <2> DEFINE s == [proc[p] EXCEPT !.code = "0", !.summary = "engine_unavailable", !.manifest = TRUE]
  <2>1. s \in States /\ s.dir = proc[p].dir /\ s.played = proc[p].played
    BY <1>1, SoftTyped DEF States
  <2>2. Go(p, Finally(s))
    BY <1>4
  <2> HIDE DEF s
  <2> QED BY <1>1, <2>1, <2>2, FinallyEarly
<1> QED BY <1>2, <1>3, <1>4 DEF Attach

\* The play: from here on something is due.
LEMMA RollsTurn ==
  ASSUME NEW p \in Procs, IInv, Careers, RunTableRolls(p) PROVE Turn(p)
<1>1. /\ proc[p] \in States /\ proc[p].at = "attached" /\ proc[p].at \in BeforePlay \ {"new"}
      /\ UNCHANGED <<art, exported, upsets, met>> /\ Career(proc[p])
  BY DEF IInv, TypeOK, Careers, RunTableRolls, BeforePlay
<1>2. ASSUME NEW played \in Drives, Go(p, Summed(proc[p], played)) PROVE Turn(p)
  <2> DEFINE s == Summed(proc[p], played)
  <2>1. /\ s \in States /\ s.at = "played" /\ s.dir = proc[p].dir /\ s.summary = "ok"
    BY <1>1, SummedTyped, ArtifactConstants DEF ArtifactConstants
  <2>2. s.code = proc[p].code
    BY <1>1 DEF Summed, States
  <2>3. Go(p, s)
    BY <1>2
  <2> HIDE DEF s
  <2>4. Career(s) /\ s.at \notin Telling \cup {"new"}
    BY <1>1, <2>1, <2>2 DEF Career, BeforePlay, AfterPlay, Telling
  <2> QED BY <1>1, <2>1, <2>3, <2>4, EarlyTurn
<1>3. CASE Go(p, Finally([proc[p] EXCEPT !.code = "2"]))
  BY <1>1, <1>3, CodeTyped, FinallyEarly
<1> QED BY <1>2, <1>3 DEF RunTableRolls

\* The files that count here, before and after.
Kept(d) ==
  art'[d].summary = art[d].summary /\ art'[d].manifest = art[d].manifest /\ art'[d].journal = art[d].journal

\* A change of decisions.csv leaves the other three.
LEMMA DecisionsKept ==
  ASSUME NEW d \in Dirs, NEW v, art \in [Dirs -> Contents],
         art' = [art EXCEPT ![d].decisions = v]
  PROVE  \A e \in Dirs : Kept(e)
<1>1. LET b == [art[d] EXCEPT !.decisions = v]
      IN  b.summary = art[d].summary /\ b.manifest = art[d].manifest /\ b.journal = art[d].journal
  BY DEF Contents
<1> QED BY <1>1 DEF Kept

\* Taking a directory: the only step in which a process meets others.
LEMMA PrepareTurn ==
  ASSUME NEW p \in Procs, IInv, Careers, Prepare(p) PROVE Turn(p)
<1>1. /\ proc[p] \in States /\ proc[p].at = "new" /\ UNCHANGED exported
      /\ art \in [Dirs -> Contents] /\ upsets \in 0..MaxUpsets
      /\ met' = IF Working = {} THEN met ELSE met \cup Working \cup {p}
      /\ Career(proc[p]) /\ proc[p].played = "no"
  BY DEF IInv, TypeOK, Careers, Career, BeforePlay, Prepare
<1>2. PICK d \in Ids : TakeDir(p, d)
  BY DEF Prepare
<1>3. d \in Dirs
  BY ArtifactConstants DEF ArtifactConstants
<1> DEFINE ready == [proc[p] EXCEPT !.at = "prepared", !.dir = d]
<1>4. PICK s \in States :
        /\ Go(p, s) /\ s.dir = d /\ s.played = "no" /\ s.summary = proc[p].summary
        /\ s.at \in {"prepared", "done"} /\ (s.at = "prepared" => s.code = "none")
        /\ UNCHANGED upsets \/ Upset
        /\ s.at = "done" => Upset
        /\ \A e \in Dirs : Kept(e)
  <2>1. /\ ready \in States /\ ready.dir = d /\ ready.at = "prepared" /\ ready.played = "no"
        /\ ready.summary = proc[p].summary /\ ready.code = "none"
    BY <1>1, <1>3, ReadyTyped DEF States, Career, BeforePlay
  <2> HIDE DEF ready
  <2>2. CASE Go(p, ready) /\ UNCHANGED <<art, upsets>>
    BY <2>1, <2>2 DEF Kept
  <2>3. CASE /\ Go(p, [ready EXCEPT !.trace = "empty"])
             /\ art' = [art EXCEPT ![d].decisions = "empty"] /\ UNCHANGED upsets
    <3> DEFINE s == [ready EXCEPT !.trace = "empty"]
    <3>1. /\ s \in States /\ s.dir = d /\ s.at = "prepared" /\ s.played = "no"
          /\ s.summary = proc[p].summary /\ s.code = "none"
      BY <2>1 DEF States, Traces
    <3>2. Go(p, s)
      BY <2>3
    <3> HIDE DEF s
    <3> QED BY <1>1, <1>3, <2>3, <3>1, <3>2, DecisionsKept
  <2>4. CASE /\ Upset /\ Go(p, [ready EXCEPT !.at = "done", !.code = "raised"])
             /\ UNCHANGED art
    <3> DEFINE s == [ready EXCEPT !.at = "done", !.code = "raised"]
    <3>1. /\ s \in States /\ s.dir = d /\ s.at = "done" /\ s.played = "no"
          /\ s.summary = proc[p].summary
      BY <2>1 DEF States
    <3>2. Go(p, s)
      BY <2>4
    <3> HIDE DEF s
    <3> QED BY <2>4, <3>1, <3>2 DEF Kept
  <2> QED BY <1>2, <2>2, <2>3, <2>4 DEF TakeDir, ready
<1>5. /\ upsets' \in Nat /\ upsets <= upsets' /\ (upsets' = 0 => s.at # "done")
  BY <1>1, <1>4, UpsetGrows
<1>6. Moves(p, s)
  BY <1>1, <1>4, <1>5 DEF Moves, Go, Kept
<1>7. Leaves(p, s)
  BY <1>1, <1>3, <1>4, <1>5 DEF Leaves, Kept, Telling
<1>8. Career(s)
  BY <1>1, <1>4 DEF Career, BeforePlay, AfterPlay
<1> QED BY <1>4, <1>6, <1>7, <1>8, Idle DEF Turn

\* Looking at it leaves it.
LEMMA LookAtJournalTurn ==
  ASSUME NEW p \in Procs, IInv, Careers, LookAtJournal(p) PROVE Turn(p)
<1> DEFINE h == ~(exported.there /\ exported.headed)
           s == [proc[p] EXCEPT !.at = "looked", !.heads = h]
<1>1. /\ proc[p] \in States /\ proc[p].at = "played" /\ UNCHANGED <<art, exported, upsets, met>>
      /\ Career(proc[p]) /\ Go(p, s)
  BY DEF IInv, TypeOK, Careers, LookAtJournal
<1>2. h \in BOOLEAN
  OBVIOUS
<1> HIDE DEF h
<1>3. /\ s \in States /\ s.at = "looked" /\ s.round = proc[p].round /\ s.dir = proc[p].dir
      /\ s.played = proc[p].played /\ s.code = proc[p].code
      /\ s.summary = proc[p].summary /\ s.manifest = proc[p].manifest
  BY <1>1, <1>2, LookedTyped
<1> HIDE DEF s
<1>4. Career(s)
  BY <1>1, <1>3 DEF Career, BeforePlay, AfterPlay
<1>5. Due(s, art'[s.dir], upsets', p)
  BY <1>1, <1>3 DEF Due, Emitting, Career, AfterPlay
<1>6. Carries(s, art'[s.dir], exported', p)
  BY <1>3 DEF Carries, Emitting
<1>7. s.at \notin Telling \cup {"new"}
  BY <1>3 DEF Telling
<1> QED BY <1>1, <1>3, <1>4, <1>5, <1>6, <1>7, QuietTurn

\* Opening export/journal.csv, which truncates it.
LEMMA OpenJournalTurn ==
  ASSUME NEW p \in Procs, IInv, Careers, OpenJournal(p) PROVE Turn(p)
<1>1. /\ proc[p] \in States /\ proc[p].at = "looked" /\ UNCHANGED <<art, met>> /\ Career(proc[p])
  BY DEF IInv, TypeOK, Careers, OpenJournal
<1>2. PICK at \in {"open", "captured", "failed"} :
        /\ Go(p, [proc[p] EXCEPT !.at = at])
        /\ \/ at = "open" /\ exported' = Emptied /\ UNCHANGED upsets
           \/ Upset
  BY DEF OpenJournal, Opened, OpenMode
<1> DEFINE s == [proc[p] EXCEPT !.at = at]
<1>3. /\ s \in States /\ s.at = at /\ s.round = proc[p].round /\ s.dir = proc[p].dir
      /\ s.played = proc[p].played /\ s.code = proc[p].code
      /\ s.summary = proc[p].summary /\ s.manifest = proc[p].manifest /\ s.heads = proc[p].heads
  <2>1. at \in AfterPlay
    BY <1>2 DEF AfterPlay
  <2> QED BY <1>1, <2>1, AtFields
<1>4. Go(p, s)
  BY <1>2
<1> HIDE DEF s
<1>5. Career(s)
  BY <1>1, <1>2, <1>3 DEF Career, BeforePlay, AfterPlay
<1>6. Due(s, art'[s.dir], upsets', p)
  BY <1>1, <1>2, <1>3 DEF Due, Emitting, Career, AfterPlay
<1>7. upsets' = 0 => Carries(s, art'[s.dir], exported', p)
  <2>1. Upset => upsets' # 0
    BY UpsetGrows DEF IInv, TypeOK
  <2> QED BY <1>2, <1>3, <2>1 DEF Carries, Emitting
<1>8. s.at \notin Telling \cup {"new"}
  BY <1>2, <1>3 DEF Telling
<1> QED BY <1>1, <1>2, <1>3, <1>4, <1>5, <1>6, <1>7, <1>8, QuietTurn

\* Writing the row: export/ holds that of the process alone.
LEMMA WriteSummaryTurn ==
  ASSUME NEW p \in Procs, IInv, Careers, WriteSummary(p) PROVE Turn(p)
<1>1. /\ proc[p] \in States /\ proc[p].at = "open" /\ UNCHANGED <<art, met>> /\ Career(proc[p])
      /\ Go(p, [proc[p] EXCEPT !.at = "captured"])
  BY DEF IInv, TypeOK, Careers, WriteSummary
<1>2. \/ exported' = Written(p) /\ UNCHANGED upsets
      \/ Upset
  BY DEF WriteSummary
<1> DEFINE s == [proc[p] EXCEPT !.at = "captured"]
<1>3. /\ s \in States /\ s.at = "captured" /\ s.round = proc[p].round /\ s.dir = proc[p].dir
      /\ s.played = proc[p].played /\ s.code = proc[p].code
      /\ s.summary = proc[p].summary /\ s.manifest = proc[p].manifest /\ s.heads = proc[p].heads
  BY <1>1, AtFields DEF AfterPlay
<1>4. Go(p, s)
  BY <1>1
<1> HIDE DEF s
<1>5. Career(s)
  BY <1>1, <1>3 DEF Career, BeforePlay, AfterPlay
<1>6. Due(s, art'[s.dir], upsets', p)
  BY <1>1, <1>3 DEF Due, Emitting, Career, AfterPlay
<1>7. (upsets' = 0 /\ Carries(proc[p], art[s.dir], exported, p)) =>
        Carries(s, art'[s.dir], exported', p)
  <2>1. Upset => upsets' # 0
    BY UpsetGrows DEF IInv, TypeOK
  <2>2. exported = Emptied => Written(p) = Exported(p, proc[p].heads)
    <3>1. ~Emptied.headed
      BY DEF Emptied
    <3> QED BY <3>1 DEF Written, OpenMode, Exported
  <2>3. SUFFICES ASSUME upsets' = 0, Carries(proc[p], art[s.dir], exported, p), s.played # "no"
                 PROVE  exported' = Exported(p, s.heads)
    BY <1>3 DEF Carries, Emitting
  <2> QED BY <1>1, <1>2, <1>3, <2>1, <2>2, <2>3 DEF Carries
<1>8. s.at \notin Telling \cup {"new"}
  BY <1>3 DEF Telling
<1> QED BY <1>1, <1>2, <1>3, <1>4, <1>5, <1>6, <1>7, <1>8, QuietTurn

\* What SummaryRow does to the files that count here: nothing.
LEMMA RowKept ==
  ASSUME NEW p \in Procs, IInv, proc[p].at # "new", NEW trace, SummaryRow(p, trace)
  PROVE  (\A d \in Dirs : Kept(d)) /\ (UNCHANGED upsets \/ Upset)
<1>1. proc[p].dir \in Dirs /\ art \in [Dirs -> Contents]
  BY DEF IInv, TypeOK
<1>2. CASE art' = [art EXCEPT ![proc[p].dir].decisions = "rowed"]
  BY <1>1, <1>2, DecisionsKept DEF SummaryRow
<1>3. CASE UNCHANGED art
  BY <1>3 DEF Kept, SummaryRow
<1> QED BY <1>2, <1>3 DEF SummaryRow

\* Finalize looks for the journal in export/ and begins the first emission.
LEMMA FinalizeTurn ==
  ASSUME NEW p \in Procs, IInv, Careers, Finalize(p) PROVE Turn(p)
<1>1. /\ proc[p] \in States /\ proc[p].at \in {"captured", "failed"} /\ UNCHANGED <<exported, met>>
      /\ Career(proc[p]) /\ exported.there \in BOOLEAN
  BY DEF IInv, TypeOK, Careers, Finalize, Exports
<1>2. PICK trace \in Traces : SummaryRow(p, trace) /\ Go(p, Begun(proc[p], JournalFound(p), trace))
  BY DEF Finalize
<1>3. (\A d \in Dirs : Kept(d)) /\ (UNCHANGED upsets \/ Upset)
  BY <1>1, <1>2, RowKept
<1> DEFINE j == JournalFound(p)
           s == Begun(proc[p], j, trace)
<1>4. j \in BOOLEAN
  BY <1>1 DEF JournalFound
<1>5. /\ s \in States /\ s.at = "summary" /\ s.round = "first" /\ s.dir = proc[p].dir
      /\ s.played = proc[p].played /\ s.code = proc[p].code
      /\ s.summary = proc[p].summary /\ s.manifest = proc[p].manifest /\ s.heads = proc[p].heads /\ s.journal = j
  BY <1>1, <1>4, BegunTyped, BegunFields
<1>6. Go(p, s)
  BY <1>2
<1> HIDE DEF s
<1>7. Career(s)
  BY <1>1, <1>5 DEF Career, BeforePlay, AfterPlay
<1>8. Due(s, art'[s.dir], upsets', p)
  BY <1>1, <1>5 DEF Due, Emitting, Career, AfterPlay
<1>9. Carries(proc[p], art[s.dir], exported, p) => Carries(s, art'[s.dir], exported', p)
  <2>1. Exported(p, proc[p].heads).there
    BY DEF Exported
  <2> QED BY <1>1, <1>5, <2>1 DEF Carries, Emitting, JournalFound
<1>10. s.at \notin Telling \cup {"new"}
  BY <1>5 DEF Telling
<1> QED BY <1>1, <1>3, <1>5, <1>6, <1>7, <1>8, <1>9, <1>10, QuietTurn DEF Kept

\* Closing the trace: what was due by then is on disk.
LEMMA CloseTraceTurn ==
  ASSUME NEW p \in Procs, IInv, Careers, CloseTrace(p) PROVE Turn(p)
<1>1. /\ proc[p] \in States /\ proc[p].at = "close" /\ UNCHANGED <<exported, met>>
      /\ Career(proc[p]) /\ upsets \in 0..MaxUpsets /\ proc[p].dir \in Dirs
  BY DEF IInv, TypeOK, Careers, CloseTrace
<1>2. (\A d \in Dirs : Kept(d)) /\ (UNCHANGED upsets \/ Upset)
  <2>1. PICK trace \in Traces : SummaryRow(p, trace)
    BY DEF CloseTrace
  <2> QED BY <1>1, <2>1, RowKept
<1> DEFINE s == [proc[p] EXCEPT !.at = "done", !.trace = "off"]
<1>3. /\ s \in States /\ s.at = "done" /\ s.round = proc[p].round /\ s.dir = proc[p].dir
      /\ s.played = proc[p].played /\ s.code = proc[p].code
      /\ s.summary = proc[p].summary /\ s.manifest = proc[p].manifest /\ s.heads = proc[p].heads
  BY <1>1, ClosedTyped, ClosedFields
<1>4. Go(p, s)
  BY DEF CloseTrace
<1> HIDE DEF s
<1>5. Career(s)
  BY <1>1, <1>3 DEF Career, BeforePlay, AfterPlay
<1>6. Due(proc[p], art[s.dir], upsets, p) => Due(s, art'[s.dir], upsets', p)
  <2>1. Due(proc[p], art[s.dir], upsets, p) => Due(s, art[s.dir], upsets', p)
    BY <1>1, <1>3 DEF Due, Emitting
  <2> QED BY <1>1, <1>2, <1>3, <2>1, DueSame DEF Kept
<1>7. Carries(proc[p], art[s.dir], exported, p) => Carries(s, art'[s.dir], exported', p)
  BY <1>1, <1>2, <1>3 DEF Carries, Kept, Emitting
<1>8. s.at \notin Telling \cup {"new"}
  BY <1>3 DEF Telling
<1> QED BY <1>1, <1>2, <1>3, <1>4, <1>5, <1>6, <1>7, <1>8, QuietTurn DEF Kept

(***************************************************************************)
(* The emissions.                                                          *)
(***************************************************************************)
\* What is written of the files of a directory, and what is not.
LEMMA SummaryPut ==
  ASSUME NEW d \in Dirs, NEW r, art \in [Dirs -> Contents], art' = [art EXCEPT ![d].summary = r]
  PROVE  /\ \A e \in Dirs \ {d} : Kept(e)
         /\ art'[d].summary = r /\ art'[d].manifest = art[d].manifest /\ art'[d].journal = art[d].journal
<1>1. LET b == [art[d] EXCEPT !.summary = r]
      IN  b.summary = r /\ b.manifest = art[d].manifest /\ b.journal = art[d].journal
  BY DEF Contents
<1> QED BY <1>1 DEF Kept

\* The same of its manifest.
LEMMA ManifestPut ==
  ASSUME NEW d \in Dirs, NEW r, art \in [Dirs -> Contents], art' = [art EXCEPT ![d].manifest = r]
  PROVE  /\ \A e \in Dirs \ {d} : Kept(e)
         /\ art'[d].summary = art[d].summary /\ art'[d].manifest = r /\ art'[d].journal = art[d].journal
<1>1. LET b == [art[d] EXCEPT !.manifest = r]
      IN  b.summary = art[d].summary /\ b.manifest = r /\ b.journal = art[d].journal
  BY DEF Contents
<1> QED BY <1>1 DEF Kept

\* And of its journal.
LEMMA JournalPut ==
  ASSUME NEW d \in Dirs, NEW j, art \in [Dirs -> Contents], PutJournal(d, j)
  PROVE  /\ \A e \in Dirs \ {d} : Kept(e)
         /\ art'[d].summary = art[d].summary /\ art'[d].manifest = art[d].manifest /\ art'[d].journal = j
<1>1. LET b == [art[d] EXCEPT !.journal = j]
      IN  b.summary = art[d].summary /\ b.manifest = art[d].manifest /\ b.journal = j
  BY DEF Contents
<1>2. art' = [art EXCEPT ![d].journal = j]
  BY DEF PutJournal
<1> QED BY <1>1, <1>2 DEF Kept

\* A write that raises.
LEMMA RaisedTurn ==
  ASSUME NEW p \in Procs, IInv, Careers, Go(p, Raised(proc[p])), Upset,
         proc[p].at \in {"summary", "manifest", "journal"},
         \A d \in Dirs \ {proc[p].dir} : Kept(d),
         art'[proc[p].dir].summary = art[proc[p].dir].summary,
         art'[proc[p].dir].manifest = art[proc[p].dir].manifest,
         proc[p].at = "journal" \/ art'[proc[p].dir].journal = art[proc[p].dir].journal,
         UNCHANGED <<exported, met>>
  PROVE  Turn(p)
<1> DEFINE s == Raised(proc[p])
<1>1. proc[p] \in States /\ Career(proc[p]) /\ upsets \in 0..MaxUpsets
  BY DEF IInv, TypeOK, Careers
<1>2. s \in States /\ s.dir = proc[p].dir /\ s.at \in {"summary", "missing", "close"}
  BY <1>1, RaisedTyped, RaisedFields
<1>3. upsets \in Nat /\ upsets' = upsets + 1 /\ upsets' # 0 /\ upsets' \in Nat /\ upsets <= upsets'
  BY <1>1, UpsetGrows
<1>4. Career(s)
  BY <1>1, RaisedCareer DEF Emitting
<1>5. (upsets' <= 2 /\ Due(proc[p], art[s.dir], upsets, p)) => Due(s, art'[s.dir], upsets', p)
  <2>1. PICK o, a, b, u : o = proc[p] /\ a = art[s.dir] /\ b = art'[s.dir] /\ u = upsets
    OBVIOUS
  <2>2. /\ o \in States /\ u \in Nat /\ o.at \in {"summary", "manifest", "journal"} /\ Career(o)
        /\ b.summary = a.summary /\ b.manifest = a.manifest
    BY <1>1, <1>2, <1>3, <2>1
  <2>3. (u + 1 <= 2 /\ Due(o, a, u, p)) => Due(Raised(o), b, u + 1, p)
    BY <2>2, RaisedDue
  <2> QED BY <1>3, <2>1, <2>3
<1>6. Go(p, s)
  OBVIOUS
<1> HIDE DEF s
<1>7. Moves(p, s)
  BY <1>2, <1>3, <1>6 DEF Moves, Go, Kept
<1>8. Leaves(p, s)
  BY <1>2, <1>3 DEF Leaves, Telling
<1> QED BY <1>2, <1>3, <1>4, <1>5, <1>7, <1>8 DEF Turn

\* A write that does not raise, to state s.
LEMMA WriteTurn ==
  ASSUME NEW p \in Procs, IInv, Careers, NEW s \in States, Go(p, s),
         proc[p].at \in Emitting \cup {"repair", "missing"}, s.at # "new",
         s.dir = proc[p].dir, \A d \in Dirs \ {proc[p].dir} : Kept(d),
         UNCHANGED upsets \/ Upset, UNCHANGED <<exported, met>>,
         Leaves(p, s), Career(s),
         (upsets' <= 2 /\ Due(proc[p], art[s.dir], upsets, p)) => Due(s, art'[s.dir], upsets', p),
         (upsets' = 0 /\ Carries(proc[p], art[s.dir], exported, p)) =>
           Carries(s, art'[s.dir], exported', p)
  PROVE  Turn(p)
<1>1. upsets' \in Nat /\ upsets <= upsets'
  BY UpsetGrows DEF IInv, TypeOK
<1>2. proc[p].at \notin {"new", "done", "dead"}
  BY DEF Emitting
<1>3. Moves(p, s)
  BY <1>1, <1>2 DEF Moves, Go, Kept
<1> QED BY <1>3 DEF Turn

\* The summary says ok when the process played.
LEMMA EmitSummaryTurn ==
  ASSUME NEW p \in Procs, IInv, Careers, EmitSummary(p) PROVE Turn(p)
<1>1. /\ proc[p] \in States /\ proc[p].at = "summary" /\ UNCHANGED <<exported, met>>
      /\ Career(proc[p]) /\ proc[p].dir \in Dirs /\ art \in [Dirs -> Contents]
      /\ upsets \in 0..MaxUpsets /\ proc[p].at \in Emitting
  BY DEF IInv, TypeOK, Careers, EmitSummary, Emitting
<1>2. CASE /\ art' = [art EXCEPT ![proc[p].dir].summary = [by |-> p, says |-> SummaryOf(proc[p])]]
           /\ Go(p, [proc[p] EXCEPT !.at = "manifest"])
           /\ UNCHANGED upsets
  <2> DEFINE s == [proc[p] EXCEPT !.at = "manifest"]
             d == proc[p].dir
             r == [by |-> p, says |-> SummaryOf(proc[p])]
  <2>1. /\ s \in States /\ s.at = "manifest" /\ s.round = proc[p].round /\ s.dir = proc[p].dir
        /\ s.played = proc[p].played /\ s.code = proc[p].code /\ s.journal = proc[p].journal
        /\ s.summary = proc[p].summary /\ s.manifest = proc[p].manifest /\ s.heads = proc[p].heads
    BY <1>1, AtFields DEF Emitting
  <2>2. Go(p, s)
    BY <1>2
  <2>3. art' = [art EXCEPT ![d].summary = r]
    BY <1>2
  <2>4. r.by = p /\ (proc[p].played # "no" => r = [by |-> p, says |-> "ok"])
    BY <1>1, SummaryOfTold DEF Career, Told
  <2>5. d = proc[p].dir
    OBVIOUS
  <2> HIDE DEF s, d, r
  <2>6. /\ \A e \in Dirs \ {d} : Kept(e)
        /\ art'[d].summary = r /\ art'[d].manifest = art[d].manifest /\ art'[d].journal = art[d].journal
    BY <1>1, <2>3, <2>5, SummaryPut
  <2>7. Leaves(p, s)
    BY <1>1, <2>1, <2>4, <2>5, <2>6 DEF Leaves
  <2>8. Career(s)
    BY <1>1, <2>1 DEF Career, BeforePlay, AfterPlay
  <2>9. Due(proc[p], art[s.dir], upsets, p) => Due(s, art'[s.dir], upsets', p)
    BY <1>1, <1>2, <2>1, <2>4, <2>5, <2>6 DEF Due, Emitting, Whole, Summarized, Manifested
  <2>10. Carries(proc[p], art[s.dir], exported, p) => Carries(s, art'[s.dir], exported', p)
    BY <1>1, <2>1, <2>5, <2>6 DEF Carries, Emitting
  <2> QED BY <1>1, <1>2, <2>1, <2>2, <2>5, <2>6, <2>7, <2>8, <2>9, <2>10, WriteTurn
<1>3. CASE Upset /\ Go(p, Raised(proc[p])) /\ UNCHANGED <<art, order>>
  BY <1>1, <1>3, RaisedTurn DEF Kept
<1> QED BY <1>2, <1>3 DEF EmitSummary

\* The manifest is whole unless the process holds none.
LEMMA EmitManifestTurn ==
  ASSUME NEW p \in Procs, IInv, Careers, EmitManifest(p) PROVE Turn(p)
<1>1. /\ proc[p] \in States /\ proc[p].at = "manifest" /\ UNCHANGED <<exported, met>>
      /\ Career(proc[p]) /\ proc[p].dir \in Dirs /\ art \in [Dirs -> Contents]
      /\ upsets \in 0..MaxUpsets /\ proc[p].at \in Emitting
  BY DEF IInv, TypeOK, Careers, EmitManifest, Emitting
<1>2. CASE /\ art' = [art EXCEPT ![proc[p].dir].manifest = [by |-> p, full |-> ManifestOf(proc[p])]]
           /\ Go(p, [proc[p] EXCEPT !.at = "decisions"])
           /\ UNCHANGED upsets
  <2> DEFINE s == [proc[p] EXCEPT !.at = "decisions"]
             d == proc[p].dir
             r == [by |-> p, full |-> ManifestOf(proc[p])]
  <2>1. /\ s \in States /\ s.at = "decisions" /\ s.round = proc[p].round /\ s.dir = proc[p].dir
        /\ s.played = proc[p].played /\ s.code = proc[p].code /\ s.journal = proc[p].journal
        /\ s.summary = proc[p].summary /\ s.manifest = proc[p].manifest /\ s.heads = proc[p].heads
    BY <1>1, AtFields DEF Emitting
  <2>2. Go(p, s)
    BY <1>2
  <2>3. art' = [art EXCEPT ![d].manifest = r]
    BY <1>2
  <2>4. (proc[p].round # "last" \/ (proc[p].played # "no" /\ proc[p].code = "0")) =>
          r = [by |-> p, full |-> TRUE]
    BY <1>1 DEF ManifestOf, Career, States
  <2>5. d = proc[p].dir
    OBVIOUS
  <2> HIDE DEF s, d, r
  <2>6. /\ \A e \in Dirs \ {d} : Kept(e)
        /\ art'[d].summary = art[d].summary /\ art'[d].manifest = r /\ art'[d].journal = art[d].journal
    BY <1>1, <2>3, <2>5, ManifestPut
  <2>7. Leaves(p, s)
    BY <1>1, <2>1, <2>5, <2>6 DEF Leaves, Telling
  <2>8. Career(s)
    BY <1>1, <2>1 DEF Career, BeforePlay, AfterPlay
  <2>9. Due(proc[p], art[s.dir], upsets, p) => Due(s, art'[s.dir], upsets', p)
    BY <1>1, <1>2, <2>1, <2>4, <2>5, <2>6 DEF Due, Emitting, Whole, Summarized, Manifested
  <2>10. Carries(proc[p], art[s.dir], exported, p) => Carries(s, art'[s.dir], exported', p)
    BY <1>1, <2>1, <2>5, <2>6 DEF Carries, Emitting
  <2> QED BY <1>1, <1>2, <2>1, <2>2, <2>5, <2>6, <2>7, <2>8, <2>9, <2>10, WriteTurn
<1>3. CASE Upset /\ Go(p, Raised(proc[p])) /\ UNCHANGED <<art, order>>
  BY <1>1, <1>3, RaisedTurn DEF Kept
<1> QED BY <1>2, <1>3 DEF EmitManifest

\* decisions.csv is not among what is due.
LEMMA EmitDecisionsTurn ==
  ASSUME NEW p \in Procs, IInv, Careers, EmitDecisions(p) PROVE Turn(p)
<1>1. /\ proc[p] \in States /\ proc[p].at = "decisions" /\ UNCHANGED <<exported, met>>
      /\ Career(proc[p]) /\ proc[p].dir \in Dirs /\ art \in [Dirs -> Contents]
      /\ upsets \in 0..MaxUpsets /\ Go(p, [proc[p] EXCEPT !.at = "journal"])
  BY DEF IInv, TypeOK, Careers, EmitDecisions
<1>2. UNCHANGED upsets \/ Upset
  BY DEF EmitDecisions
<1>3. \A d \in Dirs : Kept(d)
  <2>1. PICK v \in {"rowed", "empty"} :
          art' = [art EXCEPT ![proc[p].dir].decisions = v] \/ art' = art
    BY DEF EmitDecisions
  <2> QED BY <1>1, <2>1, DecisionsKept DEF Kept
<1>4. upsets \in Nat /\ upsets' \in Nat /\ upsets <= upsets'
  BY <1>1, <1>2, UpsetGrows
<1> DEFINE s == [proc[p] EXCEPT !.at = "journal"]
<1>5. /\ s \in States /\ s.at = "journal" /\ s.round = proc[p].round /\ s.dir = proc[p].dir
      /\ s.played = proc[p].played /\ s.code = proc[p].code /\ s.journal = proc[p].journal
      /\ s.summary = proc[p].summary /\ s.manifest = proc[p].manifest /\ s.heads = proc[p].heads
  BY <1>1, AtFields DEF Emitting
<1>6. Go(p, s)
  BY <1>1
<1> HIDE DEF s
<1>7. Career(s)
  BY <1>1, <1>5 DEF Career, BeforePlay, AfterPlay
<1>8. Due(proc[p], art[s.dir], upsets, p) => Due(s, art'[s.dir], upsets', p)
  <2>1. Due(proc[p], art[s.dir], upsets, p) => Due(s, art[s.dir], upsets, p)
    BY <1>1, <1>5 DEF Due, Emitting
  <2>2. Due(s, art[s.dir], upsets, p) => Due(s, art'[s.dir], upsets, p)
    BY <1>1, <1>3, <1>5, DueSame DEF Kept
  <2>3. PICK b, u, v : b = art'[s.dir] /\ u = upsets /\ v = upsets'
    OBVIOUS
  <2>4. Due(s, b, u, p) => Due(s, b, v, p)
    BY <1>4, <2>3, DueLess
  <2> QED BY <2>1, <2>2, <2>3, <2>4
<1>9. Carries(proc[p], art[s.dir], exported, p) => Carries(s, art'[s.dir], exported', p)
  BY <1>1, <1>3, <1>5 DEF Carries, Kept, Emitting
<1>10. s.at \in Telling => proc[p].at \in Telling
  BY <1>1 DEF Telling
<1> QED BY <1>1, <1>2, <1>3, <1>5, <1>6, <1>7, <1>8, <1>9, <1>10, QuietTurn DEF Kept

\* What was copied from export/ is a process's own if export/ holds its row.
LEMMA CopiedOwn ==
  ASSUME NEW p \in Procs, NEW h \in BOOLEAN, exported = Exported(p, h)
  PROVE  Copied = Own(p, h) /\ ~Blank(Own(p, h))
<1>1. exported.rows = <<p>> /\ exported.headed = h /\ <<p>> # <<>>
  BY DEF Exported
<1> QED BY <1>1 DEF Copied, Own, Blank

\* The journal is copied from export/, or a stub is put; the copy may be cut short.
LEMMA EmitJournalTurn ==
  ASSUME NEW p \in Procs, IInv, Careers, EmitJournal(p) PROVE Turn(p)
<1>1. /\ proc[p] \in States /\ proc[p].at = "journal" /\ UNCHANGED <<exported, met>>
      /\ Career(proc[p]) /\ proc[p].dir \in Dirs /\ art \in [Dirs -> Contents]
      /\ upsets \in 0..MaxUpsets
  BY DEF IInv, TypeOK, Careers, EmitJournal
<1>2. UNCHANGED upsets \/ Upset
  BY DEF EmitJournal
<1>3. PICK d : d = proc[p].dir
  OBVIOUS
<1>4. /\ \A e \in Dirs \ {d} : Kept(e)
      /\ art'[d].summary = art[d].summary /\ art'[d].manifest = art[d].manifest
  <2>1. CASE \E j : PutJournal(d, j)
    BY <1>1, <1>3, <2>1, JournalPut
  <2>2. CASE UNCHANGED art
    BY <1>1, <1>3, <2>2 DEF Kept
  <2> QED BY <1>3, <2>1, <2>2 DEF EmitJournal
<1>5. CASE Go(p, Raised(proc[p])) /\ Upset
  BY <1>1, <1>3, <1>4, <1>5, RaisedTurn
<1>6. CASE Go(p, Emitted(proc[p]))
  <2> DEFINE s == Emitted(proc[p])
  <2>1. /\ s \in States /\ s.at = (IF proc[p].round = "last" THEN "close" ELSE "repair")
        /\ s.round = proc[p].round /\ s.dir = d
        /\ s.played = proc[p].played /\ s.code = proc[p].code /\ s.journal = proc[p].journal
        /\ s.summary = proc[p].summary /\ s.manifest = proc[p].manifest /\ s.heads = proc[p].heads
    BY <1>1, <1>3, EmittedTyped, EmittedFields
  <2>2. Go(p, s)
    BY <1>6
  <2> HIDE DEF s
  <2>3. Leaves(p, s)
    BY <1>1, <1>4, <2>1 DEF Leaves, Telling
  <2>4. Career(s)
    BY <1>1, <2>1 DEF Career, BeforePlay, AfterPlay
  <2>5. Due(proc[p], art[s.dir], upsets, p) => Due(s, art'[s.dir], upsets', p)
    BY <1>1, <1>4, <2>1 DEF Due, Emitting, Whole, Summarized, Manifested
  <2>6. (upsets' = 0 /\ Carries(proc[p], art[s.dir], exported, p)) =>
          Carries(s, art'[s.dir], exported', p)
    <3>1. SUFFICES ASSUME upsets' = 0, Carries(proc[p], art[s.dir], exported, p), s.played # "no"
                   PROVE  Carries(s, art'[s.dir], exported', p)
      BY DEF Carries
    <3>2. /\ proc[p].journal /\ proc[p].round # "retry" /\ exported = Exported(p, proc[p].heads)
          /\ proc[p].heads \in BOOLEAN
      BY <1>1, <2>1, <3>1 DEF Carries, Emitting, States
    <3>3. ~Upset
      BY <1>1, <3>1, UpsetGrows
    <3>4. PutJournal(d, Own(p, proc[p].heads))
      BY <1>3, <3>2, <3>3, CopiedOwn DEF EmitJournal
    <3>5. art'[d].journal = Own(p, proc[p].heads)
      BY <1>1, <1>3, <3>4, JournalPut
    <3> QED BY <1>1, <2>1, <3>2, <3>5 DEF Carries, Emitting
  <2>7. proc[p].at \in Emitting \cup {"repair", "missing"} /\ s.at # "new"
    BY <1>1, <2>1 DEF Emitting
  <2> QED BY <1>1, <1>2, <1>3, <1>4, <2>1, <2>2, <2>3, <2>4, <2>5, <2>6, <2>7, WriteTurn
<1> QED BY <1>5, <1>6 DEF EmitJournal

\* The repair touches a blank journal only.
LEMMA RepairTurn ==
  ASSUME NEW p \in Procs, IInv, Careers, Repair(p) PROVE Turn(p)
<1>1. /\ proc[p] \in States /\ proc[p].at = "repair" /\ UNCHANGED <<exported, met>>
      /\ Career(proc[p]) /\ proc[p].dir \in Dirs /\ art \in [Dirs -> Contents]
      /\ upsets \in 0..MaxUpsets
      /\ Go(p, [proc[p] EXCEPT !.at = "missing", !.manifest = TRUE])
  BY DEF IInv, TypeOK, Careers, Repair
<1>2. UNCHANGED upsets \/ Upset
  BY DEF Repair
<1>3. PICK d : d = proc[p].dir
  OBVIOUS
<1>4. /\ \A e \in Dirs \ {d} : Kept(e)
      /\ art'[d].summary = art[d].summary /\ art'[d].manifest = art[d].manifest
      /\ ~Blank(art[d].journal) => art'[d].journal = art[d].journal
  <2>1. CASE Blank(art[d].journal) /\ \E j : PutJournal(d, j)
    BY <1>1, <1>3, <2>1, JournalPut
  <2>2. CASE UNCHANGED art
    BY <1>1, <1>3, <2>2 DEF Kept
  <2> QED BY <1>3, <2>1, <2>2 DEF Repair
<1> DEFINE s == [proc[p] EXCEPT !.at = "missing", !.manifest = TRUE]
<1>5. /\ s \in States /\ s.at = "missing" /\ s.round = proc[p].round /\ s.dir = d
      /\ s.played = proc[p].played /\ s.code = proc[p].code /\ s.journal = proc[p].journal
      /\ s.summary = proc[p].summary /\ s.manifest /\ s.heads = proc[p].heads
  BY <1>1, <1>3, RepairedTyped, RepairedFields
<1>6. Go(p, s)
  BY <1>1
<1> HIDE DEF s
<1>7. Leaves(p, s)
  BY <1>1, <1>4, <1>5 DEF Leaves, Telling
<1>8. Career(s)
  BY <1>1, <1>5 DEF Career, BeforePlay, AfterPlay
<1>9. Due(proc[p], art[s.dir], upsets, p) => Due(s, art'[s.dir], upsets', p)
  BY <1>1, <1>4, <1>5 DEF Due, Emitting, Whole, Summarized, Manifested
<1>10. Carries(proc[p], art[s.dir], exported, p) => Carries(s, art'[s.dir], exported', p)
  <2>1. ~Blank(Own(p, proc[p].heads))
    BY DEF Blank, Own
  <2> QED BY <1>1, <1>4, <1>5, <2>1 DEF Carries, Emitting
<1> QED BY <1>1, <1>2, <1>3, <1>4, <1>5, <1>6, <1>7, <1>8, <1>9, <1>10, WriteTurn

\* A summary that is there is left, one that is not was an upset: two, with the retry.
LEMMA EnsureSummaryTurn ==
  ASSUME NEW p \in Procs, IInv, Careers, EnsureSummary(p) PROVE Turn(p)
<1>1. /\ proc[p] \in States /\ proc[p].at = "missing" /\ UNCHANGED <<exported, met>>
      /\ Career(proc[p]) /\ proc[p].dir \in Dirs /\ art \in [Dirs -> Contents]
      /\ upsets \in 0..MaxUpsets
  BY DEF IInv, TypeOK, Careers, EnsureSummary
<1>2. UNCHANGED upsets \/ Upset
  BY DEF EnsureSummary
<1>3. PICK d : d = proc[p].dir
  OBVIOUS
<1>4. /\ \A e \in Dirs \ {d} : Kept(e)
      /\ art'[d].manifest = art[d].manifest /\ art'[d].journal = art[d].journal
      /\ art'[d].summary = art[d].summary \/ art'[d].summary.by = p
      /\ art[d].summary.by # NoOne => art'[d].summary = art[d].summary
  <2>1. CASE art[d].summary.by = NoOne /\ art' = [art EXCEPT ![d].summary = [by |-> p, says |-> FallbackResult(proc[p])]]
    <3> DEFINE r == [by |-> p, says |-> FallbackResult(proc[p])]
    <3>1. art' = [art EXCEPT ![d].summary = r] /\ r.by = p
      BY <2>1
    <3> HIDE DEF r
    <3> QED BY <1>1, <1>3, <2>1, <3>1, SummaryPut
  <2>2. CASE UNCHANGED art
    BY <1>1, <1>3, <2>2 DEF Kept
  <2> QED BY <1>3, <2>1, <2>2 DEF EnsureSummary
<1> DEFINE t == [proc[p] EXCEPT !.code = "0"]
           s == Finally(t)
<1>5. /\ s \in States /\ s.at = "summary" /\ s.round = "last" /\ s.dir = d
      /\ s.played = proc[p].played /\ s.code = "0" /\ s.journal = proc[p].journal
      /\ s.summary = proc[p].summary /\ s.manifest = proc[p].manifest /\ s.heads = proc[p].heads
  <2>1. /\ t \in States /\ t.dir = d /\ t.played = proc[p].played /\ t.code = "0"
        /\ t.journal = proc[p].journal /\ t.summary = proc[p].summary /\ t.manifest = proc[p].manifest /\ t.heads = proc[p].heads
    <3>1. t \in States /\ t.dir = d /\ t.summary = proc[p].summary /\ t.played = proc[p].played
      BY <1>1, <1>3, CodeTyped
    <3>2. t.code = "0" /\ t.journal = proc[p].journal /\ t.manifest = proc[p].manifest /\ t.heads = proc[p].heads
      BY <1>1, CodeFields
    <3> QED BY <3>1, <3>2
  <2> HIDE DEF t
  <2> QED BY <2>1, FinallyTyped, FinallyFields
<1>6. Go(p, s)
  BY DEF EnsureSummary
<1> HIDE DEF s, t
<1>7. Leaves(p, s)
  BY <1>1, <1>4, <1>5 DEF Leaves, Telling
<1>8. Career(s)
  BY <1>1, <1>5 DEF Career, BeforePlay, AfterPlay
<1>9. Due(proc[p], art[s.dir], upsets, p) => Due(s, art'[s.dir], upsets', p)
  <2>1. p # NoOne /\ upsets \in Nat /\ upsets' \in Nat /\ upsets <= upsets'
    BY <1>1, <1>2, ArtifactConstants, UpsetGrows DEF ArtifactConstants
  <2>2. Whole(art[d], p) => Whole(art'[d], p)
    BY <1>4, <2>1 DEF Whole, Summarized, Manifested
  <2>3. Due(proc[p], art[s.dir], upsets, p) /\ s.played # "no" => Whole(art'[d], p) \/ upsets' >= 2
    BY <1>1, <1>5, <2>1, <2>2 DEF Due
  <2> QED BY <1>5, <2>3 DEF Due
<1>10. Carries(proc[p], art[s.dir], exported, p) => Carries(s, art'[s.dir], exported', p)
  BY <1>1, <1>4, <1>5 DEF Carries, Emitting
<1> QED BY <1>1, <1>2, <1>3, <1>4, <1>5, <1>6, <1>7, <1>8, <1>9, <1>10, WriteTurn

\* A step from outside leaves no 0 to be returned that was not on its way.
LEMMA StoppedTurn ==
  ASSUME NEW p \in Procs, IInv, NEW s \in States, Go(p, s), Upset, UNCHANGED <<art, exported, met>>,
         proc[p].at \notin {"new", "done", "dead"}, s.dir = proc[p].dir,
         \/ s.at = "dead"
         \/ s.at \in {"summary", "close"} /\ s.code = "raised" /\ s.round = "last",
         Career(s)
  PROVE  Turn(p)
<1>1. upsets' # 0
  BY UpsetGrows DEF IInv, TypeOK
<1>2. Due(s, art'[s.dir], upsets', p)
  BY DEF Due, Emitting
<1>3. s.at \notin Telling \cup {"new"}
  BY DEF Telling
<1> QED BY <1>1, <1>2, <1>3, QuietTurn

\* Control-C makes the code one that is not 0.
LEMMA InterruptTurn ==
  ASSUME NEW p \in Procs, IInv, Careers, Interrupt(p) PROVE Turn(p)
<1>1. /\ proc[p] \in States /\ proc[p].at \notin {"new", "done", "dead"} /\ Upset
      /\ UNCHANGED <<art, exported, met>> /\ Career(proc[p])
  BY DEF IInv, TypeOK, Careers, Interrupt, Working
<1>2. CASE Go(p, [proc[p] EXCEPT !.at = "close", !.code = "raised"]) /\ proc[p].round = "last"
  <2> DEFINE s == [proc[p] EXCEPT !.at = "close", !.code = "raised"]
  <2>1. /\ s \in States /\ s.at = "close" /\ s.dir = proc[p].dir /\ s.code = "raised"
        /\ s.summary = proc[p].summary /\ s.played = proc[p].played /\ s.round = "last"
    BY <1>1, <1>2, StoppedTyped DEF States
  <2>2. Go(p, s)
    BY <1>2
  <2> HIDE DEF s
  <2>3. Career(s)
    BY <1>1, <2>1 DEF Career, BeforePlay, AfterPlay
  <2> QED BY <1>1, <2>1, <2>2, <2>3, StoppedTurn
<1>3. CASE Go(p, Finally([proc[p] EXCEPT !.code = "raised"]))
  <2> DEFINE t == [proc[p] EXCEPT !.code = "raised"]
             s == Finally(t)
  <2>1. /\ t \in States /\ t.dir = proc[p].dir /\ t.code = "raised"
        /\ t.summary = proc[p].summary /\ t.played = proc[p].played
    <3>1. proc[p] \in States
      BY <1>1
    <3>2. /\ t \in States /\ t.dir = proc[p].dir
          /\ t.summary = proc[p].summary /\ t.played = proc[p].played
      BY <3>1, CodeTyped
    <3>3. t.code = "raised"
      BY <3>1 DEF States
    <3> QED BY <3>2, <3>3
  <2>2. Go(p, s)
    BY <1>3
  <2> HIDE DEF t
  <2>3. /\ s \in States /\ s.at = "summary" /\ s.round = "last" /\ s.dir = proc[p].dir
        /\ s.code = "raised" /\ s.summary = proc[p].summary /\ s.played = proc[p].played
    BY <2>1, FinallyTyped, FinallyFields
  <2> HIDE DEF s
  <2>4. Career(s)
    BY <1>1, <2>3 DEF Career, BeforePlay, AfterPlay
  <2> QED BY <1>1, <2>2, <2>3, <2>4, StoppedTurn
<1> QED BY <1>2, <1>3 DEF Interrupt

\* A process that is killed returns nothing.
LEMMA KillTurn ==
  ASSUME NEW p \in Procs, IInv, Careers, Kill(p) PROVE Turn(p)
<1>1. /\ proc[p] \in States /\ proc[p].at \notin {"new", "done", "dead"} /\ Upset
      /\ UNCHANGED <<art, exported, met>> /\ Career(proc[p])
      /\ Go(p, [proc[p] EXCEPT !.at = "dead"])
  BY DEF IInv, TypeOK, Careers, Kill, Working
<1> DEFINE s == [proc[p] EXCEPT !.at = "dead"]
<1>2. /\ s \in States /\ s.at = "dead" /\ s.round = proc[p].round /\ s.dir = proc[p].dir
      /\ s.played = proc[p].played /\ s.code = proc[p].code
      /\ s.summary = proc[p].summary /\ s.manifest = proc[p].manifest /\ s.heads = proc[p].heads
  BY <1>1, AtFields
<1>3. Go(p, s)
  BY <1>1
<1> HIDE DEF s
<1>4. Career(s)
  BY <1>1, <1>2 DEF Career, BeforePlay, AfterPlay
<1> QED BY <1>1, <1>2, <1>3, <1>4, StoppedTurn

\* Every step of a process is a turn.
LEMMA RunIsTurn ==
  ASSUME NEW p \in Procs, IInv, Careers, Run(p) PROVE Turn(p)
<1>1. CASE Prepare(p) BY <1>1, PrepareTurn
<1>2. CASE Validate(p) BY <1>2, ValidateTurn
<1>3. CASE Attach(p) BY <1>3, AttachTurn
<1>4. CASE RunTableRolls(p) BY <1>4, RollsTurn
<1>5. CASE OpenJournal(p) BY <1>5, OpenJournalTurn
<1>6. CASE WriteSummary(p) BY <1>6, WriteSummaryTurn
<1>7. CASE Finalize(p) BY <1>7, FinalizeTurn
<1>8. CASE EmitSummary(p) BY <1>8, EmitSummaryTurn
<1>9. CASE EmitManifest(p) BY <1>9, EmitManifestTurn
<1>10. CASE EmitDecisions(p) BY <1>10, EmitDecisionsTurn
<1>11. CASE EmitJournal(p) BY <1>11, EmitJournalTurn
<1>12. CASE Repair(p) BY <1>12, RepairTurn
<1>13. CASE EnsureSummary(p) BY <1>13, EnsureSummaryTurn
<1>14. CASE CloseTrace(p) BY <1>14, CloseTraceTurn
<1>15. CASE Interrupt(p) BY <1>15, InterruptTurn
<1>16. CASE Kill(p) BY <1>16, KillTurn
<1>17. CASE LookAtJournal(p) BY <1>17, LookAtJournalTurn
<1> QED BY <1>1, <1>2, <1>3, <1>4, <1>5, <1>6, <1>7, <1>8, <1>9, <1>10, <1>11, <1>12,
           <1>13, <1>14, <1>15, <1>16, <1>17 DEF Run

(***************************************************************************)
(* The invariants.                                                         *)
(***************************************************************************)
\* No other that has started shares p's directory.
Alone(p) == \A q \in Procs \ {p} : proc[q].at # "new" => proc[q].dir # proc[p].dir

Delivers ==
  upsets <= 2 =>
    \A p \in Procs : (proc[p].at # "new" /\ Alone(p)) => Due(proc[p], art[proc[p].dir], upsets, p)

\* Processes that run at the same time have met.
Solitary == \A p, q \in Working : p # q => p \in met

\* One that works in the directory of another that is done has replaced the summary
\* before it touches the journal.
Replaces(p, q) ==
  (/\ proc[p].at = "done" /\ proc[q].dir = proc[p].dir /\ proc[q].at \in Telling) =>
    art[proc[p].dir].summary.by # p

Apart ==
  /\ Solitary
  /\ upsets = 0 =>
       \A p \in Procs \ met :
         /\ \A q \in Procs \ {p} : Replaces(p, q)
         /\ proc[p].at # "new" => Carries(proc[p], art[proc[p].dir], exported, p)

JInv == IInv /\ Careers /\ Delivers /\ Apart

\* A turn keeps what the processes know of themselves.
LEMMA CareersStep ==
  ASSUME IInv, Careers, NEW p \in Procs, Turn(p) PROVE Careers'
<1>1. PICK s \in States : proc' = [proc EXCEPT ![p] = s] /\ Career(s)
  BY DEF Turn, Moves
<1>2. \A q \in Procs : proc'[q] = IF q = p THEN s ELSE proc[q]
  BY <1>1 DEF IInv, TypeOK
<1> QED BY <1>1, <1>2 DEF Careers

\* A turn keeps what is due: of others, whose files are out of its reach, and of its process.
LEMMA DeliversStep ==
  ASSUME IInv, Careers, Delivers, NEW p \in Procs, Turn(p), upsets' <= 2,
         NEW q \in Procs, proc'[q].at # "new", Alone(q)'
  PROVE  Due(proc'[q], art'[proc'[q].dir], upsets', q)
<1>1. PICK s \in States :
        /\ Moves(p, s)
        /\ Due(proc[p], art[s.dir], upsets, p) => Due(s, art'[s.dir], upsets', p)
  BY DEF Turn
<1>2. /\ \A r \in Procs : proc'[r] = IF r = p THEN s ELSE proc[r]
      /\ s.at # "new" /\ (proc[p].at # "new" => s.dir = proc[p].dir)
      /\ upsets \in Nat /\ upsets' \in Nat /\ upsets <= upsets' /\ upsets <= 2
  BY <1>1 DEF Moves, IInv, TypeOK
<1>3. proc[q].at # "new" => Alone(q) /\ Due(proc[q], art[proc[q].dir], upsets, q)
  <2>1. proc[q].at # "new" => Alone(q)
    BY <1>2 DEF Alone
  <2> QED BY <1>2, <2>1 DEF Delivers
<1>4. CASE q = p
  <2>1. proc[p].at = "new" => proc[p].played = "no"
    BY DEF Careers, Career, BeforePlay
  <2>2. Due(proc[p], art[s.dir], upsets, p)
    BY <1>2, <1>3, <1>4, <2>1, Idle
  <2> QED BY <1>1, <1>2, <1>4, <2>2
<1>5. CASE q # p
  <2>1. proc'[q] = proc[q] /\ proc[q].dir # s.dir
    BY <1>2, <1>5 DEF Alone
  <2>2. proc[q].dir \in Dirs
    BY <2>1 DEF IInv, TypeOK
  <2>3. PICK a, b, u, v : a = art[proc[q].dir] /\ b = art'[proc[q].dir] /\ u = upsets /\ v = upsets'
    OBVIOUS
  <2>4. b.summary = a.summary /\ b.manifest = a.manifest /\ u \in Nat /\ v \in Nat /\ u <= v
    BY <1>1, <1>2, <2>1, <2>2, <2>3 DEF Moves
  <2>5. Due(proc[q], a, u, q)
    BY <1>3, <2>1, <2>3
  <2>6. Due(proc[q], b, v, q)
    BY <2>4, <2>5, DueSame, DueLess
  <2> QED BY <2>1, <2>3, <2>6
<1> QED BY <1>4, <1>5

\* A turn of a process that starts makes all that are at work meet.
LEMMA SolitaryStep ==
  ASSUME IInv, Solitary, NEW p \in Procs, Turn(p) PROVE Solitary'
<1>1. PICK s \in States : Moves(p, s)
  BY DEF Turn
<1>2. /\ \A r \in Procs : proc'[r] = IF r = p THEN s ELSE proc[r]
      /\ proc[p].at \notin {"done", "dead"}
      /\ met' = IF proc[p].at # "new" \/ Working = {} THEN met ELSE met \cup Working \cup {p}
  BY <1>1 DEF Moves, IInv, TypeOK
<1>3. CASE proc[p].at # "new"
  <2>1. Working' \subseteq Working /\ met' = met
    BY <1>2, <1>3 DEF Working
  <2> QED BY <2>1 DEF Solitary
<1>4. CASE proc[p].at = "new" /\ Working = {}
  <2>1. Working' \subseteq {p} /\ met' = met
    BY <1>2, <1>4 DEF Working
  <2> QED BY <2>1 DEF Solitary
<1>5. CASE proc[p].at = "new" /\ Working # {}
  <2>1. Working' \subseteq Working \cup {p} /\ met' = met \cup Working \cup {p}
    BY <1>2, <1>5 DEF Working
  <2> QED BY <2>1 DEF Solitary
<1> QED BY <1>3, <1>4, <1>5

\* One that has not met p, and is not p, is not at work while p is, and takes no step then.
LEMMA Undisturbed ==
  ASSUME IInv, Solitary, NEW p \in Procs, Turn(p), NEW q \in Procs \ {p}, q \notin met'
  PROVE  q \notin Working /\ q \notin met
<1>1. PICK s \in States : Moves(p, s)
  BY DEF Turn
<1>2. proc[p].at \notin {"done", "dead"} /\ q \notin met
  BY <1>1 DEF Moves
<1>3. CASE proc[p].at = "new"
  BY <1>1, <1>2, <1>3 DEF Moves
<1>4. CASE proc[p].at # "new"
  BY <1>2, <1>4 DEF Solitary, Working
<1> QED BY <1>2, <1>3, <1>4

\* A turn of one that writes where another is done replaces the summary first.
LEMMA ReplacesStep ==
  ASSUME IInv, IInv', Apart, NEW p \in Procs, Turn(p), upsets' = 0,
         NEW q \in Procs \ met', NEW r \in Procs \ {q}
  PROVE  Replaces(q, r)'
<1>1. PICK s \in States : Moves(p, s) /\ Leaves(p, s)
  BY DEF Turn
<1>2. /\ \A x \in Procs : proc'[x] = IF x = p THEN s ELSE proc[x]
      /\ proc[p].at \notin {"done", "dead"} /\ (proc[p].at # "new" => s.dir = proc[p].dir)
      /\ upsets = 0 /\ s.at # "new" /\ q \notin met
  BY <1>1 DEF Moves, IInv, TypeOK
<1>3. SUFFICES ASSUME proc'[q].at = "done", proc'[r].dir = proc'[q].dir, proc'[r].at \in Telling
               PROVE  art'[proc'[q].dir].summary.by # q
  BY DEF Replaces
<1>4. Replaces(q, r)
  BY <1>2 DEF Apart
<1>5. CASE q = p
  <2>1. proc[q].at # "new"
    BY <1>1, <1>2, <1>3, <1>5 DEF Leaves
  <2>2. q \in Working /\ r \in Working
    BY <1>2, <1>3, <1>5, <2>1 DEF Working, Telling
  <2> QED BY <1>2, <2>2 DEF Apart, Solitary
<1>6. CASE q # p
  <2>1. proc'[q] = proc[q] /\ proc[q].dir \in Dirs
    BY <1>2, <1>3, <1>6 DEF IInv, TypeOK
  <2>2. CASE r = p
    <3>1. s.dir = proc[q].dir /\ s.at \in Telling
      BY <1>2, <1>3, <2>1, <2>2
    <3>2. CASE art'[s.dir].summary.by = p
      BY <1>6, <2>1, <3>1, <3>2
    <3>3. CASE proc[p].at \in Telling /\ art'[s.dir].summary = art[s.dir].summary
      BY <1>2, <1>3, <1>4, <2>1, <2>2, <3>1, <3>3 DEF Replaces, Telling
    <3> QED BY <1>1, <3>1, <3>2, <3>3 DEF Leaves
  <2>3. CASE r # p
    <3>1. art[proc[q].dir].summary.by # q
      BY <1>2, <1>3, <1>4, <2>1, <2>3 DEF Replaces
    <3>2. art'[proc[q].dir].summary = art[proc[q].dir].summary \/ art'[proc[q].dir].summary.by = p
      BY <1>1, <2>1 DEF Moves, Leaves
    <3> QED BY <1>6, <2>1, <3>1, <3>2
  <2> QED BY <2>2, <2>3
<1> QED BY <1>5, <1>6

\* A turn keeps the journals of those that met no other.
LEMMA CarriesStep ==
  ASSUME IInv, Careers, Apart, NEW p \in Procs, Turn(p), upsets' = 0,
         NEW q \in Procs \ met', proc'[q].at # "new"
  PROVE  Carries(proc'[q], art'[proc'[q].dir], exported', q)
<1>1. PICK s \in States :
        /\ Moves(p, s) /\ Leaves(p, s)
        /\ Carries(proc[p], art[s.dir], exported, p) => Carries(s, art'[s.dir], exported', p)
  BY DEF Turn
<1>2. /\ \A x \in Procs : proc'[x] = IF x = p THEN s ELSE proc[x]
      /\ proc[p].at \notin {"done", "dead"} /\ (proc[p].at # "new" => s.dir = proc[p].dir)
      /\ upsets = 0 /\ q \notin met
  BY <1>1 DEF Moves, IInv, TypeOK
<1>3. proc[q].at # "new" => Carries(proc[q], art[proc[q].dir], exported, q)
  BY <1>2 DEF Apart
<1>4. CASE q = p
  <2>1. proc[p].at = "new" => proc[p].played = "no"
    BY DEF Careers, Career, BeforePlay
  <2>2. Carries(proc[p], art[s.dir], exported, p)
    BY <1>2, <1>3, <1>4, <2>1, Idle
  <2> QED BY <1>1, <1>2, <1>4, <2>2
<1>5. CASE q # p
  <2>1. proc'[q] = proc[q] /\ proc[q].dir \in Dirs
    BY <1>2, <1>5 DEF IInv, TypeOK
  <2>2. proc[q].at \in {"done", "dead"}
    BY <1>5, <2>1, Undisturbed DEF Working, Apart
  <2>3. ASSUME proc[q].at = "done", proc[q].played # "no", art'[proc[q].dir].summary.by = q
        PROVE  art'[proc[q].dir].journal = Own(q, proc[q].heads)
    <3>1. CASE proc[q].dir # s.dir
      BY <1>1, <1>3, <2>1, <2>3, <3>1 DEF Moves, Carries
    <3>2. CASE proc[q].dir = s.dir
      <4>1. art'[s.dir].summary = art[s.dir].summary
        BY <1>1, <1>5, <2>3, <3>2 DEF Leaves
      <4>2. Replaces(q, p)
        BY <1>2, <1>5 DEF Apart
      <4>3. proc[p].at \notin Telling
        BY <1>2, <2>3, <3>2, <4>1, <4>2 DEF Replaces, Telling
      <4>4. art'[s.dir].journal = art[s.dir].journal
        BY <1>1, <4>3 DEF Leaves
      <4> QED BY <1>3, <2>3, <3>2, <4>1, <4>4 DEF Carries
    <3> QED BY <3>1, <3>2
  <2> QED BY <2>1, <2>2, <2>3 DEF Carries, Emitting
<1> QED BY <1>4, <1>5

\* The first state has nothing due.
LEMMA JStarts == ListInit => JInv
<1> SUFFICES ASSUME ListInit PROVE JInv
  OBVIOUS
<1>1. \A p \in Procs : proc[p].at = "new" /\ proc[p].played = "no" /\ proc[p].code = "none"
  BY DEF ListInit, Init, Unstarted
<1>2. Careers
  BY <1>1 DEF Careers, Career
<1>3. Delivers
  BY <1>1 DEF Delivers
<1>4. Apart
  BY <1>1 DEF Apart, Solitary, Working, Replaces
<1> QED BY <1>2, <1>3, <1>4, Starts DEF JInv

\* Every step of the specification keeps the invariant.
LEMMA JSteps == JInv /\ [Next]_vars => JInv'
<1> SUFFICES ASSUME JInv, [Next]_vars PROVE JInv'
  OBVIOUS
<1>1. IInv'
  BY Steps DEF JInv
<1>2. ASSUME NEW p \in Procs, RunStep(p) PROVE JInv'
  <2>1. Turn(p) /\ IInv /\ Careers /\ Delivers /\ Apart /\ Solitary
    BY <1>2, RunIsTurn DEF JInv, RunStep, Apart
  <2>2. Careers'
    BY <2>1, CareersStep
  <2>3. Delivers'
    BY <2>1, DeliversStep DEF Delivers
  <2>4. Solitary'
    BY <2>1, SolitaryStep
  <2>5. ASSUME upsets' = 0, NEW q \in Procs \ met'
        PROVE  /\ \A r \in Procs \ {q} : Replaces(q, r)'
               /\ proc'[q].at # "new" => Carries(proc'[q], art'[proc'[q].dir], exported', q)
    BY <1>1, <2>1, <2>5, ReplacesStep, CarriesStep
  <2>6. Apart'
    BY <2>4, <2>5 DEF Apart
  <2> QED BY <1>1, <2>2, <2>3, <2>6 DEF JInv
<1>3. CASE RunsList \/ UNCHANGED vars
  <2>1. UNCHANGED files
    BY <1>3 DEF RunsList, vars
  <2>2. Careers' /\ Delivers' /\ Apart'
    BY <2>1 DEF files, JInv, Careers, Delivers, Alone, Apart, Solitary, Working, Replaces
  <2> QED BY <1>1, <2>2 DEF JInv
<1> QED BY <1>2, <1>3 DEF Next

\* A run that returned 0 after it played leaves its own ok summary and whole manifest in a
\* directory it has to itself, though _finalize_per_run_artifacts and what follows it in
\* _run swallow every failed write: so long as no more than two things went wrong.
THEOREM ResultsTrue == Spec => [](upsets <= 2 => ResultTrue)
<1>1. JInv => (upsets <= 2 => ResultTrue)
  <2> SUFFICES ASSUME JInv, upsets <= 2 PROVE ResultTrue
    OBVIOUS
  <2>1. ASSUME NEW d \in Dirs, art[d].summary.says = "ok"
        PROVE  proc[art[d].summary.by].played # "no"
    <3>1. art[d].summary.by # NoOne
      BY <2>1 DEF JInv, IInv, SummariesTold
    <3>2. art[d].summary.by \in Procs
      BY <3>1 DEF JInv, IInv, TypeOK, Contents, Writers
    <3>3. Told(proc[art[d].summary.by]) = "ok"
      BY <2>1, <3>1 DEF JInv, IInv, SummariesTold
    <3>4. proc[art[d].summary.by].summary = "ok"
      BY <3>3 DEF Told
    <3> QED BY <3>2, <3>4 DEF JInv, IInv, SummariesTold
  <2>2. ASSUME NEW p \in Procs, proc[p].at = "done", proc[p].code = "0", proc[p].played # "no",
               \A q \in Procs \ {p} : proc[q].dir # proc[p].dir
        PROVE  Whole(art[proc[p].dir], p)
    <3>1. Due(proc[p], art[proc[p].dir], upsets, p)
      BY <2>2 DEF JInv, Delivers, Alone
    <3> QED BY <2>2, <3>1 DEF Due
  <2> QED BY <2>1, <2>2 DEF ResultTrue, Whole, Summarized, Manifested
<1> QED BY <1>1, JStarts, JSteps, PTL DEF Spec

\* Without failures the journal of a run that met no other is its own, though it goes
\* through export/journal.csv, which every run of the working directory writes; replay
\* shows its row when the run found no header there (csv_journal.py settles that before
\* it empties the file), and nothing when it did.
THEOREM OwnJournals == Spec => []OwnJournal
<1>1. JInv => OwnJournal
  <2> SUFFICES ASSUME JInv, NEW p \in Procs \ met, upsets = 0, proc[p].at = "done",
                      proc[p].played # "no", art[proc[p].dir].summary.by = p
               PROVE  /\ art[proc[p].dir].journal.rows = <<p>>
                      /\ Replayed(proc[p].dir) = IF proc[p].heads THEN <<p>> ELSE <<>>
    BY DEF OwnJournal
  <2>1. Carries(proc[p], art[proc[p].dir], exported, p)
    BY DEF JInv, Apart
  <2>2. art[proc[p].dir].journal = Own(p, proc[p].heads)
    BY <2>1 DEF Carries
  <2>3. art[proc[p].dir].journal.rows = <<p>> /\ art[proc[p].dir].journal.headed = proc[p].heads
    BY <2>2 DEF Own
  <2>4. <<p>> # <<>> /\ Tail(<<p>>) = <<>>
    OBVIOUS
  <2> QED BY <2>3, <2>4 DEF Replayed
<1> QED BY <1>1, JStarts, JSteps, PTL DEF Spec

(***************************************************************************)
(* The listing: what a client that follows the cursor is shown while runs  *)
(* move to the front of it.                                                *)
(***************************************************************************)
\* Directories listed once each.
Listing(o) == o \in Seq(Dirs) /\ \A i, j \in 1..Len(o) : o[i] = o[j] => i = j

Listed(o, d) == \E i \in 1..Len(o) : o[i] = d

\* d comes somewhere after c.
Behind(o, c, d) == \E i, j \in 1..Len(o) : i < j /\ o[i] = c /\ o[j] = d

\* A directory that moves to the front of o.
Fronted(o, k, d) == <<d>> \o RemoveAt(o, k)

\* What is where when the entry at k, or none, has moved to the front.
LEMMA FrontedAt ==
  ASSUME NEW o \in Seq(Dirs), NEW d \in Dirs, NEW k \in 1..(Len(o) + 1),
         NEW n, n = Fronted(o, k, d)
  PROVE  /\ n \in Seq(Dirs) /\ n[1] = d
         /\ Len(n) = IF k <= Len(o) THEN Len(o) ELSE Len(o) + 1
         /\ \A i \in 2..Len(n) : n[i] = IF i <= k THEN o[i - 1] ELSE o[i]
<1>1. PICK a, b : a = SubSeq(o, 1, k - 1) /\ b = SubSeq(o, k + 1, Len(o))
  OBVIOUS
<1>2. a \in Seq(Dirs) /\ Len(a) = k - 1 /\ \A i \in 1..(k - 1) : a[i] = o[i]
  BY <1>1
<1>3. /\ b \in Seq(Dirs) /\ Len(b) = (IF k <= Len(o) THEN Len(o) - k ELSE 0)
      /\ \A i \in 1..Len(b) : b[i] = o[i + k]
  BY <1>1
<1>4. n = <<d>> \o (a \o b)
  BY <1>1 DEF Fronted, RemoveAt
<1>5. PICK c : c = a \o b
  OBVIOUS
<1>6. /\ c \in Seq(Dirs) /\ Len(c) = Len(a) + Len(b)
      /\ \A i \in 1..Len(c) : c[i] = IF i <= Len(a) THEN a[i] ELSE b[i - Len(a)]
  <2>1. a \in Seq(Dirs) /\ b \in Seq(Dirs)
    BY <1>2, <1>3
  <2> QED BY ONLY <1>5, <2>1
<1>7. n \in Seq(Dirs) /\ n[1] = d /\ Len(n) = Len(c) + 1 /\ \A i \in 2..Len(n) : n[i] = c[i - 1]
  BY <1>4, <1>5, <1>6
<1>8. Len(n) = IF k <= Len(o) THEN Len(o) ELSE Len(o) + 1
  BY <1>2, <1>3, <1>6, <1>7
<1>9. ASSUME NEW i \in 2..Len(n)
      PROVE  n[i] = IF i <= k THEN o[i - 1] ELSE o[i]
  <2>1. n[i] = c[i - 1] /\ i - 1 \in 1..Len(c)
    BY <1>6, <1>7
  <2>2. CASE i <= k
    BY <1>2, <1>6, <2>1, <2>2
  <2>3. CASE i > k
    <3>1. c[i - 1] = b[i - 1 - Len(a)] /\ i - 1 - Len(a) \in 1..Len(b)
      BY <1>2, <1>3, <1>6, <2>1, <2>3
    <3>2. b[i - k] = o[i - k + k] /\ i - k \in 1..Len(b)
      BY <1>2, <1>3, <2>3, <3>1
    <3> QED BY <1>2, <2>1, <2>3, <3>1, <3>2
  <2> QED BY <2>2, <2>3
<1> QED BY <1>7, <1>8, <1>9

\* Touching a directory moves it to the front, and no other past another.
LEMMA TouchedLists ==
  ASSUME Listing(order), NEW d \in Dirs, Touched(d)
  PROVE  /\ Listing(order')
         /\ \A e : Listed(order, e) => Listed(order', e)
         /\ \A c, e : Behind(order, c, e) /\ e # d => Behind(order', c, e)
<1> DEFINE k == Place(d)
<1>1. /\ k \in 1..(Len(order) + 1)
      /\ k <= Len(order) => order[k] = d
      /\ k = Len(order) + 1 => \A i \in 1..Len(order) : order[i] # d
  <2>1. order \in Seq(Dirs) /\ DOMAIN order = 1..Len(order) /\ Len(order) \in Nat
    BY DEF Listing
  <2>2. CASE d \in Range(order)
    <3>1. \E i \in DOMAIN order : order[i] = d
      BY <2>2 DEF Range
    <3>2. k = CHOOSE i \in DOMAIN order : order[i] = d
      BY <2>2 DEF Place
    <3>3. k \in DOMAIN order /\ order[k] = d
      BY <3>1, <3>2
    <3> QED BY <2>1, <3>3
  <2>3. CASE d \notin Range(order)
    <3>1. k = Len(order) + 1 /\ \A i \in DOMAIN order : order[i] # d
      BY <2>3 DEF Place, Range
    <3> QED BY <2>1, <3>1
  <2> QED BY <2>2, <2>3
<1>2. PICK o, n : o = order /\ n = order'
  OBVIOUS
<1>3. n = Fronted(o, k, d) /\ o \in Seq(Dirs) /\ \A i, j \in 1..Len(o) : o[i] = o[j] => i = j
  BY <1>2 DEF Touched, Fronted, Listing
<1>4. /\ k \in 1..(Len(o) + 1)
      /\ k <= Len(o) => o[k] = d
      /\ k = Len(o) + 1 => \A i \in 1..Len(o) : o[i] # d
  BY <1>1, <1>2
<1> HIDE DEF k
<1>5. /\ n \in Seq(Dirs) /\ n[1] = d /\ Len(o) \in Nat /\ Len(n) \in Nat
      /\ Len(n) = IF k <= Len(o) THEN Len(o) ELSE Len(o) + 1
      /\ \A i \in 2..Len(n) : n[i] = IF i <= k THEN o[i - 1] ELSE o[i]
  BY <1>3, <1>4, FrontedAt
<1>6. \A i \in 1..Len(o) : o[i] = d <=> i = k
  BY <1>3, <1>4
<1> DEFINE new(i) == IF i < k THEN i + 1 ELSE i
           old(i) == IF i <= k THEN i - 1 ELSE i
<1>7. \A i \in 1..Len(o) : i # k => new(i) \in 2..Len(n) /\ n[new(i)] = o[i]
  BY <1>4, <1>5
<1>8. \A i \in 2..Len(n) : old(i) \in 1..Len(o) /\ old(i) # k /\ n[i] = o[old(i)]
  BY <1>4, <1>5
<1>9. Listing(n)
  <2> SUFFICES ASSUME NEW i \in 1..Len(n), NEW j \in 1..Len(n), n[i] = n[j]
               PROVE  i = j
    BY <1>5 DEF Listing
  <2>1. CASE i = 1 /\ j # 1
    BY <1>5, <1>6, <1>8, <2>1
  <2>2. CASE j = 1 /\ i # 1
    BY <1>5, <1>6, <1>8, <2>2
  <2>3. CASE i # 1 /\ j # 1
    <3>1. old(i) = old(j) /\ old(i) # k /\ old(j) # k
      <4>1. i \in 2..Len(n) /\ j \in 2..Len(n)
        BY <1>5, <2>3
      <4>2. o[old(i)] = o[old(j)] /\ old(i) \in 1..Len(o) /\ old(j) \in 1..Len(o)
        BY <1>8, <4>1
      <4> HIDE DEF old
      <4> QED BY <1>3, <1>8, <4>1, <4>2
    <3> QED BY <1>4, <3>1
  <2> QED BY <2>1, <2>2, <2>3
<1>10. ASSUME NEW e, Listed(o, e)
       PROVE  Listed(n, e)
  <2>1. PICK i \in 1..Len(o) : o[i] = e
    BY <1>10 DEF Listed
  <2>2. CASE i = k
    BY <1>4, <1>5, <1>6, <2>1, <2>2 DEF Listed
  <2>3. CASE i # k
    BY <1>5, <1>7, <2>1, <2>3 DEF Listed
  <2> QED BY <2>2, <2>3
<1>11. ASSUME NEW c, NEW e, Behind(o, c, e), e # d
       PROVE  Behind(n, c, e)
  <2>1. PICK i \in 1..Len(o), j \in 1..Len(o) : i < j /\ o[i] = c /\ o[j] = e
    BY <1>11 DEF Behind
  <2>2. j # k
    BY <1>6, <1>11, <2>1
  <2>3. new(j) \in 2..Len(n) /\ n[new(j)] = e
    BY <1>7, <2>1, <2>2
  <2>4. CASE i = k
    <3>1. 1 \in 1..Len(n) /\ n[1] = c /\ 1 < new(j) /\ new(j) \in 1..Len(n)
      BY <1>5, <1>6, <2>1, <2>3, <2>4
    <3> QED BY <2>3, <3>1 DEF Behind
  <2>5. CASE i # k
    <3>1. new(i) \in 2..Len(n) /\ n[new(i)] = c /\ new(i) < new(j)
      BY <1>4, <1>7, <2>1, <2>2, <2>5
    <3>2. new(i) \in 1..Len(n) /\ new(j) \in 1..Len(n)
      BY <1>5, <2>3, <3>1
    <3> HIDE DEF new
    <3> QED BY <2>3, <3>1, <3>2 DEF Behind
  <2> QED BY <2>4, <2>5
<1> QED BY <1>2, <1>9, <1>10, <1>11

\* A run touches its own directory, or none.
LEMMA RunTouches ==
  ASSUME NEW p \in Procs, IInv, Careers, Run(p)
  PROVE  \/ order' = order
         \/ proc'[p].dir \in Dirs /\ Touched(proc'[p].dir)
<1>1. PICK s \in States : Moves(p, s)
  BY RunIsTurn DEF Turn
<1>2. /\ proc'[p] = s /\ s.at # "new"
      /\ proc[p].at # "new" => proc'[p].dir = proc[p].dir /\ proc[p].dir \in Dirs
  BY <1>1 DEF Moves, IInv, TypeOK
<1>3. CASE Prepare(p)
  <2>1. PICK d \in Ids : TakeDir(p, d)
    BY <1>3 DEF Prepare
  <2>2. d \in Dirs
    BY ArtifactConstants DEF ArtifactConstants
  <2>3. order' = order \/ Touched(d)
    BY <2>1 DEF TakeDir
  <2>4. \A t : Go(p, t) => proc'[p] = t
    BY DEF Go, IInv, TypeOK
  <2>5. proc[p] \in States
    BY DEF IInv, TypeOK
  <2> DEFINE ready == [proc[p] EXCEPT !.at = "prepared", !.dir = d]
  <2>6. \A x, y : /\ ready.dir = d /\ [ready EXCEPT !.trace = x].dir = d
                 /\ [ready EXCEPT !.at = x, !.code = y].dir = d
    BY <2>5 DEF States
  <2>7. \E t : Go(p, t) /\ t.dir = d
    <3> HIDE DEF ready
    <3> QED BY <2>1, <2>6 DEF TakeDir, ready
  <2> QED BY <2>2, <2>3, <2>4, <2>7
<1>4. CASE Validate(p) \/ Attach(p) \/ RunTableRolls(p) \/ LookAtJournal(p) \/ OpenJournal(p)
           \/ WriteSummary(p) \/ Finalize(p) \/ CloseTrace(p) \/ Interrupt(p) \/ Kill(p)
  BY <1>4 DEF Validate, Attach, RunTableRolls, LookAtJournal, OpenJournal, WriteSummary, Finalize,
                  CloseTrace, Interrupt, Kill
<1>5. CASE EmitSummary(p) \/ EmitManifest(p)
  BY <1>2, <1>5 DEF EmitSummary, EmitManifest
<1>6. CASE EmitDecisions(p)
  BY <1>2, <1>6 DEF EmitDecisions
<1>7. CASE EmitJournal(p)
  BY <1>2, <1>7 DEF EmitJournal, PutJournal
<1>8. CASE Repair(p) \/ EnsureSummary(p)
  BY <1>2, <1>8 DEF Repair, EnsureSummary, PutJournal
<1> QED BY <1>3, <1>4, <1>5, <1>6, <1>7, <1>8 DEF Run

\* Where a client is: what is calm has been shown or comes after the cursor.
Paging ==
  /\ Listing(order)
  /\ page = [at |-> page.at, cursor |-> page.cursor, seen |-> page.seen, calm |-> page.calm]
  /\ page.at \in {"first", "next", "end"}
  /\ page.at = "first" => page.cursor = NoOne /\ page.calm = {}
  /\ page.at = "next" => /\ Listed(order, page.cursor)
                         /\ \A d \in page.calm : d \in page.seen \/ Behind(order, page.cursor, d)
  /\ NoRunMissed

\* A page: what comes after c of the listing o is in the window or after its last.
LEMMA PageShows ==
  ASSUME NEW o, Listing(o), NEW c \in 0..Len(o), NEW limit \in 1..100,
         NEW w, w = SubSeq(o, c + 1, IF c + 1 + limit <= Len(o) THEN c + limit ELSE Len(o)),
         NEW j \in 1..Len(o), c < j
  PROVE  /\ c + 1 + limit <= Len(o) =>
              w # <<>> /\ Listed(o, Last(w)) /\ (o[j] \in Range(w) \/ Behind(o, Last(w), o[j]))
         /\ ~(c + 1 + limit <= Len(o)) => o[j] \in Range(w)
<1>1. o \in Seq(Dirs) /\ Len(o) \in Nat
  BY DEF Listing
<1>2. CASE c + 1 + limit <= Len(o)
  <2>1. /\ w \in Seq(Dirs) /\ Len(w) = limit /\ DOMAIN w = 1..limit
        /\ \A i \in 1..limit : w[i] = o[c + i]
    <3>1. PICK m : m = c + limit
      OBVIOUS
    <3>2. w = SubSeq(o, c + 1, m) /\ m \in 1..Len(o) /\ c \in Nat /\ limit \in Nat /\ limit >= 1
      BY <1>1, <1>2, <3>1
    <3>3. w \in Seq(Dirs)
      BY ONLY <1>1, <3>2
    <3>4. Len(w) = limit
      BY ONLY <1>1, <3>1, <3>2
    <3>5. DOMAIN w = 1..limit
      BY <3>3, <3>4
    <3>6. \A i \in 1..limit : w[i] = o[c + i]
      BY ONLY <1>1, <3>1, <3>2
    <3> QED BY <3>3, <3>4, <3>5, <3>6
  <2>2. w # <<>> /\ Last(w) = o[c + limit] /\ c + limit \in 1..Len(o)
    <3>1. limit \in 1..limit /\ c + limit \in 1..Len(o)
      BY <1>1, <1>2
    <3>2. Last(w) = o[c + limit]
      BY <2>1, <3>1 DEF Last
    <3>3. w # <<>>
      <4>1. Len(w) # 0
        <5>1. limit # 0
          OBVIOUS
        <5> QED BY ONLY <2>1, <5>1
      <4>2. Len(<<>>) = 0
        OBVIOUS
      <4> QED BY <4>1, <4>2
    <3> QED BY <3>1, <3>2, <3>3
  <2>3. CASE j <= c + limit
    <3>1. j - c \in 1..limit /\ w[j - c] = o[j]
      BY <1>1, <2>1, <2>3
    <3> QED BY <1>2, <2>1, <2>2, <3>1 DEF Range, Listed
  <2>4. CASE j > c + limit
    <3>1. Behind(o, Last(w), o[j])
      BY <1>1, <2>2, <2>4 DEF Behind
    <3> QED BY <1>2, <2>2, <3>1 DEF Listed
  <2> QED BY <1>1, <2>3, <2>4
<1>3. CASE ~(c + 1 + limit <= Len(o))
  <2>1. w = SubSeq(o, c + 1, Len(o))
    BY <1>3
  <2>2. j - c \in DOMAIN w /\ w[j - c] = o[j]
    BY <1>1, <2>1
  <2> QED BY <1>3, <2>2 DEF Range
<1> QED BY <1>2, <1>3

\* A page keeps what is said of the paging.
LEMMA PageStep == ASSUME Paging, RunsList PROVE Paging'
<1>1. PICK limit \in Limits :
        page' = [at     |-> IF Window(StartIndex(page.cursor), limit) # <<>>
                               /\ StartIndex(page.cursor) + limit <= Len(order) THEN "next" ELSE "end",
                 cursor |-> IF Window(StartIndex(page.cursor), limit) # <<>>
                               /\ StartIndex(page.cursor) + limit <= Len(order)
                            THEN Last(Window(StartIndex(page.cursor), limit)) ELSE NoOne,
                 seen   |-> page.seen \cup Range(Window(StartIndex(page.cursor), limit)),
                 calm   |-> IF page.at = "first" THEN Range(order) ELSE page.calm]
  BY DEF RunsList
<1>2. /\ limit \in 1..100 /\ page.at \in {"first", "next"} /\ order' = order
      /\ Listing(order) /\ order \in Seq(Dirs) /\ DOMAIN order = 1..Len(order) /\ Len(order) \in Nat
  BY LimitConstants DEF LimitConstants, RunsList, Paging, files, Listing
<1>3. PICK c \in 0..Len(order) :
        /\ StartIndex(page.cursor) = c + 1
        /\ \A d \in page'.calm : d \in page.seen \/ \E j \in 1..Len(order) : c < j /\ order[j] = d
  <2>1. CASE page.at = "first"
    <3>1. NoOne \notin Dirs
      BY ArtifactConstants DEF ArtifactConstants
    <3>2. \A i \in DOMAIN order : order[i] # NoOne
      BY <1>2, <3>1
    <3>3. page.cursor = NoOne
      BY <2>1 DEF Paging
    <3>4. StartIndex(page.cursor) = 1
      BY <3>2, <3>3 DEF StartIndex
    <3>5. page'.calm = Range(order)
      BY <1>1, <2>1
    <3>6. \A d \in page'.calm : \E j \in 1..Len(order) : 0 < j /\ order[j] = d
      BY <1>2, <3>5 DEF Range
    <3> QED BY <1>2, <3>4, <3>6
  <2>2. CASE page.at = "next"
    <3>1. PICK k : k = CHOOSE i \in DOMAIN order : order[i] = page.cursor
      OBVIOUS
    <3>2. \E i \in DOMAIN order : order[i] = page.cursor
      BY <1>2, <2>2 DEF Paging, Listed
    <3>3. k \in 1..Len(order) /\ order[k] = page.cursor
      BY <1>2, <3>1, <3>2
    <3>4. StartIndex(page.cursor) = k + 1
      BY <3>1, <3>2 DEF StartIndex
    <3>5. page'.calm = page.calm
      BY <1>1, <2>2
    <3>6. ASSUME NEW d \in page.calm, d \notin page.seen
          PROVE  \E j \in 1..Len(order) : k < j /\ order[j] = d
      <4>1. Behind(order, page.cursor, d)
        BY <2>2, <3>6 DEF Paging
      <4>2. PICK i \in 1..Len(order), j \in 1..Len(order) : i < j /\ order[i] = page.cursor /\ order[j] = d
        BY <4>1 DEF Behind
      <4>3. i = k
        BY <1>2, <3>3, <4>2 DEF Listing
      <4> QED BY <4>2, <4>3
    <3> QED BY <1>2, <3>3, <3>4, <3>5, <3>6
  <2> QED BY <1>2, <2>1, <2>2
<1>4. PICK w : w = SubSeq(order, c + 1, IF c + 1 + limit <= Len(order) THEN c + limit ELSE Len(order))
  OBVIOUS
<1>5. Window(c + 1, limit) = w
  <2>1. c + 1 + limit - 1 = c + limit
    BY <1>2
  <2> QED BY <1>4, <2>1 DEF Window
<1>6. page' = [at     |-> IF w # <<>> /\ c + 1 + limit <= Len(order) THEN "next" ELSE "end",
               cursor |-> IF w # <<>> /\ c + 1 + limit <= Len(order) THEN Last(w) ELSE NoOne,
               seen   |-> page.seen \cup Range(w),
               calm   |-> IF page.at = "first" THEN Range(order) ELSE page.calm]
  BY <1>1, <1>3, <1>5
<1>7. ASSUME NEW j \in 1..Len(order), c < j
      PROVE  /\ c + 1 + limit <= Len(order) =>
                   /\ w # <<>> /\ Listed(order, Last(w))
                   /\ order[j] \in Range(w) \/ Behind(order, Last(w), order[j])
             /\ ~(c + 1 + limit <= Len(order)) => order[j] \in Range(w)
  BY <1>2, <1>4, <1>7, PageShows
<1>8. page' = [at |-> page'.at, cursor |-> page'.cursor, seen |-> page'.seen, calm |-> page'.calm]
  BY <1>6
<1>9. CASE c + 1 + limit <= Len(order)
  <2>1. c + 1 \in 1..Len(order) /\ c < c + 1
    BY <1>2, <1>9
  <2>2. w # <<>> /\ Listed(order, Last(w))
    BY <1>7, <1>9, <2>1
  <2>3. page'.at = "next" /\ page'.cursor = Last(w) /\ page'.seen = page.seen \cup Range(w)
    BY <1>6, <1>9, <2>2
  <2>4. \A d \in page'.calm : d \in page'.seen \/ Behind(order, Last(w), d)
    BY <1>3, <1>7, <1>9, <2>3
  <2> QED BY <1>2, <1>8, <2>2, <2>3, <2>4 DEF Paging, NoRunMissed
<1>10. CASE ~(c + 1 + limit <= Len(order))
  <2>1. page'.at = "end" /\ page'.seen = page.seen \cup Range(w)
    BY <1>6, <1>10
  <2>2. \A d \in page'.calm : d \in page'.seen
    BY <1>3, <1>7, <1>10, <2>1
  <2> QED BY <1>2, <1>8, <2>1, <2>2 DEF Paging, NoRunMissed
<1> QED BY <1>9, <1>10

\* So does a run that writes: what moves is not calm any more.
LEMMA WriteStep ==
  ASSUME Paging, IInv, Careers, NEW p \in Procs, RunStep(p) PROVE Paging'
<1>1. page' = [page EXCEPT !.calm = IF order' = order THEN @ ELSE @ \ {proc'[p].dir}]
  BY DEF RunStep
<1>2. /\ page' = [at |-> page'.at, cursor |-> page'.cursor, seen |-> page'.seen, calm |-> page'.calm]
      /\ page'.at = page.at /\ page'.cursor = page.cursor /\ page'.seen = page.seen
      /\ page'.calm = IF order' = order THEN page.calm ELSE page.calm \ {proc'[p].dir}
  BY <1>1 DEF Paging
<1>3. CASE order' = order
  <2>1. page'.calm = page.calm
    BY <1>2, <1>3
  <2> QED BY <1>2, <1>3, <2>1 DEF Paging, NoRunMissed
<1>4. CASE order' # order
  <2>1. PICK d \in Dirs : d = proc'[p].dir /\ Touched(d)
    BY <1>4, RunTouches DEF RunStep
  <2>2. /\ Listing(order')
        /\ \A e : Listed(order, e) => Listed(order', e)
        /\ \A c, e : Behind(order, c, e) /\ e # d => Behind(order', c, e)
    BY <2>1, TouchedLists DEF Paging
  <2>3. page'.calm = page.calm \ {d}
    BY <1>2, <1>4, <2>1
  <2>4. page.at = "first" => page'.cursor = NoOne /\ page'.calm = {}
    BY <1>2, <2>3 DEF Paging
  <2>5. page.at = "next" => /\ Listed(order', page'.cursor)
                            /\ \A e \in page'.calm : e \in page'.seen \/ Behind(order', page'.cursor, e)
    BY <1>2, <2>2, <2>3 DEF Paging
  <2>6. page.at = "end" => page'.calm \subseteq page'.seen
    BY <1>2, <2>3 DEF Paging, NoRunMissed
  <2> QED BY <1>2, <2>2, <2>4, <2>5, <2>6 DEF Paging, NoRunMissed
<1> QED BY <1>3, <1>4

\* A client that follows the cursor of GET /runs to the end has been shown every directory
\* that was there at its first page and was not written to since, however the listing was
\* re-ordered by the runs that were.
THEOREM ListingCorrect == Spec => []NoRunMissed
<1>1. ListInit => Paging
  <2> SUFFICES ASSUME ListInit PROVE Paging
    OBVIOUS
  <2>1. page = [at |-> "first", cursor |-> NoOne, seen |-> {}, calm |-> {}]
    BY DEF ListInit
  <2>2. order \in [1..Cardinality(Old) -> Old] /\ IsInjective(order)
    BY DEF ListInit, Init
  <2>3. Cardinality(Old) \in Nat /\ Old \subseteq Dirs
    BY ArtifactConstants, FS_Subset, FS_CardinalityType DEF ArtifactConstants
  <2>4. Listing(order)
    <3>1. order \in Seq(Dirs) /\ Len(order) = Cardinality(Old) /\ DOMAIN order = 1..Cardinality(Old)
      BY <2>2, <2>3
    <3> QED BY <2>2, <3>1 DEF Listing, IsInjective
  <2> QED BY <2>1, <2>4 DEF Paging, NoRunMissed
<1>2. JInv /\ Paging /\ [Next]_vars => Paging'
  <2> SUFFICES ASSUME JInv, Paging, [Next]_vars PROVE Paging'
    OBVIOUS
  <2>1. CASE RunsList
    BY <2>1, PageStep
  <2>2. ASSUME NEW p \in Procs, RunStep(p) PROVE Paging'
    BY <2>2, WriteStep DEF JInv
  <2>3. CASE UNCHANGED vars
    BY <2>3 DEF vars, files, Paging, NoRunMissed
  <2> QED BY <2>1, <2>2, <2>3 DEF Next
<1>3. Paging => NoRunMissed
  BY DEF Paging
<1> QED BY <1>1, <1>2, <1>3, JStarts, JSteps, PTL DEF Spec

=============================================================================
