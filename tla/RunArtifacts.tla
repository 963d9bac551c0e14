---------------------------- MODULE RunArtifacts ----------------------------
(***************************************************************************)
(* `csc run` as a process among others: from its arguments to the four     *)
(* files of its run directory.  The table is played once; everything after *)
(* it is about what stays on disk when a step of it fails, when the user   *)
(* interrupts it, when the process is killed, and when two such processes  *)
(* run from one working directory: they share export/, through which the   *)
(* journal reaches the run directory, and may share a run id.              *)
(*                                                                         *)
(* Of a file we keep whose it is and what a reader would tell apart; rows  *)
(* of a journal are the runs that wrote them, below a header or without    *)
(* one.  export/report.json and export/manifest.json are written and never *)
(* read back: left out.                                                    *)
(***************************************************************************)
EXTENDS Naturals, Sequences, SequencesExt, FiniteSets

CONSTANTS
  Procs,      \* the processes
  Dirs,       \* run directories under the artifacts root
  Old,        \* those that exist before the first process starts
  Ids,        \* those the processes may take
  NoOne,      \* the writer of a file that is not there, and no directory
  Drives,     \* the rolls a table makes for those asked: "asked", "more"
  MaxUpsets   \* bound: failing writes, interrupts and kills, all together

ASSUME ArtifactConstants ==
  /\ IsFiniteSet(Dirs) /\ Old \subseteq Dirs /\ Ids \subseteq Dirs
  /\ NoOne \notin Procs \cup Dirs /\ MaxUpsets \in Nat
  /\ Drives \subseteq {"asked", "more"}

VARIABLES
  proc,      \* each process: its place, finalization_state and decisions trace
  art,       \* the files of each run directory
  exported,  \* export/journal.csv of the working directory
  order,     \* the run directories, the one modified last first
  upsets,    \* how many of MaxUpsets have happened
  met        \* the processes that ran while another did

files == <<proc, art, exported, order, upsets, met>>

Traces == {"off", "empty", "rowed"}   \* of decisions.csv
Results == {"none", "ok", "engine_unavailable", "missing"}

Bare ==
  [summary |-> [by |-> NoOne, says |-> "none"], manifest |-> [by |-> NoOne, full |-> FALSE],
   decisions |-> "none", journal |-> [kind |-> "none", headed |-> FALSE, rows |-> <<>>]]

\* finalization_state holds a summary, whether a manifest and whether a journal; heads
\* says whether the capture writes a header.
Unstarted ==
  [at |-> "new", round |-> "first", dir |-> NoOne, trace |-> "off", played |-> "no",
   code |-> "none", summary |-> "none", manifest |-> FALSE, journal |-> FALSE, heads |-> TRUE]

Init ==
  /\ proc = [p \in Procs |-> Unstarted]
  /\ art = [d \in Dirs |-> Bare]
  /\ exported = [there |-> FALSE, headed |-> FALSE, rows |-> <<>>]
  /\ order \in {s \in [1..Cardinality(Old) -> Old] : IsInjective(s)}
  /\ upsets = 0
  /\ met = {}

Working == {p \in Procs : proc[p].at \notin {"new", "done", "dead"}}

\* A file of d was created or replaced: its modification time is now.
Place(d) == IF d \in Range(order) THEN CHOOSE i \in DOMAIN order : order[i] = d ELSE Len(order) + 1
Touched(d) == order' = <<d>> \o RemoveAt(order, Place(d))

Upset == upsets < MaxUpsets /\ upsets' = upsets + 1

Go(p, next) == proc' = [proc EXCEPT ![p] = next]

\* An early exit, a return or an exception: the finally clause emits once more.
Finally(state) == [state EXCEPT !.at = "summary", !.round = "last"]

(***************************************************************************)
(* Up to the end of play.                                                  *)
(***************************************************************************)
\* With --explain the trace is opened, emptying decisions.csv; when that fails
\* there is no finally clause yet.
TakeDir(p, d) ==
  LET ready == [proc[p] EXCEPT !.at = "prepared", !.dir = d]
      fresh == d \notin Range(order)
  IN  \/ /\ Go(p, ready)
         /\ IF fresh THEN Touched(d) ELSE UNCHANGED order
         /\ UNCHANGED <<art, upsets>>
      \/ /\ Go(p, [ready EXCEPT !.trace = "empty"])
         /\ art' = [art EXCEPT ![d].decisions = "empty"]
         /\ IF fresh \/ art[d].decisions = "none" THEN Touched(d) ELSE UNCHANGED order
         /\ UNCHANGED upsets
      \/ /\ Upset
         /\ Go(p, [ready EXCEPT !.at = "done", !.code = "raised"])
         /\ IF fresh THEN Touched(d) ELSE UNCHANGED order
         /\ UNCHANGED art

\* The run id is the spec's or a new one.
Prepare(p) ==
  /\ proc[p].at = "new"
  /\ met' = IF Working = {} THEN met ELSE met \cup Working \cup {p}
  /\ \E d \in Ids : TakeDir(p, d)
  /\ UNCHANGED exported

\* Overrides, flags and validation.  sys.exit(1), or a number that is none.
Validate(p) ==
  /\ proc[p].at = "prepared"
  /\ \/ Go(p, [proc[p] EXCEPT !.at = "valid"])
     \/ \E code \in {"1", "raised"} : Go(p, Finally([proc[p] EXCEPT !.code = code]))
  /\ UNCHANGED <<art, exported, order, upsets, met>>

\* No engine: 2, or by CSC_ENGINE_SOFT_FAIL a summary that says so, and 0.
Attach(p) ==
  /\ proc[p].at = "valid"
  /\ \/ Go(p, [proc[p] EXCEPT !.at = "attached"])
     \/ Go(p, Finally([proc[p] EXCEPT !.code = "2"]))
     \/ Go(p, Finally([proc[p] EXCEPT !.code = "0", !.summary = "engine_unavailable",
                                      !.manifest = TRUE]))
  /\ UNCHANGED <<art, exported, order, upsets, met>>

Summed(state, played) == [state EXCEPT !.at = "played", !.played = played, !.summary = "ok"]

\* Each way of driving the table is tried in turn from where the one before
\* failed, which may be after some of the rolls.  Then the run has a summary.
RunTableRolls(p) ==
  /\ proc[p].at = "attached"
  /\ \/ \E played \in Drives : Go(p, Summed(proc[p], played))
     \/ Go(p, Finally([proc[p] EXCEPT !.code = "2"]))
  /\ UNCHANGED <<art, exported, order, upsets, met>>

(***************************************************************************)
(* The capture: a controller that saw no roll of the run writes the        *)
(* summary row to export/journal.csv.  Its first write truncates, and a    *)
(* header is for a file that had none before.                              *)
(***************************************************************************)
FaultyOpenMode == "a"
OpenMode == "w"

\* write_header is settled on the journal of an earlier run, before it is emptied.
LookAtJournal(p) ==
  /\ proc[p].at = "played"
  /\ Go(p, [proc[p] EXCEPT !.at = "looked", !.heads = ~(exported.there /\ exported.headed)])
  /\ UNCHANGED <<art, exported, order, upsets, met>>

Emptied == [there |-> TRUE, headed |-> FALSE, rows |-> <<>>]
Opened == IF OpenMode = "w" THEN Emptied ELSE [exported EXCEPT !.there = TRUE]

OpenJournal(p) ==
  /\ proc[p].at = "looked"
  /\ \/ /\ exported' = Opened
        /\ Go(p, [proc[p] EXCEPT !.at = "open"])
        /\ UNCHANGED upsets
     \/ /\ Upset
        /\ \E at \in {"captured", "failed"} : Go(p, [proc[p] EXCEPT !.at = at])
        /\ UNCHANGED exported
  /\ UNCHANGED <<art, order, met>>

\* Written from the start of the file.  Where another run wrote since it was emptied, a row
\* lies over that run's header and leaves its row.
Written(p) ==
  IF OpenMode = "w"
  THEN [there |-> TRUE, headed |-> proc[p].heads,
        rows |-> IF exported.headed /\ ~proc[p].heads THEN <<p>> \o exported.rows ELSE <<p>>]
  ELSE [exported EXCEPT !.headed = @ \/ proc[p].heads, !.rows = Append(@, p)]

WriteSummary(p) ==
  /\ proc[p].at = "open"
  /\ Go(p, [proc[p] EXCEPT !.at = "captured"])
  /\ \/ exported' = Written(p) /\ UNCHANGED upsets
     \/ Upset /\ UNCHANGED exported
  /\ UNCHANGED <<art, order, met>>

\* The report made or not, the journal that is there then is the one to copy.
JournalFound(p) == proc[p].at = "captured" /\ exported.there

\* A trace without a row gets one that says the run is complete, unless that
\* fails unseen; `trace` is what it is then.
SummaryRow(p, trace) ==
  \/ /\ proc[p].trace = "empty" /\ trace = "rowed"
     /\ art' = [art EXCEPT ![proc[p].dir].decisions = "rowed"]
     /\ UNCHANGED upsets
  \/ proc[p].trace = "empty" /\ trace = "empty" /\ Upset /\ UNCHANGED art
  \/ proc[p].trace # "empty" /\ trace = proc[p].trace /\ UNCHANGED <<art, upsets>>

Begun(state, found, trace) ==
  [state EXCEPT !.at = "summary", !.round = "first", !.journal = found, !.trace = trace]

Finalize(p) ==
  /\ proc[p].at \in {"captured", "failed"}
  /\ \E trace \in Traces : SummaryRow(p, trace) /\ Go(p, Begun(proc[p], JournalFound(p), trace))
  /\ UNCHANGED <<exported, order, met>>

(***************************************************************************)
(* _finalize_per_run_artifacts, up to three times: the first; a retry with *)
(* a fallback summary, which keeps the result, and no journal to copy;     *)
(* and the last, in the finally clause.                                    *)
(***************************************************************************)
FaultyRaised(state) ==
  CASE state.round = "first" -> [state EXCEPT !.round = "retry", !.at = "summary"]
    [] state.round = "retry" -> [state EXCEPT !.at = "missing"]
    [] OTHER -> [state EXCEPT !.at = "close"]

Raised(state) ==
  CASE state.round = "first" -> [state EXCEPT !.round = "retry", !.at = "summary"]
    [] state.round = "retry" -> [state EXCEPT !.manifest = TRUE, !.at = "missing"]
    [] OTHER -> [state EXCEPT !.at = "close"]

Emitted(state) == [state EXCEPT !.at = IF state.round = "last" THEN "close" ELSE "repair"]

FaultyFallbackResult(state) == "missing"
FallbackResult(state) == state.summary

SummaryOf(state) ==
  CASE state.round = "first" -> "ok"
    [] state.round = "retry" -> FallbackResult(state)
    [] OTHER -> IF state.summary = "none" THEN "missing" ELSE state.summary

EmitSummary(p) ==
  /\ proc[p].at = "summary"
  /\ \/ /\ art' = [art EXCEPT ![proc[p].dir].summary = [by |-> p, says |-> SummaryOf(proc[p])]]
        /\ Touched(proc[p].dir)
        /\ Go(p, [proc[p] EXCEPT !.at = "manifest"])
        /\ UNCHANGED upsets
     \/ Upset /\ Go(p, Raised(proc[p])) /\ UNCHANGED <<art, order>>
  /\ UNCHANGED <<exported, met>>

ManifestOf(state) == state.round # "last" \/ state.manifest

EmitManifest(p) ==
  /\ proc[p].at = "manifest"
  /\ \/ /\ art' = [art EXCEPT ![proc[p].dir].manifest = [by |-> p, full |-> ManifestOf(proc[p])]]
        /\ Touched(proc[p].dir)
        /\ Go(p, [proc[p] EXCEPT !.at = "decisions"])
        /\ UNCHANGED upsets
     \/ Upset /\ Go(p, Raised(proc[p])) /\ UNCHANGED <<art, order>>
  /\ UNCHANGED <<exported, met>>

\* Only where there is none; failures leave a header, or nothing, unseen.
EmitDecisions(p) ==
  /\ proc[p].at = "decisions"
  /\ Go(p, [proc[p] EXCEPT !.at = "journal"])
  /\ LET d == proc[p].dir
     IN  IF art[d].decisions = "none"
         THEN \/ /\ art' = [art EXCEPT ![d].decisions = "rowed"]
                 /\ Touched(d) /\ UNCHANGED upsets
              \/ /\ Upset
                 /\ art' = [art EXCEPT ![d].decisions = "empty"]
                 /\ Touched(d)
              \/ Upset /\ UNCHANGED <<art, order>>
         ELSE UNCHANGED <<art, order, upsets>>
  /\ UNCHANGED <<exported, met>>

Blank(journal) == journal.kind \in {"none", "empty"}
EmptyFile == [kind |-> "empty", headed |-> FALSE, rows |-> <<>>]
Stub == [kind |-> "stub", headed |-> FALSE, rows |-> <<>>]
Copied ==
  IF exported.rows = <<>> THEN EmptyFile
  ELSE [kind |-> "rows", headed |-> exported.headed, rows |-> exported.rows]

\* A file that is created touches its directory, one that is overwritten does not.
PutJournal(d, journal) ==
  /\ art' = [art EXCEPT ![d].journal = journal]
  /\ IF art[d].journal.kind = "none" THEN Touched(d) ELSE UNCHANGED order

EmitJournal(p) ==
  /\ proc[p].at = "journal"
  /\ LET d      == proc[p].dir
         copies == proc[p].round # "retry" /\ proc[p].journal
     IN  \/ /\ copies
            /\ \/ PutJournal(d, Copied) /\ Go(p, Emitted(proc[p])) /\ UNCHANGED upsets
               \/ /\ Upset  \* the copy is cut short
                  /\ PutJournal(d, EmptyFile)
                  /\ Go(p, Raised(proc[p]))
         \/ /\ ~copies /\ Go(p, Emitted(proc[p]))
            /\ \/ Blank(art[d].journal) /\ PutJournal(d, Stub) /\ UNCHANGED upsets
               \/ Blank(art[d].journal) /\ Upset /\ UNCHANGED <<art, order>>
               \/ ~Blank(art[d].journal) /\ UNCHANGED <<art, order, upsets>>
  /\ UNCHANGED <<exported, met>>

\* After an emission that did not raise: a journal that is blank gets a header and a
\* summary row written in place or else a stub.
Repair(p) ==
  /\ proc[p].at = "repair"
  /\ Go(p, [proc[p] EXCEPT !.at = "missing", !.manifest = TRUE])
  /\ LET d == proc[p].dir
     IN  \/ Blank(art[d].journal) /\ PutJournal(d, [kind |-> "rows", headed |-> TRUE, rows |-> <<p>>]) /\ UNCHANGED upsets
         \/ Blank(art[d].journal) /\ Upset /\ PutJournal(d, Stub)
         \/ ~Blank(art[d].journal) /\ UNCHANGED <<art, order, upsets>>
  /\ UNCHANGED <<exported, met>>

\* A summary.json that is still missing is written once more; then 0 is returned.
EnsureSummary(p) ==
  /\ proc[p].at = "missing"
  /\ Go(p, Finally([proc[p] EXCEPT !.code = "0"]))
  /\ LET d == proc[p].dir
     IN  \/ /\ art[d].summary.by = NoOne
            /\ art' = [art EXCEPT ![d].summary = [by |-> p, says |-> FallbackResult(proc[p])]]
            /\ Touched(d) /\ UNCHANGED upsets
         \/ art[d].summary.by = NoOne /\ Upset /\ UNCHANGED <<art, order>>
         \/ art[d].summary.by # NoOne /\ UNCHANGED <<art, order, upsets>>
  /\ UNCHANGED <<exported, met>>

\* Closing it, too, sees to the row.
CloseTrace(p) ==
  /\ proc[p].at = "close"
  /\ \E trace \in Traces : SummaryRow(p, trace)
  /\ Go(p, [proc[p] EXCEPT !.at = "done", !.trace = "off"])
  /\ UNCHANGED <<exported, order, met>>

(***************************************************************************)
(* From outside.                                                           *)
(***************************************************************************)
\* Control-C: no `except Exception` stops it, the finally clause runs.
Interrupt(p) ==
  /\ p \in Working
  /\ Upset
  /\ Go(p, IF proc[p].round = "last"
           THEN [proc[p] EXCEPT !.at = "close", !.code = "raised"]
           ELSE Finally([proc[p] EXCEPT !.code = "raised"]))
  /\ proc[p].at # "close"
  /\ UNCHANGED <<art, exported, order, met>>

Kill(p) ==
  /\ p \in Working
  /\ Upset
  /\ Go(p, [proc[p] EXCEPT !.at = "dead"])
  /\ UNCHANGED <<art, exported, order, met>>

Run(p) ==
  \/ Prepare(p) \/ Validate(p) \/ Attach(p) \/ RunTableRolls(p)
  \/ LookAtJournal(p) \/ OpenJournal(p) \/ WriteSummary(p) \/ Finalize(p)
  \/ EmitSummary(p) \/ EmitManifest(p) \/ EmitDecisions(p) \/ EmitJournal(p)
  \/ Repair(p) \/ EnsureSummary(p) \/ CloseTrace(p)
  \/ Interrupt(p) \/ Kill(p)

(***************************************************************************)
(* Types.                                                                  *)
(***************************************************************************)
BeforePlay == {"new", "prepared", "valid", "attached"}
AfterPlay == {"played", "looked", "open", "captured", "failed"}
Emitting == {"summary", "manifest", "decisions", "journal"}
Writers == Procs \cup {NoOne}

States ==
  [at : BeforePlay \cup AfterPlay \cup Emitting \cup {"repair", "missing", "close", "done", "dead"},
   round : {"first", "retry", "last"}, dir : Dirs \cup {NoOne}, trace : Traces,
   played : {"no", "asked", "more"}, code : {"none", "0", "1", "2", "raised"},
   summary : {"none", "ok", "engine_unavailable"}, manifest : BOOLEAN, journal : BOOLEAN, heads : BOOLEAN]

Journals == [kind : {"none", "empty", "stub", "rows"}, headed : BOOLEAN, rows : Seq(Procs)]
Exports == [there : BOOLEAN, headed : BOOLEAN, rows : Seq(Procs)]

Contents ==
  [summary : [by : Writers, says : Results], manifest : [by : Writers, full : BOOLEAN],
   decisions : {"none", "empty", "rowed"}, journal : Journals]

TypeOK ==
  /\ proc \in [Procs -> States]
  /\ \A p \in Procs : proc[p].at # "new" => proc[p].dir \in Dirs
  /\ art \in [Dirs -> Contents]
  /\ exported \in Exports
  /\ upsets \in 0..MaxUpsets
  /\ met \subseteq Procs
=============================================================================
