----------------------------- MODULE RunListing -----------------------------
(***************************************************************************)
(* The run directories as clients of /api/v1/runs see them while runs are  *)
(* being written: the state of a run, the pages of the listing, ordered by *)
(* modification time with a directory's name as cursor, and the journal    *)
(* sampled for replay.  One request is one step.                           *)
(***************************************************************************)
EXTENDS RunArtifacts

CONSTANT Limits   \* the limits clients ask for, from 1 to 100

ASSUME LimitConstants == Limits \subseteq 1..100

VARIABLE page   \* a client's paging: where it is, its cursor, what it has been
                \* shown, and the directories not written to since its first page

vars == <<files, page>>

ListInit ==
  /\ Init
  /\ page = [at |-> "first", cursor |-> NoOne, seen |-> {}, calm |-> {}]

Finished(d) == art[d].summary.by # NoOne /\ art[d].manifest.by # NoOne

\* After the cursor; from the start without one, or where no directory has its name.
FaultyStartIndex(cursor) ==
  IF \E i \in DOMAIN order : order[i] = cursor
  THEN (CHOOSE i \in DOMAIN order : order[i] = cursor) + 2
  ELSE 1

StartIndex(cursor) ==
  IF \E i \in DOMAIN order : order[i] = cursor
  THEN (CHOOSE i \in DOMAIN order : order[i] = cursor) + 1
  ELSE 1

\* The runs from start on, at most limit of them.
Window(start, limit) ==
  SubSeq(order, start, IF start + limit <= Len(order) THEN start + limit - 1 ELSE Len(order))

RunsList ==
  /\ page.at # "end"
  /\ \E limit \in Limits :
       LET start  == StartIndex(page.cursor)
           window == Window(start, limit)
           more   == window # <<>> /\ start + limit <= Len(order)
       IN  page' = [at     |-> IF more THEN "next" ELSE "end",
                    cursor |-> IF more THEN Last(window) ELSE NoOne,
                    seen   |-> page.seen \cup Range(window),
                    calm   |-> IF page.at = "first" THEN Range(order) ELSE page.calm]
  /\ UNCHANGED files

\* A run writes: a directory that moves in the listing is no longer calm.
RunStep(p) ==
  /\ Run(p)
  /\ page' = [page EXCEPT !.calm = IF order' = order THEN @ ELSE @ \ {proc'[p].dir}]

Next == RunsList \/ \E p \in Procs : RunStep(p)

Spec == ListInit /\ [][Next]_vars

\* A run that returned 0 after it played, and had its directory to itself,
\* leaves a summary that says so and a whole manifest, both its own, and no run
\* that did not play leaves one that says ok: whatever two file writes failed.
ResultTrue ==
  /\ \A d \in Dirs : art[d].summary.says = "ok" => proc[art[d].summary.by].played # "no"
  /\ \A p \in Procs :
       (/\ proc[p].at = "done" /\ proc[p].code = "0" /\ proc[p].played # "no"
        /\ \A q \in Procs \ {p} : proc[q].dir # proc[p].dir) =>
         /\ art[proc[p].dir].summary = [by |-> p, says |-> "ok"]
         /\ art[proc[p].dir].manifest = [by |-> p, full |-> TRUE]

\* What a client reads of a run shown as finished stays: the result in its
\* summary changes only when another run of that id writes its own, though
\* run writes the file up to three times.
ResultSettles ==
  [][\A d \in Dirs :
       (Finished(d) /\ art'[d].summary.by = art[d].summary.by) =>
         art'[d].summary.says = art[d].summary.says]_vars

\* The events replay shows of a run: the rows of its journal below the first, which it
\* takes for the header; a stub has none.
Replayed(d) ==
  LET journal == art[d].journal
  IN  IF journal.headed \/ journal.rows = <<>> THEN journal.rows ELSE Tail(journal.rows)

\* Without failures, and when no other run was under way, the journal of a run
\* that played is its own, though it went through a file all runs share; and it is
\* what replay shows, unless the run came upon an earlier one's header there.
OwnJournal ==
  \A p \in Procs \ met :
    (/\ upsets = 0 /\ proc[p].at = "done" /\ proc[p].played # "no" /\ art[proc[p].dir].summary.by = p) =>
      /\ art[proc[p].dir].journal.rows = <<p>>
      /\ Replayed(proc[p].dir) = IF proc[p].heads THEN <<p>> ELSE <<>>

\* A client that follows the cursor to the end has been shown every directory
\* that was there and was not written to meanwhile, however others moved.
NoRunMissed == page.at = "end" => page.calm \subseteq page.seen

\* The strengthening that ResultSettles needs.  A run past its play keeps the
\* summary it holds, and what is on disk in its name is that summary.
Told(state) == IF state.summary = "none" THEN "missing" ELSE state.summary

HoldsOk(state) ==
  \/ state.at \in AfterPlay \cup {"repair", "missing"}
  \/ state.at \in Emitting /\ state.round # "last"

SummariesTold ==
  /\ \A p \in Procs : /\ HoldsOk(proc[p]) => proc[p].summary = "ok"
                      /\ proc[p].summary = "ok" => proc[p].played # "no"
  /\ \A d \in Dirs : art[d].summary.by # NoOne =>
       /\ art[d].summary.says = Told(proc[art[d].summary.by])
       /\ proc[art[d].summary.by].at \notin BeforePlay
  /\ \A d \in Dirs : art[d].summary.by = NoOne => art[d].summary.says = "none"

(***************************************************************************)
(* What does not hold.                                                     *)
(***************************************************************************)
\* Each run's journal is its own: not when two runs share export/, nor when the
\* row of one cannot be written and the row of an earlier run is still there.
OwnJournalAlways ==
  \A p \in Procs :
    (proc[p].at = "done" /\ proc[p].played # "no" /\ art[proc[p].dir].summary.by = p) =>
      Range(art[proc[p].dir].journal.rows) \subseteq {p}

\* What docs/csv.md says of the journal's writer, that it adds the header where it is
\* missing: not for the second run in a working directory, whose capture finds the
\* header of the first before it empties the file.  Replay then shows no row of it.
HeaderAdded ==
  \A p \in Procs \ met :
    (/\ upsets = 0 /\ proc[p].at = "done" /\ proc[p].played # "no" /\ art[proc[p].dir].summary.by = p) =>
      art[proc[p].dir].journal.headed

\* journal.csv "exists and is non-empty" once 0 was returned: not when the
\* capture's row is cut short, the last emission copies over the repair.
JournalFilled ==
  \A p \in Procs :
    (proc[p].at = "done" /\ proc[p].code = "0") => ~Blank(art[proc[p].dir].journal)

\* The rolls a summary reports are those the table made: not when a way of
\* driving it failed half way.
RollsTold ==
  \A d \in Dirs : art[d].summary.says = "ok" => proc[art[d].summary.by].played = "asked"

\* A trace that says RUN_COMPLETE is of a run that played.
CompleteMeansPlayed ==
  \A p \in Procs :
    (proc[p].at = "done" /\ art[proc[p].dir].decisions = "rowed") => proc[p].played # "no"
=============================================================================
