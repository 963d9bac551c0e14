------------------------------ MODULE EvoJobs ------------------------------
(***************************************************************************)
(* The two ways a job comes in: the watched folder (run_watcher, one loop  *)
(* in one process) and POST /runs (JobsHTTP, one thread a request).  Both  *)
(* launch runs; the watcher waits for its run, HTTP clients ask for it.    *)
(*                                                                         *)
(* The watcher's process may crash at any step and be started again: it    *)
(* remembers the requests it has seen in memory only, and its runs are     *)
(* threads of its process.  Files are named by numbers: the watcher takes  *)
(* them in the order of their names.                                       *)
(***************************************************************************)
EXTENDS Naturals, Sequences, FiniteSetsExt, Functions, TLC

CONSTANTS
  Files,        \* names of job files, numbers
  Job,          \* the job in each file: its id and what is wrong with it
  Keys,         \* idempotency keys of POST /runs
  Posts,        \* the requests of HTTP clients
  KeyOf,        \* the key each carries
  MaxInflight,  \* max_inflight
  MaxCrashes    \* bound: crashes of the watcher

\* A file is good, names a bundle with another hash or one that is not there, or
\* cannot be read as a job.
Flaws == {"none", "hash", "missing", "poison"}
Ids == {Job[f].id : f \in Files}

ASSUME JobConstants ==
  /\ Files \subseteq Nat /\ IsFiniteSet(Files)
  /\ \A f \in Files : Job[f].flaw \in Flaws
  /\ KeyOf \in [Posts -> Keys]
  /\ MaxInflight \in Nat \ {0} /\ MaxCrashes \in Nat

VARIABLES
  dropped,   \* the files that have been put in jobs/incoming
  incoming,  \* those that are there
  done,      \* jobs/done: the receipt of each request, or "none"
  watcher,   \* the watcher's place, what it has seen, the files it listed, its run
  runs,      \* the runs launched: for whom, by whom and their state
  posts,     \* where each POST /runs is, and its answer
  recorded,  \* JobsHTTP._runs: the run of a key, or 0
  crashes

vars == <<dropped, incoming, done, watcher, runs, posts, recorded, crashes>>

Up == [at |-> "poll", seen |-> {}, todo |-> {}, count |-> 0, file |-> 0, run |-> 0]

Init ==
  /\ dropped = {}
  /\ incoming = {}
  /\ done = [i \in Ids |-> "none"]
  /\ watcher = Up
  /\ runs = <<>>
  /\ posts = [p \in Posts |-> [at |-> "new", run |-> 0, code |-> 0]]
  /\ recorded = [k \in Keys |-> 0]
  /\ crashes = 0

\* A client renames a file into the folder: the name appears with its contents.
Drop(f) ==
  /\ f \notin dropped
  /\ dropped' = dropped \cup {f}
  /\ incoming' = incoming \cup {f}
  /\ UNCHANGED <<done, watcher, runs, posts, recorded, crashes>>

---------------------------------------------------------------------------
(* ControlSurface.launch, and the end of a run's thread.  When a run launched *)
(* over HTTP ends, nothing here changes but what its client is told.          *)

Launched(by, id) == Append(runs, [by |-> by, id |-> id, state |-> "running"])

RunEnds(r, how) ==
  /\ runs[r].by = "watcher" /\ runs[r].state = "running"
  /\ runs' = [runs EXCEPT ![r].state = how]
  /\ UNCHANGED <<dropped, incoming, done, watcher, posts, recorded, crashes>>

---------------------------------------------------------------------------
(* run_watcher. *)

\* One poll of the folder: the listing is not looked at again.
Poll ==
  /\ watcher.at = "poll"
  /\ incoming # {}
  /\ watcher' = [watcher EXCEPT !.at = "next", !.todo = incoming, !.count = 0]
  /\ UNCHANGED <<dropped, incoming, done, runs, posts, recorded, crashes>>

\* The end of the listing, or of what max_inflight lets one poll take.
PollEnds ==
  /\ watcher.at = "next"
  /\ watcher.todo = {} \/ watcher.count >= MaxInflight
  /\ watcher' = [watcher EXCEPT !.at = "poll", !.todo = {}]
  /\ UNCHANGED <<dropped, incoming, done, runs, posts, recorded, crashes>>

Job0 == Min(watcher.todo)

\* A watcher that launches whatever it finds.
FaultyTake ==
  LET f == Job0
      j == Job[f]
      rest == [watcher EXCEPT !.todo = @ \ {f}]
  IN  /\ watcher.at = "next" /\ watcher.todo # {} /\ watcher.count < MaxInflight
      /\ IF j.flaw \in {"poison", "missing"} THEN watcher' = [Up EXCEPT !.at = "down"]
         ELSE watcher' = [rest EXCEPT !.seen = @ \cup {j.id}, !.file = f,
                                      !.at = IF j.flaw = "hash" THEN "refuse" ELSE "launch"]
      /\ UNCHANGED <<dropped, incoming, done, runs, posts, recorded, crashes>>

\* The next file: one that cannot be read ends the watcher, one whose request has
\* been seen is left where it is, and one whose bundle is missing ends the watcher
\* too, which hashes the bundle outside its `try`.
Take ==
  LET f == Job0
      j == Job[f]
      rest == [watcher EXCEPT !.todo = @ \ {f}]
  IN  /\ watcher.at = "next" /\ watcher.todo # {} /\ watcher.count < MaxInflight
      /\ IF j.flaw = "poison" THEN watcher' = [Up EXCEPT !.at = "down"]
         ELSE IF j.id \in watcher.seen THEN watcher' = rest
         ELSE IF j.flaw = "missing" THEN watcher' = [Up EXCEPT !.at = "down"]
         ELSE watcher' = [rest EXCEPT !.seen = @ \cup {j.id}, !.file = f,
                                      !.at = IF j.flaw = "hash" THEN "refuse" ELSE "launch"]
      /\ UNCHANGED <<dropped, incoming, done, runs, posts, recorded, crashes>>

Launch ==
  /\ watcher.at = "launch"
  /\ runs' = Launched("watcher", Job[watcher.file].id)
  /\ watcher' = [watcher EXCEPT !.at = "wait", !.run = Len(runs) + 1]
  /\ UNCHANGED <<dropped, incoming, done, posts, recorded, crashes>>

\* The bundle cannot be imported, or the job's flags cannot be read.
ImportFails ==
  /\ watcher.at = "launch"
  /\ watcher' = [watcher EXCEPT !.at = "fail"]
  /\ UNCHANGED <<dropped, incoming, done, runs, posts, recorded, crashes>>

\* What the receipt says of a job whose run is over.
Verdict(r) == IF runs[r].state = "finished" THEN "ok" ELSE "error"

\* Every run that has ended is receipted as done.
FaultyReceipt ==
  /\ \/ watcher.at \in {"refuse", "fail"}
     \/ watcher.at = "wait" /\ runs[watcher.run].state # "running"
  /\ done' = [done EXCEPT ![Job[watcher.file].id] = IF watcher.at = "wait" THEN "ok" ELSE "error"]
  /\ watcher' = [watcher EXCEPT !.at = IF @ = "refuse" THEN "unlink_refused" ELSE "unlink"]
  /\ UNCHANGED <<dropped, incoming, runs, posts, recorded, crashes>>

\* A run that ended in error has no artifacts_dir: `Path(None)` raises, and the job
\* gets an error receipt, as if its bundle had not been imported.
Receipt ==
  /\ \/ watcher.at \in {"refuse", "fail"}
     \/ watcher.at = "wait" /\ runs[watcher.run].state # "running"
  /\ done' = [done EXCEPT ![Job[watcher.file].id] =
                IF watcher.at = "wait" THEN Verdict(watcher.run) ELSE "error"]
  /\ watcher' = [watcher EXCEPT !.at = IF @ = "refuse" THEN "unlink_refused" ELSE "unlink"]
  /\ UNCHANGED <<dropped, incoming, runs, posts, recorded, crashes>>

\* A refused file does not count towards max_inflight.
Unlink ==
  /\ watcher.at \in {"unlink", "unlink_refused"}
  /\ incoming' = incoming \ {watcher.file}
  /\ watcher' = [watcher EXCEPT !.at = "next", !.file = 0, !.run = 0,
                                !.count = IF watcher.at = "unlink" THEN @ + 1 ELSE @]
  /\ UNCHANGED <<dropped, done, runs, posts, recorded, crashes>>

\* The process ends, with the threads of its runs and what it has seen.
Crash ==
  /\ watcher.at # "down" /\ crashes < MaxCrashes
  /\ watcher' = [Up EXCEPT !.at = "down"]
  /\ runs' = [r \in DOMAIN runs |->
                IF runs[r].by = "watcher" /\ runs[r].state = "running"
                THEN [runs[r] EXCEPT !.state = "killed"] ELSE runs[r]]
  /\ crashes' = crashes + 1
  /\ UNCHANGED <<dropped, incoming, done, posts, recorded>>

\* A watcher that takes every request once launched for seen.
FaultyRestart ==
  /\ watcher.at = "down"
  /\ watcher' = [Up EXCEPT !.seen = {runs[r].id : r \in DOMAIN runs} \cap Ids]
  /\ UNCHANGED <<dropped, incoming, done, runs, posts, recorded, crashes>>

Restart ==
  /\ watcher.at = "down"
  /\ watcher' = Up
  /\ UNCHANGED <<dropped, incoming, done, runs, posts, recorded, crashes>>

---------------------------------------------------------------------------
(* JobsHTTP.post_runs: the key is looked up under the lock, the run is       *)
(* launched outside it, and recorded under the lock again.                   *)

PostCheck(p) ==
  LET known == recorded[KeyOf[p]]
  IN  /\ posts[p].at = "new"
      /\ posts' = [posts EXCEPT ![p] = IF known # 0 THEN [at |-> "answered", run |-> known, code |-> 409]
                                       ELSE [@ EXCEPT !.at = "checked"]]
      /\ UNCHANGED <<dropped, incoming, done, watcher, runs, recorded, crashes>>

\* A bundle with another hash, or any error before the launch, is refused.
PostLaunch(p) ==
  /\ posts[p].at = "checked"
  /\ \/ /\ posts' = [posts EXCEPT ![p] = [at |-> "answered", run |-> 0, code |-> 422]]
        /\ UNCHANGED runs
     \/ /\ posts' = [posts EXCEPT ![p].at = "launched", ![p].run = Len(runs) + 1]
        /\ runs' = Launched("http", KeyOf[p])
  /\ UNCHANGED <<dropped, incoming, done, watcher, recorded, crashes>>

\* The answer goes out and the run is not recorded.
FaultyPostRecord(p) ==
  /\ posts[p].at = "launched"
  /\ posts' = [posts EXCEPT ![p].at = "answered", ![p].code = 202]
  /\ UNCHANGED <<dropped, incoming, done, watcher, runs, recorded, crashes>>

PostRecord(p) ==
  /\ posts[p].at = "launched"
  /\ recorded' = [recorded EXCEPT ![KeyOf[p]] = posts[p].run]
  /\ posts' = [posts EXCEPT ![p].at = "answered", ![p].code = 202]
  /\ UNCHANGED <<dropped, incoming, done, watcher, runs, crashes>>

---------------------------------------------------------------------------
Watch == Poll \/ PollEnds \/ Take \/ Launch \/ ImportFails \/ Receipt \/ Unlink

Next ==
  \/ \E f \in Files : Drop(f)
  \/ \E r \in DOMAIN runs, how \in {"finished", "error"} : RunEnds(r, how)
  \/ Watch
  \/ Crash
  \/ Restart
  \/ \E p \in Posts : PostCheck(p) \/ PostLaunch(p) \/ PostRecord(p)

\* The watcher's loop goes on, a run ends (max_rolls), and whoever runs the
\* watcher starts it again.
Fairness ==
  /\ WF_vars(Watch)
  /\ WF_vars(Restart)
  /\ WF_vars(\E r \in DOMAIN runs : RunEnds(r, "finished") \/ RunEnds(r, "error"))

Spec == Init /\ [][Next]_vars /\ Fairness
---------------------------------------------------------------------------
(* Properties. *)

Places == {"poll", "next", "refuse", "fail", "launch", "wait", "unlink", "unlink_refused", "down"}

TypeOK ==
  /\ incoming \subseteq dropped /\ dropped \subseteq Files
  /\ done \in [Ids -> {"none", "ok", "error"}]
  /\ watcher.at \in Places /\ watcher.seen \subseteq Ids /\ watcher.todo \subseteq Files
  /\ watcher.count \in 0..MaxInflight /\ watcher.file \in Files \cup {0}
  /\ watcher.run \in 0..Len(runs)
  /\ \A r \in DOMAIN runs : runs[r].state \in {"running", "finished", "error", "killed"}
  /\ recorded \in [Keys -> 0..Len(runs)]
  /\ crashes \in 0..MaxCrashes

RunsOf(by, id) == {r \in DOMAIN runs : runs[r].by = by /\ runs[r].id = id}

\* A request is run once by the watcher, however many files carry it, and once
\* more for each crash that made the watcher forget it.  A file that cannot be
\* read and one without its bundle end the watcher too, uncounted: the statement is
\* of folders without such files.
RunOnceACrash == \A i \in Ids : Cardinality(RunsOf("watcher", i)) <= 1 + crashes

\* A file is removed only when its request has a receipt, at whatever step the
\* watcher stops; and a receipt of a job done is there only when a run of that
\* request has finished: not for one that ended in error, that a crash cut off, that
\* still goes on or that was never launched.
ReceiptsTrue ==
  /\ \A f \in dropped \ incoming : done[Job[f].id] # "none"
  /\ \A i \in Ids : done[i] = "ok" => \E r \in RunsOf("watcher", i) : runs[r].state = "finished"

\* A run a client was told of exists, is of the client's key and is known to later
\* requests; and a key without a run has never been answered with one.
AnswersKnown ==
  \A p \in Posts : posts[p].code \in {202, 409} =>
    /\ posts[p].run \in RunsOf("http", KeyOf[p])
    /\ recorded[KeyOf[p]] # 0

\* Every file dropped gets its request a receipt, through crashes and restarts.
JobsAnswered == \A f \in Files : f \in incoming ~> done[Job[f].id] # "none"

\* What docs/CSC_BIBLE.md and docs/PHASE_CHECKLIST.md say of POST /runs, that it is
\* idempotent: the runs of a key are one.
OneRunPerKey == \A k \in Keys : Cardinality(RunsOf("http", k)) <= 1
=============================================================================
