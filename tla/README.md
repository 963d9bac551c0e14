# Crapssim-Control in TLA+: models, checks and proofs

Crapssim-Control (CSC, `crapssim_control/`) drives craps strategies: it evaluates a
strategy specification at each table event, answers with bets, sends actions to an
engine (CrapsSim, an HTTP engine or the adapter's own bookkeeping), takes commands from
outside over HTTP, records every decision, replays recorded commands, writes the files
of a run, and offers an orchestration layer that launches and stops runs.  This
directory holds TLA+ modules of its stateful parts, the TLC configurations that check
them on small instances, and proofs that TLAPS checks.

Every definition is read from the source; `PROJECT.json` (`map`) names the lines.
Line numbers below are those of the repository beside this directory; paths without a
prefix are under `crapssim_control/`, those under `docs/` and `tests/` at its root.

Check a run with `tlc -config <run>.cfg <module>.tla` (the pairs are in section 3), the
proofs with `tlapm <module>.tla`.

## 1. Inventory

### A. External command channel (`external/`, `controller.py`, `rules_engine/journal.py`)

*State.* One `CommandQueue` per run: the queue, the correlation ids seen, a counter, a
token bucket and a circuit breaker per source, the statistics.  One `DecisionJournal`
(a number and a file of lines), one `CommandTape` (a file of lines), the adapter's
`last_effect`, the run's report.  *Operations.* `enqueue` (every check, in its order),
`drain`, `record_outcome`; `ingest_command` and the POST handler;
`_on_command_rejection`; the drain loop of `handle_event` at a ROLL; `finalize_run`;
in replay `_load_replay_tape` and `_inject_replay_commands`.  *Interaction.* The HTTP
thread calls `enqueue`; a refusal calls back into the controller while the queue's lock
is held.  The controller thread drains at each roll, executes through the adapter,
reports outcomes to the queue (which feeds the breaker) and writes journal and tape,
without a lock.  *Hard.* Two threads around one queue, journal and tape; an adapter
that refuses or raises in mid-batch; truncating refills; hands replayed in one burst; a
report made while commands still arrive.  *Correct when.* Limits hold, ids are accepted
once, commands are settled once and in order, tape, counters and report agree.

### B. Controller (`controller.py` 1129-2399, `actions.py`, `templates.py`, `legalize.py`)

*State.* Point, come-out flag, rolls since the point, mode, variables, statistics, two
hand counters.  *Operations.* COMEOUT, POINT_ESTABLISHED, ROLL, SEVEN_OUT: the state
machine, the internal brain's rules behind the decision journal's safeties, the
behaviour DSL's windows, mode switches and variables, the template rendered for the
mode, the merge of the plan.  *Hard.* The same things counted at several places;
cooldowns of three scopes advanced by different events; rules that switch the mode whose
template the answer follows.  *Correct when.* Counters agree, plans are judged with the
table's point and reach the mode's template, rules keep their cooldowns.

### C. Orchestration (`orchestration/`) and plugins (`plugins/`)

*State.* `ControlSurface`: a status and a stop event per run id, a thread per run, no
lock.  `EventBus`: a bounded history, a bounded queue per subscriber, one lock.  The
plugin registries, one pair per process.  *Operations.* `launch`, `stop`, `status`;
`publish`, `subscribe`, `unsubscribe`; the run thread.  *Hard.* Test-then-set without a
lock; queues filled outside the lock; registries cleared by each run's end.  *Correct
when.* A stop reaches the runner it marks, ends are announced, nothing is lost between
backlog and feed.

### D. Evo interop (`interop/`)

*State.* Request, result and failure files in a watched folder; ids handled so far, in
memory; the jobs API's table of idempotency keys.  *Operations.* `run_watcher`,
`JobsHTTP.post_runs`.  *Hard.* Crash and restart between a result and the removal of
its request; two equal requests at once.  *Correct when.* A request runs once, its
receipt is true, every file is answered.

### E. Engine adapter (`engine_adapter.py`, `policy_engine.py`, `risk_schema.py`, `rule_engine.py`, `verbs.py`)

*State.* Bankroll, bets by box and by family, odds kept a second time, bet types,
martingale levels, session flags and counters, the risk policy, the rules' state; with a
live engine, a mirror of the engine's player and the strategy seated at its table.
*Operations.* `start_session`, `apply_action` for each verb, `cancel_bet`, `step_roll`.
*Hard.* Every verb computes its own bankroll delta; a failed verb falls back to the
mirror alone; snapshots are rebuilt from three views of the engine.  *Correct when.*
Effects add up to the bankroll, the books agree, sessions stop for real reasons,
seven-outs and odds taken are told as they were.

### F. Telemetry (`tracker.py`, `bet_ledger.py`, `bet_attrib.py`, `tracker_histograms.py`)

*State.* The tracker's counters, a ledger with entries, stacks and intents, statistics
by bet, histograms.  *Operations.* The tracker's hooks, each layer wrapping those of the
layers before it.  *Hard.* The order of wrapping; a bet resolved by name, by id, twice or
never.  *Correct when.* Totals kept apart agree.

### G. Command line, run artifacts, runs API (`cli.py`, `commands/run_cmd.py`, `run/`, `http_api.py`, `csv_journal.py`)

*State.* The files of a run directory, `export/` of the working directory, the listing
by modification time.  *Operations.* `csc run` from arguments to exit, GET /runs, GET
/replay.  *Hard.* A finalization in a `finally` block that writes files again; failing
writes; kills; two runs in one directory; a cursor over an order that moves.  *Correct
when.* What is on disk is what happened, settles, and is found.

### H. The rest

Webhooks, guardrails, table rules, the expression language, specification validation,
summaries, reports, exports, batch runner, sweeps, UI, simulators, legacy modules.  See
section 6.

## 2. Modules

| Module | Models | Builds on |
|---|---|---|
| `CommandQueue` | `external/command_channel.py` | |
| `CommandLedger` | what the channel promises its clients | |
| `CommandRun` | what every run with external commands has: limits, queue, journal, tape | |
| `CommandPipeline` | HTTP thread, controller thread, journal, tape, report | `CommandRun`, `CommandQueue`; implements `CommandLedger` |
| `ReplayPromises` | what a replay promises of its lines | `CommandRun` |
| `TapeReplay` | a live run and the replay of its tape | `ReplayPromises`, `CommandQueue` |
| `HandTracker` | `analytics/tracker.py` | |
| `PlanMerge` | templates, legalisation, plan and merge | |
| `Controller` | `handle_event` | `HandTracker`, `PlanMerge` |
| `EventBus` | `orchestration/event_bus.py` | |
| `RunSurface` | `orchestration/control_surface.py`, run threads, registries | `EventBus` |
| `EvoJobs` | `interop/watcher.py`, `interop/http_api.py` | |
| `BetVerbs` | the verbs on the adapter's own record | |
| `BetRules`, `RiskPolicy` | the WHEN/THEN rules; the risk policy | |
| `StubPromises` | what that adapter promises a client | `BetVerbs` |
| `VanillaStub` | `VanillaAdapter` on its own bookkeeping | `StubPromises`, `BetRules`, `RiskPolicy` |
| `TableStrategy` | the strategy a live session seats at the table | |
| `VanillaLive` | `VanillaAdapter` over a live engine | `BetVerbs`, `TableStrategy` |
| `BetLedger` | ledger and attribution as functions of their records | |
| `Accounts` | the tracker and its layers | `BetLedger` |
| `RunArtifacts` | `csc run` as a process among others | |
| `RunListing` | the run directories as clients see them | `RunArtifacts` |
| `CommandQueueProofs` | theorems about the queue | `CommandQueue` |
| `CommandPipelineProofs` | theorems about the pipeline and the replay | `CommandPipeline`, `CommandQueueProofs`, `ReplayPromises`; of `TapeReplay` by instance |
| `RunSurfaceProofs` | theorems about the bus and the surface | `RunSurface` |
| `EvoJobsProofs` | theorems about the watcher and the jobs API | `EvoJobs` |
| `ControllerProofs` | theorems about the controller | `Controller` |
| `RunArtifactsProofs` | theorems about the artifacts and the listing | `RunListing` |
| `AccountsProofs` | theorems about ledger, attribution and tracker | `Accounts` |
| `VanillaProofs` | theorems about the adapter | `VanillaLive`, `StubPromises`; of `VanillaStub` by instance |
| `MC...` | finite instances for TLC | the module named |

A definition named `Faulty...` is the program with a plausible mistake; no
specification uses it.  It stands before the definition it would replace, and
`PROJECT.json` (`mutants`) says which property notices.

### CommandQueue

`enqueue`, `drain` and `record_outcome` each hold the queue's lock from start to end, so
each is one action.  `Verdict` is the sequence of checks in the order of the code;
`AskLimiter` renders that the token bucket is asked only after duplicate, depth and quota
checks have passed, and that its token is gone even when the breaker then refuses.
`Refuse` records a failure with the breaker unless the breaker itself refused.  A
malformed command is a `form`: the first thing wrong with it.  The mark `_csc_replay` is a
field of the command (`replay`), whoever sends it: `enqueue` takes it out of the command
(`command_channel.py:195`), `ingest_command` passes on what a client posts
(`external/http_api.py` 82-93), and a command that has it is asked neither for depth,
quota and rate nor by the breaker.  So `LimitsHeld`, `BurstBound` and
`NothingAcceptedWhileTripped` speak of the commands without the mark, among which any
number of marked ones may be accepted; the other properties speak of all.  The clock is an
integer, read once per operation.  `accepted`, `delivered` and `results` are history
variables. The limiter is a partial function, as in the code: it is made, full, when a
source first reaches that check.  Assumed of the clients: a command has the documented
shape.  A refill period of 0 is excluded by `QueueConstants`; the code would divide by it.

### CommandPipeline

The HTTP thread (`http.pc`): `RefuseAtIngest` for what `ingest_command` answers itself;
`Submit`, which is `enqueue` and either answers or goes on, still holding the queue's
lock, to number (`HttpSeq`), journal (`HttpLine`) and tape (`HttpTape`) the refusal.  The
server handles one request at a time.

The controller thread (`ctrl.pc`): `RollEvent`, `DrainQueue`, then for each command of
the local batch one of `DuplicateInRoll`, `IllegalTiming`, `Execute`, `ExecuteRefused`
(the adapter answers "rejected") or `ExecuteRaises`; then `RecordOutcome`, `CtrlSeq`,
`CtrlLine`, `CtrlTape`.  The lock is needed for `DrainQueue` and `RecordOutcome` only.
`FinalizeRun` begins the end of the run: `CopyStats` copies the rejection counters one
by one without the lock (`CopyRaises` when a reason is counted for the first time while
they are copied: Python refuses to go on with a dictionary that has grown), `CountLines`
counts the journal's lines, `Bundle` copies the tape, and only `StopServer` ends the HTTP
server.  All the while the HTTP thread goes on.

Left out: journal lines of the run's own rules (they never reach the tape), diagnostics
routes, server start-up, the uvicorn variant of the server, and replay, which
`TapeReplay` has.

`CommandLedger` is the promise: take a command on once, settle the commands taken on one
by one in order.  The refinement maps `order` to the acceptances and `settled` to the
controller's lines on the tape.

### TapeReplay

A live run and, from `StartReplay` on, a replay run over the same game: `game` keeps the
live run's come-outs and rolls, and the second run takes them from its head.  The two runs
use one set of queue variables (`Queue`); what the controller makes of a tape's line
(`Replayed`) has the mark, what the live run's clients send may have it.  At a `Roll` the
controller stands at "inject": `InjectRefused` and `InjectCommand` are the two ways of
`_enqueue_replay_command` for the tape lines that are `Due` (of this hand or an earlier
one), `Drain` takes the queue as the batch, `Settle` gives one command its `Outcome` and
its line, `EndRoll` ends the event.  In the live run nothing is due and `Submit` stands
for the clients.  The tape is a set, because `_load_replay_tape` sorts its lines
(`Recorded`).  Execution always succeeds and a refusal is one step: what goes wrong there
is `CommandPipeline`'s subject.  The clock stands still.  Not modelled: malformed lines,
missing ids, and the lines of several runs in one file (the tape is opened for appending).

`ReplayPromises` holds `OrderKept` and `NoneLeftOut` and the variables they speak of, so
that the theorems about them name them as the run does.

### Controller, HandTracker, PlanMerge

One action per event that `derive_event` makes of a roll (`Comeout`, `SetPoint`, `Roll`,
`SevenOut`) with the whole of `handle_event` (`Handle`), in its order: the state machine
(`Entered`), the tracker (`Recorded`), the brain's rules behind the journal's safeties
(`Decided`: ticks, cooldown, scope, timing, once a roll), the tracker's point cycle, what
a SEVEN_OUT resets (`Closed`), the behaviour windows (`Prepared`, `FirstOpen`, `Armed`,
`Refusal`), the spec's rules (`RuleActions`), mode switches, variables, the plan
(`Planned`) and the merge (`Merged`).  `MakePoint` changes the table only: the code has
no branch for POINT_MADE.  Conditions are predicates of the snapshot (the point, the
drawdown, a variable); what bets are on the table is chosen anew for each event.
Commands from outside are `CommandPipeline`'s subject; one that raises leaves
`handle_event` before the statistics are counted, which is no event here.
Analytics on or off is chosen once (`tracked`).  Whether an intent is refused by the
legality gate is answered, and changes no state.

### EventBus and RunSurface

`Publish` is the locked part of `publish` (history and snapshot of the subscribers);
`Deliver` fills one queue of the snapshot; `Subscribe` is the locked part of `subscribe`,
`PutBacklog` one turn of the loop after it.  A full queue drops.

`RunSurface` takes `launch`, `stop` and the run thread one statement at a time
(`LaunchStatus` ... `LaunchStart`, `StopFlag` ... `StopReturn`, `RunBegin` ...
`RunAnnounce`).  A launch number stands for the objects the launch creates (its
`RunStatus` and its `Event`); `runs` and `flags` are the two dictionaries.  `Reuse` lets
a run id be launched again while its first run is alive; the code permits it and pairs
one launch's status with the other's event, but no text says what should happen, so the
run keeps it `FALSE`.

### EvoJobs

The watcher's loop, one step between any two effects a crash could fall between: `Poll`
lists the folder, `Take` reads a file (or skips one whose id it has seen), `Launch` starts
the run unless `ImportFails`, `Receipt` is written when the run has ended, and the file is
removed last (`Unlink`).  A run that ends in error has no directory, so that the watcher
raises where it looks for its report (`watcher.py:111`) and writes an error receipt: a
receipt says "ok" of a run that finished and "error" of anything else (`Verdict`).
`Crash` may happen anywhere, loses `watcher.seen` and kills the watcher's run; `Restart`
begins again with what is on disk.  `PostCheck`, `PostLaunch` and `PostRecord` are the
three steps of `JobsHTTP.post_runs`, run by a thread per request.  A file that cannot be
read as a job ("poison") and one whose bundle is not there ("missing", `watcher.py:70`)
raise outside the loop's `try` and end the watcher; the files of `jobs.cfg` are neither
(`Spoiled = FALSE`), since with one in the folder nothing that comes after it by name is
answered.

### BetVerbs, BetRules, RiskPolicy, StubPromises, VanillaStub

`BetVerbs` has each verb as a function from the record the adapter keeps to an *effect*
(changes of bets, a bankroll delta, a level) and `Applied` for `_apply_effect`.  Bets are
in dollars and the bankroll in half dollars, since `regress` pays half of an odd bet.
`VanillaStub` puts them behind the policy (`PolicyVerdict`: cap, drawdown, heat, recovery)
and adds `CancelBet`, `StepRoll` (early stop, rules, the roll, prop bets cleared) and
`StartSession`.  A rule's condition is a choice (`holds`), its pace is `BetRules`: once,
cooldown, scope lock, kept under an id the parser may give to several rules.
`StubPromises` holds the three properties of it and the variables they speak of, so that
the proofs can name them next to those of the live adapter.

### TableStrategy, VanillaLive

The table and the player are the engine's, and external: a bet added may be taken,
ignored or raise, a bet on the table may stay, win, lose or travel.  `Refreshed` and
`Mirrored` are the two ways a snapshot is normalised over the mirror, with what each of
them loses; `LiveEffect` has each verb of `_apply_engine_action`, among them
`LiveTakeOdds`, which takes each odds bet down whole and bets what is left of it again
without looking whether the engine took it (`OddsTaken`); `Fallback` is the
stub's handler on the mirror when the engine's verb fails.  `StopEarly` is the roll that
ends the session, `StepRoll` any other.

Starting a live session seats `ControlStrategy` for the same player the verbs bet for
(`Seated`, `FreshStrategy`); an engine that asks its strategies before a roll lets it
clear all bets and lay its own (`Asked`).  Whether an engine asks (`table.asks`), can
clear bets and takes them from a strategy is a choice, since the repository does not hold
the engine.

### BetLedger, Accounts

`BetLedger` has the ledger's operations and the attribution's as functions; `Accounts`
the hooks, in the order the layers of `layers` were attached.  A layer calls what it
wrapped, except that `on_bet_placed` and `on_bet_resolved` belong to whoever was attached
last (`Owner`).  `due` makes the table call the point hooks after the roll that caused
them.

### RunArtifacts, RunListing

A `csc run` is a process whose place (`proc[p].at`) lies between any two writes: take a
directory, validate, attach, play, write the capture's journal, the summary and the
manifest, then `_finalize_run_artifacts` with its emissions, repairs and fallbacks, once
in the block that played and again in `finally`.  A write may fail, `Interrupt` raises in
the process, `Kill` ends it; `MaxUpsets` bounds the three together.  What fails is a
write: that the run directory cannot be made (`cli.py:742`) or the manifest not be put
together (`cli.py:810`), either of which skips the first emission and its retry, is left
out.  `export/journal.csv` is shared by all processes of a working directory.  Whether the
capture writes a header is settled on that file as it was (`LookAtJournal`, `heads`),
before opening it empties it (`OpenJournal`): over an earlier run's journal a row comes
without a header (`Written`), and replay takes the first row it finds for one
(`Replayed`). `RunListing` adds a client that pages through the directories in the order
of their modification (`order`), which a run in progress changes.

## 3. Runs

| Run (module) | Bounds | Shows |
|---|---|---|
| `queue_live` (`MCCommandQueue`) | 2 sources, 3 ids, depth 2, quota 1, 1 token per 2 s, breaker 2 in 2 s, clock to 3, 5 operations, 1 marked command accepted | `CountsMatchQueue`, `LimitsHeld`, `HandedOverInOrder`, `BurstBound`, `AcceptedAtMostOnce`, the breaker in both directions (`NothingAcceptedWhileTripped`, `TripNeedsStreak`) |
| `pipeline_faults` (`MCCommandPipeline`) | 1 source, 3 ids, 2 bodies, 3 answers, none marked, an adapter that refuses and raises, a run that is finalized | `TapeCitesJournal`, `AppliedOnce`, `StatsMatchTape` (the report's and the bundle's copies included) |
| `pipeline_ledger` (`MCCommandPipeline`) | the same with 1 body, 1 marked command, no raising, the run goes on, fair | refinement of `CommandLedger`; `AcceptedIsSettled` |
| `replay` (`MCTapeReplay`) | 1 source, 3 ids, 2 bodies, depth and quota 1, 3 commands, 2 rolls, 2 hands, timing may fail | `OrderKept`, `NoneLeftOut` |
| `replay_divergence` (`MCTapeReplay`) | the same, timing never fails | **violated**: `ReplayMatchesLive` (section 5) |
| `surface` (`MCRunSurface`) | 1 caller; 2 launches, or 1 launch with a subscriber; history and queue of 2; fair | `StopReachesRunner`, `NothingBetween`, `StartSeenBeforeEnd`, `EndAnnounced` |
| `jobs` (`MCEvoJobs`) | 3 files, two of one id and one with a wrong hash; 1 crash; 2 HTTP requests of one key; 2 jobs a poll; runs that finish or end in error; fair | `RunOnceACrash`, `ReceiptsTrue`, `AnswersKnown`, `JobsAnswered` |
| `controller` (`MCController`) | 4 events, points 6 and 8, 2 modes and one no template has, 6 spec rules, 3 behaviour rules (a scope each), 3 brain rules | `CountersAgree`, `PlanReached`, `PointSeen`, `DslPaced` |
| `stub` (`MCVanillaStub`) | 3 calls, 1 box, all verbs, a cap and a recovery, 3 rules of which two share an id | `EffectsTellBankroll`, `BooksMatch`, `RulesPaced` |
| `live` (`VanillaLive`) | 3 calls, 2 boxes, all verbs, 4 bets, an engine that takes, ignores or raises, and asks its strategy or not | `StopJustified`, `SevensReported`, `TakesWhatIsAsked`, `StrategyKeepsPhase` |
| `accounts` (`MCAccounts`) | 5 events, 3 mentions of 2 bets, 3 layers in 2 orders | `LedgerTrue`, `IntentsPaired`, `CountsAgree` |
| `artifacts` (`MCRunListing`) | 2 processes, 3 directories of which 2 are older, 2 upsets, pages of 1 | `ResultTrue`, `OwnJournal`, `NoRunMissed`, `ResultSettles` |

*Why the bounds are enough.*

- `queue_live`: every limit is met.  Two commands fill the queue, one fills a quota and
  a bucket, two failures trip a breaker, and the clock can pass a refill period and a
  cool-down and stand in the middle of either.  Five operations allow a trip, a refusal
  by the open breaker, a cool-down and another acceptance.  One marked command
  (`MaxMarked`) is enough to stand before, between or behind those the limits count, to
  pass a full queue, an empty bucket and an open breaker.
- `pipeline_*`: three answers allow a batch of two, a duplicate in a roll, and a refusal
  between any two steps of the controller or of the finalization.  `pipeline_ledger` has
  no finalization, so that what its `AcceptedIsSettled` shows is that duplicates, refusals
  and waiting for the lock leave no command behind while the table goes on rolling.
- A marked command differs from another in the pipeline only in that `enqueue` asks less of
  it; `pipeline_ledger` has one, `pipeline_faults` none, to keep it small: its properties speak
  of commands accepted and refused, however that came about.
- `replay`: depth and quota of one make one command a roll the limit, so that two
  commands of one hand pass only by the replay mark; two hands and two rolls put commands
  of one hand in two rolls and of two hands in one tape.
- `surface`: a history of two and queues of two overflow with the four events of one
  stopped run; two launches are what it takes for one run to disturb another.
- `jobs`: one crash at each step, with a second file of the same id before and after it.
- `controller`: four events are a come-out, a point, a roll or a point made, and a
  seven-out or the next point; cooldowns of one and two are met and passed in them.
- `stub`, `live`: a verb, another that works on what it left, and a roll; on the
  come-out, a point, and a third roll with the point.  Of the boxes only a move needs
  two.  In `live` bets of one family fare alike on a roll, and one of adding and removing
  goes wrong.
- `accounts`: an intent, a bet placed, a second, and two resolutions; the hooks that
  follow a roll are not counted.
- `artifacts`: two failing writes cover one in the block that played and one in the
  `finally`, and the second process may come before, during or after the first; a listing
  of three directories in pages of one has a cursor in the middle
  while a run moves.  The client pages only while nothing has failed
  (`PagesInPeace`): what a page holds does not depend on upsets.

`MCCommandQueue` counts operations by the statistics, takes one malformed shape for the
three the queue treats alike and one outcome reason for both, and lets `Drain` happen on
a non-empty queue.  `MCRunSurface` splits the behaviours into two scenes, one with
launches and one with a subscriber and the runner's own events.  Symmetry is used for
safety only, on sets whose members the module never tells apart.  Deadlock is checked
in `surface`, where a caller can always call `stop` again; elsewhere a bounded instance
really stops when its bound is used up.

*Fairness.*  `CommandPipeline!FairSpec` has weak fairness of each thread's steps and of
rolls: operating system threads are scheduled, and the table goes on rolling while the run
goes on (`CanFinish = FALSE`; a command queued after the last roll stays in the queue,
since `finalize_run` never drains, and the run says nothing of it).  The controller's wait
for the lock needs no more than weak fairness there because the clients of the instance
send finitely many commands; with an endless stream of refusals it would need a fair lock,
which Python's is not promised to be.  `RunSurface!FairSpec` has weak fairness of each
thread, including that every runner returns or raises; the code sets no time limit on a
runner. `EvoJobs!Fairness` has weak fairness of the watcher's loop, of the ends of runs
(which `max_rolls` bounds) and of whoever starts the watcher again.  No fairness is asked
of clients, of `stop`, of subscribers, of crashes or of POST requests.

## 4. Proofs

### CommandQueueProofs

For every set of sources and ids, every limit, and any commands with and without the mark
of a replay:

| Theorem | States |
|---|---|
| `TypeCorrect` | `Spec => []TypeOK`; in particular no bucket exceeds its size |
| `LimitsCorrect` | `Spec => []LimitsHeld` |
| `CountsCorrect` | `Spec => []CountsMatchQueue` |
| `OrderCorrect` | `Spec => []HandedOverInOrder` |
| `AcceptedOnceCorrect` | `Spec => []AcceptedAtMostOnce` |
| `TripCorrect` | `Spec => NothingAcceptedWhileTripped` |
| `CauseCorrect` | `Spec => []TripNeedsStreak` |
| `BurstCorrect` | `Spec => []BurstBound` |

Assumptions: `QueueConstants` only, which TLC evaluates in each run of the queue.

`TypeCorrect` is inductive as it stands; its difficulty is the bucket, so `RefilledType`
and `TakeToken` are lemmas about one bucket.  `HandedOverInOrder` needs only types.
`LimitsHeld` speaks of each unmarked command and of those before it, which are as many as
when it was accepted: nothing leaves the queue but all of it.  `CountsMatchQueue` follows
from how the set of a source's positions in the queue changes under `Append`.
`AcceptedAtMostOnce` is not inductive: it needs that every accepted id is in `seen` and
that only unseen ids are accepted.

The two theorems about the breaker rest on what its two fields mean.  For
`NothingAcceptedWhileTripped`, an action property, `BreakerInv` says that the streak
counter *equals* the length of the run of failures that ends the source's record, and
that once it reaches the limit `trippedUntil` is at least the last failure's time plus
the cool-down; `RecordKeepsStreak` proves that recording a result preserves it.
`TripNeedsStreak` is the converse: `BreakerInv` supplies the streak at the moment of a
trip, and afterwards the record only grows (`RecordKeepsCause`).

`BurstBound` counts what a source had accepted without the mark since any time *t*.  It is
far from inductive, since the bucket knows nothing of *t*.  The invariant `Accounts` is an
account kept for every *t* at once: the acceptances since *t* and the tokens left come to
at most one bucket and the refill periods *begun* between *t* and the bucket's stamp.  A
token spent on an acceptance moves from one side of the account to the other.  A refill
adds whole periods *completed* since the stamp and moves the stamp to the present;
`BegunThenCompleted` shows that the new stamp pays for them.  A window that begins after
the stamp pays for nothing, so `Accounts` also says that nothing was accepted a whole
period or more after the stamp.  The facts about periods (`FewerPeriods`, `WholePeriods`,
`BegunPeriods`) reduce rounded division to inequalities of products.

### RunArtifactsProofs

For any number of processes, directories and upsets, and any order of their steps:

| Theorem | States |
|---|---|
| `TypeCorrect` | `Spec => []TypeOK` |
| `SummariesCorrect` | `Spec => []SummariesTold`: the strengthening below |
| `ResultsSettle` | `Spec => ResultSettles`: the result shown of a finished run changes only when another run of that id writes its own |
| `ResultsTrue` | `Spec => [](upsets <= 2 => ResultTrue)` |
| `OwnJournals` | `Spec => []OwnJournal`: a solitary run's journal has its row alone, and replay shows that row if the run wrote a header and nothing if it did not |
| `ListingCorrect` | `Spec => []NoRunMissed` |

Assumptions: `ArtifactConstants`, and `LimitConstants` (the route clamps a limit to
1..100) for `ListingCorrect`; TLC evaluates both in `artifacts`.

`ResultSettles` is an action property about files that a process writes up to three
times, with failing writes and interrupts between.  `IInv` is `TypeOK` with
`SummariesTold`: a process past its play holds a summary that says "ok" (and only one
that played does), what is on disk in a process's name is the summary it holds, and no
process writes one before it has played or failed to.  A rewrite then repeats what is
there.  There is a lemma per step of a process (`PrepareStep` ... `KillStep`) that says
what the step does to the process's record and to the files, and under it generic lemmas
(`OwnStep`, `FinallyStep`, `OnStep`) for what every step shares; `StepKeeps` concludes.

`ResultTrue` is the property of a program that swallows its failures: a write that raises
leads to a retry, then to a fallback, and 0 is returned all the same.  With three upsets
it is false (a manifest that fails in each of the three emissions; TLC shows it with
`MaxUpsets = 3`), so the theorem is about states with at most two, whatever `MaxUpsets`
is.  `Due` says for each place of a process after its play what must be on disk, or else
that two upsets have been spent on it: the retry and the fallback each cost one, so that
the last emission, which repairs both files, cannot fail a third time.  It needs `Careers`
(0 is on its way only in the last emission, with a manifest in hand), and that a process
alone in its directory is not written over (`Alone`).

`OwnJournal` is about `export/journal.csv`, which every run of the working directory
truncates, fills and copies.  `Carries` follows the row of one process, and whether it
stands below a header, through `export/` into its directory.  It survives the steps of
others since processes at work at the same time have met (`Solitary`), and, once the
process is done, since one that comes to the same directory replaces the summary before it
touches the journal (`Replaces`).  A lemma per step (`PrepareTurn` ... `KillTurn`) serves
both theorems: `Turn` says what a step leaves alone (`Moves`, `Leaves`) and that it keeps
what is due and what is carried.

`NoRunMissed` is about a cursor into an order that moves.  `Paging` says that what is calm
has been shown or is listed *after* the cursor, wherever that is by now (`Behind`).  A
directory that moves to the front passes no calm one past another (`TouchedLists`), be it
the cursor's own; a step touches only its process's directory (`RunTouches`), which is
then calm no more; and a page shows what follows the cursor up to its last entry, which
becomes the cursor (`PageShows`).

### CommandPipelineProofs

For any clients, limits and number of rolls, any interleaving of the HTTP and the
controller thread, and an adapter that may refuse (and, but for `LedgerKept`, raise):

| Theorem | States |
|---|---|
| `QueueUsed` | `Spec => Queue!Spec`: the pipeline uses the queue as a queue |
| `QueueCorrect` | the queue's invariants inside the pipeline |
| `TypeCorrect` | `Spec => []TypeOK` |
| `AppliedOnceCorrect` | `Spec => []AppliedOnce` |
| `CitationCorrect` | `Spec => []TapeCitesJournal` |
| `CountersCorrect` | `Spec => []CountersMatchTape` |
| `StatsCorrect` | `Spec => []StatsMatchTape`: the same, and what the report and the bundle say at the end |
| `LedgerKept` | `Spec => LedgerSpec` where the adapter does not raise |
| `ReplayKeepsOrder` | `Tape!Spec => []OrderKept`, of `TapeReplay` |
| `ReplayLeavesNothingOut` | `Tape!Spec => []NoneLeftOut`, of `TapeReplay` |

Assumptions: `PipelineConstants` and `QueueLimits` (the limits are a queue's), which TLC
evaluates in the pipeline's runs; `~CanRaise` for `LedgerKept`, since a raising adapter
leaves drained commands unsettled (section 5, `DrainedIsTaped`).  The two about the replay
assume nothing of the limits, the number of rolls or the timing gate.

`QueueUsed` brings the theorems of `CommandQueueProofs` into the pipeline.  `AppliedOnce`
then needs that the batch is what remains of the commands handed over (`BatchIsRest`)
and that what was applied is among those before it, once each: since nothing is accepted
twice, nothing is handed over twice.  `TapeCitesJournal` is about two threads that take a
number, write a line and write the tape in three steps without a lock: `Citing` says that
a number taken and not yet written is its thread's alone, and that a line written and not
yet taped is in the journal.  `CountersMatchTape` counts, for each reason, what a thread
has counted and not yet taped (`Pending`).

`StatsMatchTape` adds the report, which `finalize_run` makes in four places without the
lock while the HTTP thread goes on.  `Booked` says that the counters, the journal and the
tape count the same commands but for what a thread has under way; `Told` says for each
place of `finalize_run` what the report holds by then: counters copied one by one lag
behind the queue's, and the lines counted are among the journal's.  The refusals of all
reasons are one set of pairs (`Refusals`), so that a counter one higher is a set with one
more member.  For `LedgerKept`, `SettledInOrder` says that
the lines of drained commands on the tape are the commands handed over, in order, but for
the one in hand; each step is then a step of `CommandLedger` or leaves it alone.

*The replay.*  `ReplaySteps` puts the steps of the two runs, in terms of lines and queues,
on a list of eleven.  The invariant (`RunsInv`) has a half for each run.  The live run's:
the tape has the journal's lines, numbered in order and of hands that never go back
(`LiveLines`); no command is queued, in the batch or executed twice (`LiveOnce`); and each
executed line's hand has a roll among the events of the game (`LiveGame`, which counts the
hands over the history).  `StartsRight` hands this over: `RecordedIs` shows that sorting
the tape by rank gives the live journal back.  The replay's half: what is pending is the
rest of the tape and what the queue has seen is the rest of the ids (`PendingInv`), so the
queue refuses nothing that is injected (`NextLine`); an executed command still pending has
a roll of its hand to come, or this one (`ReplayGame`), so it is never injected late; what
waits and what was executed follow one another as their lines do (`OrderInv`); and the
lines of an id in the journal, in the queue and in the batch together are those injected
(`CountInv`).  `OrderKept` needs the third and fourth, `NoneLeftOut` the first and the last.

### RunSurfaceProofs

Of the bus (`EventBus`, as the surface's instance `Bus`):

| Theorem | States |
|---|---|
| `BusInvariant` | `Bus!Spec => []BusInv` |
| `BusTypeCorrect` | `Bus!Spec => []Bus!TypeOK` |
| `BusCorrect` | `Bus!Spec => []Bus!NothingBetween` |

Assumption of each: `Bus!EventBusConstants`.  Inductive is `BusInv`.  Its heart,
`Complete`, says of each subscriber that what it has (received and queued), what is under
way to it (in its backlog or in the hands of a publisher that has left the lock) and what
was dropped are apart and are together every event since the first of its backlog
(`Whole`).  That holds because no two publishers hold the same event and none is also in a
backlog (`HandsApart`, `BacklogsApart`), and because the history's numbers are consecutive
(`Remembers`).  There is a lemma per step.

Of the surface:

| Theorem | States |
|---|---|
| `ThreadsKept` | the types, and what a thread's place says of the run it works on |
| `StopCorrect` | `Spec => []StopReachesRunner` where ids are not used again |
| `BusUsed` | `Spec => Bus!Spec`: the surface uses the bus as a bus |
| `FeedCorrect` | `Spec => []NothingBetween` |
| `StartCorrect` | `Spec => []StartSeenBeforeEnd` |

Assumptions: the constants' own (`BusConstants` among them), and `~Reuse` for
`StopCorrect`: with a run id launched again while its first run is alive, `stop` may mark
one run and signal the other (section 2).  `StartCorrect` needs no such assumption.

`StopReachesRunner` relates `state`, `flags` and the runner's own event, which `stop` and
`launch` touch in separate steps: `Reached` says for each place of a call and of a run
thread which launch it means, and that without reuse the entry of an id stays the one its
only launch made.  `StartSeenBeforeEnd` rests on two invariants: `StartsAndEnds`, each
launch publishes at most one start and one end, the end after the start; and
`SeenInOrder`, a subscriber that has, or is owed, the start has nothing of the end
before it: the launching thread has filled every queue before it starts the run thread,
so a start still under way has no end yet.

### EvoJobsProofs

| Theorem | States |
|---|---|
| `JobsInvariant` | `Spec => []IInv` |
| `TypeCorrect` | `Spec => []TypeOK` |
| `ReceiptsCorrect` | `Spec => []ReceiptsTrue`: a removed file has its receipt, and "ok" is said only of a request of which a run has finished |
| `AnswersCorrect` | `Spec => []AnswersKnown` |
| `RunOnceCorrect` | `Spec => []RunOnceACrash` where every file can be read and has its bundle |

Assumptions: `JobConstants`; `Readable` for `RunOnceCorrect`, since a file that cannot be
read, or that has no bundle, ends the watcher as a crash does and is not counted as one
(with files `0:a`, `1:a` and an unreadable third TLC finds a second run of `a` without a
crash).

`IInv` says what the watcher's place implies: the file in hand is a request, the run in
hand is of that request and was not cut off, a request about to be removed has its
receipt (`InHand`, `Receipted`), and what POST answers names a run of the key
(`Answering`).  `RunOnceACrash` needs `SeenIsRun`: a request not seen in the watcher's
present life has at most one run for each life that has ended.

### ControllerProofs

For every template, rule set and behaviour rule, and any course of the game:

| Theorem | States |
|---|---|
| `CountersCorrect` | `Spec => []CountersAgree` |
| `PointCorrect` | `Spec => PointSeen` |
| `PacedCorrect` | `Spec => DslPaced` where rules of one id ask for one cooldown |
| `PlanCorrect` | `Spec => []PlanReached` |

Assumptions: `ControllerConstants`; `PlanConstants` (every bet key names a bet) for
`PlanCorrect`; `SameIdSameCool` for `PacedCorrect`: `parse_rules`
does not refuse two rules of one id and the engine keeps cooldowns by id, so that a rule
without a cooldown re-fires an id that another rule meant to silence (TLC shows it when
the instance's second rule takes the first one's id).

`HandleFacts` reduces `handle_event` to what the counters and the behaviour engine become.
The counters agree by the tracker's operators (`RecordedCounts`): whatever the point
cycle and the bankroll do, a recorded event is one roll more, and one hand more exactly
where the fallback counts one (`OpensHand` asks the tracker or the flag).

`PointSeen`, an action property, holds though the controller keeps the point after a
POINT_MADE.  Its invariant `Pointed` asks nothing of the controller while the puck is off;
while it is on, controller and tracker know the point and the rolls made for it, since
only POINT_ESTABLISHED puts it on.  It needs the counts: a roll outside a hand would open
one and take the tracker off its point, and with a point on there is a hand.

`DslPaced` is
an action property about the history; its invariant `Waits` says of each rule that has
fired that what is left of its cooldown and what has gone by since come to more than the
cooldown.  A tick moves one from the first to the second, and a rule that fires has
nothing left of the first (`FirstOpenIsOpen`).

`PlanReached` speaks of one step, but through five recursions over sequences: the rules,
the plan's clears and sets, the split, the merge, and what envelopes do on a table.  Two
relations carry the argument, `Says(s, b, a)` (the last envelope of `s` on bet `b` is `a`)
and `Silent(s, b)` (there is none): what is picked keeps a last word that is picked
(`PickedSays`), of two sequences the second has it (`ConcatSays`), the merge keeps it
(`MergedSays`), and it decides what lands on the bet if it sets or clears (`LandedIs`).
The plan's last word on a bet is what the template wants there (`DiffSays`); the rules
come after the plan in the merge, so theirs is the answer's where they have one
(`AnswerSays`).  What the recursive functions compute is proved by `Climb`, as in
`AccountsProofs`; `StepsExist` says once that such a recursion has a solution.

### AccountsProofs

For every set of bets and amounts, any layers in any order and any number of events:

| Theorem | States |
|---|---|
| `AccountsInvariant` | `Spec => []IInv` |
| `TypeCorrect` | `Spec => []TypeOK` |
| `LedgerCorrect` | `Spec => []LedgerTrue` |
| `StacksCorrect` | `Spec => []OwnStacks`: a name's stack holds only its own entries, each once |
| `IntentsCorrect` | `Spec => []IntentsPaired` |
| `CountsCorrect` | `Spec => []CountsAgree` |

Assumption: `AccountsConstants`.

`IInv` is `TypeOK`, what a ledger keeps (`Kept`) and what the layers count (`Counted`,
`StatOK`).  `Kept` has four parts: the stacks (`Stacked`: every id is an entry's of that
name, once, and every open entry is on its stack), the keys (`Keyed`), the totals
(`Summed`) and the intents (`Paired`).  Each operation of the ledger has a lemma that says
it keeps them (`PlacedOK`, `ResolvedOK`, `IntendedOK`, ...).  The totals need the stacks:
an entry that is resolved twice would be subtracted twice, and it is on a stack or open
only once.  `LedgerTrue` and `CountsAgree` are about sums over entries and numbers rolled.
`SumTo` is a recursive function; that changing one term changes the sum by as much
(`SumMoved`), that a longer sequence adds its last term (`SumLonger`), and that equal terms
have equal sums (`SumSame`) is proved by an induction over the numbers up to *n*
(`Climb`), which rests on there being no injection of a finite set into a smaller one.

### VanillaProofs

Of `VanillaLive`, for every set of boxes, amounts and minimums, whatever methods the
engine has and any number of calls:

| Theorem | States |
|---|---|
| `StopCorrect` | `Spec => []StopJustified` |
| `SevensCorrect` | `Spec => SevensReported` |
| `PhaseKept` | `Spec => []StrategyKeepsPhase` |
| `TakesAsked` | `Spec => TakesWhatIsAsked`: the bankroll gains what stops riding; that is what was asked or all there was, and more only by the rest of one bet not taken again |

Assumptions: `BetConstants`, for `PhaseKept` and `TakesAsked` (the totals are numbers, so
that the point is one), and for `TakesAsked` `LiveConstants` (of the amounts asked for
there is a largest, which the verbs other than the odds ask for).  `AnswerOfVerb` goes
through what a verb may become (no change, the engine's effect, the fallback's) to say
that its answer never passes for one of a roll. `SevensReported` is an action property:
what the adapter concludes from the snapshot it took before the roll agrees with the
table.  `StrategyKeepsPhase` speaks of the bets the dice found; its invariant `PhaseInv`
says that once a round is laid for a point the strategy is armed for that same point, and
that the table puts a point on only where there was none, so that nothing but a come-out
can disarm it in between.

*What is taken of the odds.*  `TakesWhatIsAsked` compares an answer with the bets before it,
so its invariant `SeatedInv` says what those bets are: the player's money is whole and every
bet has a number for its amount.  Each verb leaves such a player (`LiveLeaves`), and so do the
roll (`ReadyPlayer`, `SettledPlayer`) and the removals (`WithoutPlayer`).  `take_odds` goes
through a copy of the bets while it removes from the list itself, and bets again what a bet
has left, which the engine puts behind the others, ignores or refuses.  `Halfway` says where
it is after *k* of them: what counts as taken is the smaller of the amount asked for and what
rides on the first *k*; what is gone from the table has reached the bankroll, is no less than
that, and more only by less than one of the bets (`GotBack`); and while something is left to
take nothing more is gone and `Ahead` holds: the bets behind ride on other odds or
have nothing left, those ahead are as they were.  So the first bet equal to the one looked for
is the one meant (`FirstOfItsKind`), though other bets may be equal to it.  An engine that
ignores the removals never pays the player (`Unhelped`), so that the answer's bank is not
positive.  The folds over the bets are pinned by `RunsExist`, `SumsGrow` and
`OddsFoldExists`, each by an induction over the numbers up to *n* (`Climb`).

Of `VanillaStub`, whose definitions the module reads as `Stub!...`, for every rule set,
every policy a session may be started with and any number of calls:

| Theorem | States |
|---|---|
| `RulesKeepPace` | `Stub!Spec => []RulesPaced` |
| `BankrollTold` | `Stub!Spec => []EffectsTellBankroll` |
| `BooksCorrect` | `Stub!Spec => []BooksMatch` |

Assumptions: `RuleConstants` (the rules are a sequence, cooldowns are numbers),
`BetConstants`, and for the last two `RuleActions`: a rule asks for what the verbs read,
by a number or by a mapping.

*The pace.*  `RulesPaced` alone is not inductive: rules may share an id, and what one has
left there another reads.  `PacedInv` keeps for every rule `Spaced`: its firings are
apart, none is later than the rolls made, a once rule that fired has its state disabled,
and of the rolls it must sit out as many are left in the cooldown of its id as the firing
asks for, whoever wrote there last.  `EvaluatedLooks` gives the evaluation as one look
after another (`Looks`), each of which either fires and restarts the cooldown or leaves it
at least as long (`Held`); `SpacedStep` takes a rule through all of them.

*The books.*  `BooksInv` says of the adapter's record that its amounts are whole and its
bets not negative (`Booked`), that a type has money on its box (`TypesBacked`), that the
bankroll is what was told, and that the odds agree until a roll.  `EffectOfWhole` goes
through the verbs to say that every effect moves whole amounts; `AppliedBooks` and
`AppliedOdds` take an effect through `Applied`, the removals being the ones that clear the
odds they refund; `RolledBooks` takes a roll through the renaming of the bets.  The sums
over bets are the library's fold, whose value is pinned by `SumFacts`, through an
induction over the size of the set (`Climb`, `FoldsExist`).  `ActedSound` and
`PlayedSound` then carry the books through a request, blocked, refused or carried out, and
through the actions of the rules that fired before a roll, one after another.

### Model-checked only

- *Liveness*: `AcceptedIsSettled`, `EndAnnounced` and `JobsAnswered` are temporal under
  fairness, out of the prover's reach.

## 5. Where the code differs from what is said of it

`replay_divergence` is a run: all commands of a hand are injected at the
hand's first roll (`controller.py:804`), where the duplicate check of one roll meets
commands that the live run executed at different rolls; the second of two equal ones
becomes `duplicate_roll`.  `docs/external_commands.md:73` promises a deterministic replay,
and `tests/test_command_tape_replay.py:99` compares the two runs' summaries.

The other statements below are definitions that no run lists.  Each is violated: name it
as INVARIANT or PROPERTY, alone, in the configuration given, and TLC shows how.

| Definition | Configuration | What the code does |
|---|---|---|
| `DrainedIsTaped` (invariant) | `pipeline_faults` | `handle_event` has no `try` around an external action (`controller.py:2272`): when `HttpEngineAdapter` raises, the command and the rest of the batch leave no trace, though `docs/command_tape.md:25` says that every command is appended after it is processed |
| `TapeReflectsOutcome` (invariant) | `pipeline_faults` | `executed = True` follows whatever the adapter answers (`controller.py:2273`): a refused command is counted, journalled and taped as executed |
| `ServerStops` (invariant) | `pipeline_faults` | the report copies the rejection counters while the HTTP thread counts (`controller.py:2622`); a reason counted for the first time makes the copy raise before the server is stopped |
| `EndIsVisible` (property) | `surface` | `stop()` tests and assigns the state without a lock: a run that ends in between stays "stopping", and the loop of `tests/test_orchestration_surface.py:35` never sees its end |
| `PluginsHeld` (property) | `surface` | each run's end empties the process-wide registries, though `docs/CSC_BIBLE.md:115` speaks of per-run isolation |
| `OldestDroppedFirst` (invariant) | `surface` | the comment at `orchestration/event_bus.py:37` says that the oldest items are dropped; the loop drops the newest |
| `OneRunPerKey` (invariant) | `jobs` | check, launch and record of a key are separate steps of request threads: two equal requests at once launch two runs, though `docs/PHASE_CHECKLIST.md:28` and `docs/CSC_BIBLE.md:856` call POST /runs idempotent |
| `BrainPaced` (property) | `controller` | what the rules' evaluation hands to the journal's safeties carries no cooldown (`controller.py` 1320-1348), though `docs/decision_journal.md:6` promises one |
| `HeatHeld` (property) | `stub` with `Limits = "heat"` | no snapshot the policy is given has the active bets (`policy_engine.py` 60-64), so `--max-heat` of `docs/cli_reference.md:8` never blocks; nor does a peak or a loss reach it |
| `HandCounted` (invariant) | `live` | the hand of a table without counters is 0 again in every snapshot, so the count of seven-outs is lost (`docs/CSC_BIBLE.md:363`) |
| `BetsRide` (property) | `live` | the strategy the session seats clears the bets the verbs made on each come-out and new point (`engine_adapter.py:3642`), and where the engine has no method for it the stakes are gone |
| `SessionHits` (invariant) | `accounts` | the histograms count each roll in `tracker.hits` and the tracker counts it again |
| `OwnJournalAlways` (invariant) | `artifacts` | two runs in one directory truncate and read each other's `export/journal.csv` (`cli.py` 974-1096) |
| `HeaderAdded` (invariant) | `artifacts` | the capture asks whether `export/journal.csv` needs a header while an earlier run's journal is still in it, and then opens it with mode "w", which empties it (`csv_journal.py` 491-493): the second `csc run` of a working directory leaves a journal without a header, though `docs/csv.md:105` says that the writer adds headers if missing, and GET /replay takes its row for one and shows no event (`http_api.py:174`) |
| `JournalFilled` (invariant) | `artifacts` | the emission in `finally` copies an empty journal over the one that was repaired (`cli.py:1563`, against the comment at `cli.py:148`) |
| `CompleteMeansPlayed` (invariant) | `artifacts` | `decisions.csv` says RUN_COMPLETE of a run that failed its validation (`run/decisions_trace.py` 42-93) |
| `RollsTold` (invariant) | `artifacts` with `Drives = {"asked", "more"}` | a way of driving the table that fails midway leaves rolls that the next one does not know of (`cli.py` 292-345) |

Met while modelling, with no definition of their own:

- Any client may set `_csc_replay` in a posted command: it then passes the depth, quota,
  rate and breaker checks of a live run (`external/command_channel.py:195`).
- A verb given a bare amount is refused by the adapter and traced as applied by the DSL;
  `switch_profile` reads an argument the DSL does not send and becomes "default".
- POINT_MADE has no branch in `handle_event`; until the next event the controller keeps
  the point made.  `PointSeen` says why no plan is judged with it.  When
  POINT_ESTABLISHED follows SEVEN_OUT without a come-out, hand counts differ with and
  without analytics.
- The merge drops what the template set when a rule presses or reduces the same bet; a
  mode without a template clears every bet.
- In the adapter: a move of a bet to itself doubles it; `take_odds` pays what was never
  staked, and keeps back more than was asked where the engine does not take the rest of a
  bet again; a new session does not re-arm rules; a terminated session can roll.  With an
  engine: a bet the engine ignored is reported paid for, and a bonus bet it refused too.
- A file that cannot be read as a job ends the watcher (`Spoiled = TRUE`), and a second
  file of a request already seen is never removed.  A run that ended in error is
  receipted with the error of `Path(None)` (`interop/watcher.py:111`), not its own.
- `attach_bet_attrib` replaces the ledger's hooks when attached last; an entry resolved
  by id stays on its name's stack until it is popped there; the ledger never hears of a
  seven-out.

## 6. Not modelled, and why

- *Webhooks and hooks* (`integrations/`): posts by threads of their own to a receiver
  outside the program; nothing reads their outcome and no text promises an order.
- *The engine* (CrapsSim) and the HTTP engine's server: external packages.
  `CrapsSimAdapter`'s own `apply_action`, `step_roll` and `play` are reached by tests and
  by attaching an engine from the command line only; of `HttpEngineAdapter` only that it
  may raise.
- *The bridge's single server thread* (`orchestration/http_bridge.py`): a client that
  reads `/events` occupies it; its calls are `RunSurface`'s.
- *Plugin discovery*, version matching and sandboxed loading: input and output.
- *Guardrails* rewrite a specification before a run, for display; *table rules* have no
  importer outside the tests; *legacy modules* import only one another.
- *Expression language, specification validation, templates' text*: parsing without
  state; outcomes enter the modules as choices.
- *Summaries, reports, exports, bundles*: formatting of what other components hold, but
  for what `CommandPipeline` keeps of the report and the bundle.
- *Batch runner, sweeps, aggregation and the other subcommands* (journal, replay, doctor,
  init, batch, sweep): sequential drivers of runs or readers of their files.
- *UI, simulators*, `src/fastapi`, `src/yaml`: presentation, test tooling and stand-ins.

## 7. Plan

Done: the modules of section 2, the runs of section 3, the theorems of section 4.

Every safety and action property of section 3's passing runs is stated by a theorem; what
stays with TLC is the liveness named in section 4.
