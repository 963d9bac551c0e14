----------------------------- MODULE RunSurface -----------------------------
(***************************************************************************)
(* The orchestration layer: ControlSurface (launch, stop and status of     *)
(* runs) with a worker thread per run, the event bus they publish on, and  *)
(* the process-wide plugin registries.  ControlSurface has no lock: its    *)
(* dictionaries, the status records and the registries are read and        *)
(* written by the calling threads and the workers in any order, one        *)
(* statement at a time.                                                    *)
(***************************************************************************)
EXTENDS Naturals, Sequences, FiniteSets

CONSTANTS
  Callers,      \* the threads that call launch and stop
  RunIds,       \* run ids
  MaxLaunches,  \* bound: launches in a run of the model
  Reuse,        \* TRUE: a spec may name the run id of an earlier launch
  Preload,      \* TRUE: ControlSurface(preload_plugins=True)
  HistoryMax, QueueMax, MaxSids,
  NoRun         \* not a run id

ASSUME SurfaceConstants ==
  /\ MaxLaunches \in Nat
  /\ {Reuse, Preload} \subseteq BOOLEAN
  /\ NoRun \notin RunIds

Launches == 1..MaxLaunches

VARIABLES
  runs,       \* _runs: the launch whose RunStatus the run id names, or 0
  flags,      \* _stop_flags: the launch whose Event the run id names, or 0
  state,      \* each launch's RunStatus.state
  set,        \* the launches whose Event is set
  launched,   \* how many launches have begun
  caller,     \* the calling threads
  worker,     \* the run threads, one per launch
  registry,   \* the launches whose plugins are in VerbRegistry and PolicyRegistry
  history, nextId, subs, queue, backlog, outbox, published, joined, got, lost

busVars == <<history, nextId, subs, queue, backlog, outbox, published, joined, got, lost>>
surfaceVars == <<runs, flags, state, set, launched, registry>>
vars == <<surfaceVars, caller, worker, busVars>>

Event(type, l, how) == [type |-> type, launch |-> l, how |-> how]

Terminal == {"finished", "error"}

Bus == INSTANCE EventBus WITH
  Publishers <- Callers \cup Launches,
  Payloads <- {Event(t, l, h) : t \in {"RUN_STARTED", "RUN_STOP_SIGNAL", "TICK", "RUN_FINISHED"},
                                l \in Launches, h \in {"", "stopping"} \cup Terminal}

ASSUME BusConstants == Bus!EventBusConstants

AtRest == [pc |-> "idle", run |-> NoRun, launch |-> 0, flag |-> 0]

Init ==
  /\ runs = [r \in RunIds |-> 0]
  /\ flags = [r \in RunIds |-> 0]
  /\ state = [l \in Launches |-> "none"]
  /\ set = {}
  /\ launched = 0
  /\ caller = [c \in Callers |-> AtRest]
  /\ worker = [l \in Launches |-> [pc |-> "none", run |-> NoRun, flag |-> 0]]
  /\ registry = {}
  /\ Bus!Init

CallerAt(c, pc) == caller[c].pc = pc
WorkerAt(l, pc) == worker[l].pc = pc
GoCaller(c, pc) == caller' = [caller EXCEPT ![c].pc = pc]
GoWorker(l, pc) == worker' = [worker EXCEPT ![l].pc = pc]

-----------------------------------------------------------------------------
(* launch                                                                  *)

LaunchStatus(c, r) ==
  /\ CallerAt(c, "idle")
  /\ launched < MaxLaunches
  /\ Reuse \/ runs[r] = 0
  /\ LET l == launched + 1
     IN  /\ launched' = l
         /\ state' = [state EXCEPT ![l] = "running"]
         /\ runs' = [runs EXCEPT ![r] = l]
         /\ caller' = [caller EXCEPT ![c] = [pc |-> "flag", run |-> r, launch |-> l, flag |-> 0]]
         /\ worker' = [worker EXCEPT ![l].run = r]
  /\ UNCHANGED <<flags, set, registry, busVars>>

\* Fault variant: the thread is started before the start is published.
FaultyLaunchFlag(c) ==
  /\ CallerAt(c, "flag")
  /\ flags' = [flags EXCEPT ![caller[c].run] = caller[c].launch]
  /\ GoWorker(caller[c].launch, "ready")
  /\ GoCaller(c, "announce")
  /\ UNCHANGED <<runs, state, set, launched, registry, busVars>>

LaunchFlag(c) ==
  /\ CallerAt(c, "flag")
  /\ flags' = [flags EXCEPT ![caller[c].run] = caller[c].launch]
  /\ GoCaller(c, "announce")
  /\ UNCHANGED <<runs, state, set, launched, registry, worker, busVars>>

LaunchAnnounce(c) ==
  /\ CallerAt(c, "announce")
  /\ Bus!Publish(c, Event("RUN_STARTED", caller[c].launch, ""))
  /\ GoCaller(c, "plugins")
  /\ UNCHANGED <<surfaceVars, worker>>

\* Loading happens in the calling thread; a failure is recorded and the run
\* goes on without its plugins.
LaunchPlugins(c) ==
  /\ CallerAt(c, "plugins") /\ Bus!Published(c)
  /\ \/ Preload /\ registry' = registry \cup {caller[c].launch}
     \/ UNCHANGED registry
  /\ GoCaller(c, "start")
  /\ UNCHANGED <<runs, flags, state, set, launched, worker, busVars>>

LaunchStart(c) ==
  /\ CallerAt(c, "start")
  /\ GoWorker(caller[c].launch, "ready")
  /\ caller' = [caller EXCEPT ![c] = AtRest]
  /\ UNCHANGED <<surfaceVars, busVars>>

Launch(c) ==
  \/ \E r \in RunIds : LaunchStatus(c, r)
  \/ LaunchFlag(c) \/ LaunchAnnounce(c) \/ LaunchPlugins(c) \/ LaunchStart(c)

-----------------------------------------------------------------------------
(* stop                                                                    *)

\* The flag and the status are looked up one after the other; a run that is
\* not there yields FALSE.
StopFlag(c, r) ==
  /\ CallerAt(c, "idle")
  /\ flags[r] # 0
  /\ caller' = [caller EXCEPT ![c] = [pc |-> "check", run |-> r, launch |-> 0, flag |-> flags[r]]]
  /\ UNCHANGED <<surfaceVars, worker, busVars>>

StopCheck(c) ==
  /\ CallerAt(c, "check")
  /\ LET l == runs[caller[c].run]
     IN  caller' = [caller EXCEPT ![c] =
           IF state[l] = "running" THEN [@ EXCEPT !.pc = "mark", !.launch = l] ELSE AtRest]
  /\ UNCHANGED <<surfaceVars, worker, busVars>>

StopMark(c) ==
  /\ CallerAt(c, "mark")
  /\ state' = [state EXCEPT ![caller[c].launch] = "stopping"]
  /\ GoCaller(c, "set")
  /\ UNCHANGED <<runs, flags, set, launched, registry, worker, busVars>>

StopSet(c) ==
  /\ CallerAt(c, "set")
  /\ set' = set \cup {caller[c].flag}
  /\ GoCaller(c, "signal")
  /\ UNCHANGED <<runs, flags, state, launched, registry, worker, busVars>>

StopSignal(c) ==
  /\ CallerAt(c, "signal")
  /\ Bus!Publish(c, Event("RUN_STOP_SIGNAL", caller[c].launch, ""))
  /\ GoCaller(c, "return")
  /\ UNCHANGED <<surfaceVars, worker>>

StopReturn(c) ==
  /\ CallerAt(c, "return") /\ Bus!Published(c)
  /\ caller' = [caller EXCEPT ![c] = AtRest]
  /\ UNCHANGED <<surfaceVars, worker, busVars>>

Stop(c) ==
  \/ \E r \in RunIds : StopFlag(c, r)
  \/ StopCheck(c) \/ StopMark(c) \/ StopSet(c) \/ StopSignal(c) \/ StopReturn(c)

-----------------------------------------------------------------------------
(* The run thread.                                                         *)

\* Fault variant: the worker clears its event before it starts.
FaultyRunBegin(l) ==
  /\ WorkerAt(l, "ready")
  /\ worker' = [worker EXCEPT ![l].pc = "running", ![l].flag = flags[worker[l].run]]
  /\ set' = set \ {flags[worker[l].run]}
  /\ UNCHANGED <<runs, flags, state, launched, registry, caller, busVars>>

\* The runner is given the Event that the run id names by then.
RunBegin(l) ==
  /\ WorkerAt(l, "ready")
  /\ worker' = [worker EXCEPT ![l].pc = "running", ![l].flag = flags[worker[l].run]]
  /\ UNCHANGED <<surfaceVars, caller, busVars>>

\* The runner may publish through event_cb.
RunTick(l) ==
  /\ WorkerAt(l, "running") /\ Bus!Published(l)
  /\ Bus!Publish(l, Event("TICK", l, ""))
  /\ UNCHANGED <<surfaceVars, caller, worker>>

\* Fault variant: a runner that raises ends its thread.
FaultyRunEnd(l) ==
  /\ WorkerAt(l, "running") /\ Bus!Published(l)
  /\ \E how \in Terminal :
       /\ state' = [state EXCEPT ![l] = how]
       /\ GoWorker(l, IF how = "error" THEN "done" ELSE "clear")
  /\ UNCHANGED <<runs, flags, set, launched, registry, caller, busVars>>

\* It returns, stopped or not, or raises.
RunEnd(l) ==
  /\ WorkerAt(l, "running") /\ Bus!Published(l)
  /\ \E how \in Terminal : state' = [state EXCEPT ![l] = how]
  /\ GoWorker(l, "clear")
  /\ UNCHANGED <<runs, flags, set, launched, registry, caller, busVars>>

\* `clear_registries` empties the registries of the whole process.
RunClear(l) ==
  /\ WorkerAt(l, "clear")
  /\ registry' = {}
  /\ GoWorker(l, "announce")
  /\ UNCHANGED <<runs, flags, state, set, launched, caller, busVars>>

RunAnnounce(l) ==
  /\ WorkerAt(l, "announce")
  /\ Bus!Publish(l, Event("RUN_FINISHED", l, state[l]))
  /\ GoWorker(l, "done")
  /\ UNCHANGED <<surfaceVars, caller>>

Worker(l) == RunBegin(l) \/ RunTick(l) \/ RunEnd(l) \/ RunClear(l) \/ RunAnnounce(l)

-----------------------------------------------------------------------------

Deliver(p) == Bus!Deliver(p) /\ UNCHANGED <<surfaceVars, caller, worker>>

Subscriber == Bus!SubscriberStep /\ UNCHANGED <<surfaceVars, caller, worker>>

Next ==
  \/ \E c \in Callers : Launch(c) \/ Stop(c)
  \/ \E l \in Launches : Worker(l)
  \/ \E p \in Callers \cup Launches : Deliver(p)
  \/ Subscriber

Spec == Init /\ [][Next]_vars

\* What a thread does once it is under way.
CallGoesOn(c) ==
  \/ LaunchFlag(c) \/ LaunchAnnounce(c) \/ LaunchPlugins(c) \/ LaunchStart(c)
  \/ StopCheck(c) \/ StopMark(c) \/ StopSet(c) \/ StopSignal(c) \/ StopReturn(c)

RunGoesOn(l) == RunBegin(l) \/ RunEnd(l) \/ RunClear(l) \/ RunAnnounce(l)

\* Threads are scheduled, and every runner returns or raises in the end.
FairSpec ==
  /\ Spec
  /\ \A c \in Callers : WF_vars(CallGoesOn(c) \/ Deliver(c))
  /\ \A l \in Launches : WF_vars(RunGoesOn(l)) /\ WF_vars(Deliver(l))

-----------------------------------------------------------------------------
(* Properties                                                              *)

TypeOK ==
  /\ Bus!TypeOK
  /\ runs \in [RunIds -> 0..launched]
  /\ flags \in [RunIds -> 0..launched]
  /\ state \in [Launches -> {"none", "running", "stopping"} \cup Terminal]
  /\ set \subseteq 1..launched
  /\ launched \in 0..MaxLaunches
  /\ registry \subseteq 1..launched
  /\ \A c \in Callers : caller[c].launch \in 0..launched /\ caller[c].flag \in 0..launched
  /\ \A l \in Launches : worker[l].flag \in 0..launched

\* Every subscriber gets every event once, through the surface's own use of
\* the bus.
NothingBetween == Bus!NothingBetween

\* "If the queue fills from the backlog, drop the oldest items": see EventBus.
OldestDroppedFirst == Bus!OldestDroppedFirst

\* A run that stop() has marked has a runner whose own Event is set, however
\* early the stop came: the mark and the signal reach the same launch.
StopReachesRunner ==
  \A l \in Launches :
    /\ state[l] = "stopping"
    /\ WorkerAt(l, "running")
    /\ ~\E c \in Callers : CallerAt(c, "set") /\ caller[c].launch = l
    => worker[l].flag \in set

\* The position of an event among those published live to all, or 0.
EventAt(type, l) ==
  LET at == {i \in DOMAIN published : published[i].load.type = type
                                      /\ published[i].load.launch = l}
  IN  IF at = {} THEN 0 ELSE CHOOSE i \in at : \A j \in at : i <= j

\* Where a subscriber has event number n: in what it received or has queued.
PlaceOf(s, n) ==
  LET have == got[s] \o queue[s]
      at   == {i \in DOMAIN have : have[i].no = n}
  IN  IF at = {} THEN 0 ELSE CHOOSE i \in at : TRUE

\* A subscriber that was there before a run started sees its start before
\* its end, although two threads publish them and a third may be filling
\* queues (launch publishes before it starts the thread).
StartSeenBeforeEnd ==
  \A s \in subs, l \in Launches :
    LET start == EventAt("RUN_STARTED", l)
        end   == EventAt("RUN_FINISHED", l)
    IN  /\ end # 0 => start # 0
        /\ /\ joined[s] = <<>> \/ joined[s][Len(joined[s])].no < start
           /\ PlaceOf(s, end) # 0
           => PlaceOf(s, start) \in 1..(PlaceOf(s, end) - 1) \/ start \in lost[s]

\* The places of a launch's end among what was published.
Ends(l) == {i \in DOMAIN published : published[i].load.type = "RUN_FINISHED"
                                     /\ published[i].load.launch = l}

\* Each launch announces its end exactly once.
EndAnnounced ==
  \A l \in Launches : (l <= launched) ~> (Cardinality(Ends(l)) = 1)

\* A client that polls status() until the run is "finished" or "error", as
\* tests/test_orchestration_surface.py does after stop(), sees that in the
\* end and for good.
EndIsVisible ==
  \A l \in Launches : (l <= launched) ~> [](state[l] \in Terminal)

\* Per-run plugin isolation: a run keeps the plugins it loaded.
PluginsHeld ==
  [][ \A l \in Launches :
        l \in registry /\ WorkerAt(l, "running") => l \in registry' \/ ~(WorkerAt(l, "running"))' ]_vars
=============================================================================
