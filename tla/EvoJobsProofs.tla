--------------------------- MODULE EvoJobsProofs ---------------------------
(***************************************************************************)
(* Theorems about EvoJobs, for every set of files, keys and requests, and  *)
(* any number of crashes: what the watcher's receipts say is true, no      *)
(* request is run twice in one life of the watcher, and a client of        *)
(* POST /runs is told of a run of its own key.                             *)
(***************************************************************************)
EXTENDS EvoJobs, FiniteSetTheorems, TLAPS

\* A set of names of files that is not empty has a first one (the sorted listing
\* of run_watcher).  The sets of the names before each are finite, and one of
\* them has none of the others within it.
LEMMA MinIsIn ==
  ASSUME NEW S \in SUBSET Nat, S # {}
  PROVE  Min(S) \in S
<1> DEFINE Before(n) == {m \in Nat : m < n}
           All == {Before(n) : n \in S}
<1>1. ASSUME NEW n \in S
      PROVE  Before(n) \in FiniteSubsetsOf(Nat)
  <2>1. Before(n) \in SUBSET Nat /\ \A m \in Before(n) : m <= n
    OBVIOUS
  <2>2. IsFiniteSet(Before(n))
    BY <2>1, FS_BoundedSetOfNaturals
  <2> QED BY <2>1, <2>2 DEF FiniteSubsetsOf
<1>2. All \subseteq FiniteSubsetsOf(Nat) /\ All # {}
  BY <1>1
<1>3. IsWellFoundedOn(StrictSubsetOrdering(Nat), FiniteSubsetsOf(Nat))
  BY FS_StrictSubsetOrderingWellFounded
<1>4. PICK least \in All : \A other \in All : <<other, least>> \notin StrictSubsetOrdering(Nat)
  <2> HIDE DEF All
  <2> QED BY <1>2, <1>3, WFMin
<1>5. PICK x \in S : least = Before(x)
  OBVIOUS
<1>6. ASSUME NEW y \in S, y < x
      PROVE  FALSE
  <2>1. Before(y) \in All /\ y \in Before(x) /\ y \notin Before(y)
    BY <1>6
  <2>2. Before(y) \subseteq Before(x)
    BY <1>6
  <2>3. <<Before(y), Before(x)>> \in StrictSubsetOrdering(Nat)
    BY <2>1, <2>2 DEF StrictSubsetOrdering
  <2> QED BY <1>4, <1>5, <2>1, <2>3
<1>7. \A y \in S : x =< y
  BY <1>6
<1> QED BY <1>7 DEF Min

---------------------------------------------------------------------------
(* The inductive invariant. *)

RunStates == {"running", "finished", "error", "killed"}
Run == [by : {"watcher", "http"}, id : Ids \cup Keys, state : RunStates]
Place == [at : Places, seen : SUBSET Ids, todo : SUBSET Files,
          count : 0..MaxInflight, file : Files \cup {0}, run : Nat]
Post == [at : {"new", "checked", "launched", "answered"}, run : Nat, code : {0, 202, 409, 422}]

Typed ==
  /\ incoming \subseteq dropped /\ dropped \subseteq Files
  /\ done \in [Ids -> {"none", "ok", "error"}]
  /\ watcher \in Place
  /\ runs \in Seq(Run)
  /\ posts \in [Posts -> Post]
  /\ recorded \in [Keys -> 0..Len(runs)]
  /\ crashes \in 0..MaxCrashes

\* Where the watcher has a request in hand it is one of the files; where it has a
\* run, that run is of the request and has not been cut off.
Holding == {"refuse", "fail", "launch", "wait", "unlink", "unlink_refused"}

InHand ==
  /\ watcher.at \in Holding => watcher.file \in Files /\ watcher.count < MaxInflight
  /\ watcher.at = "wait" => /\ watcher.run \in RunsOf("watcher", Job[watcher.file].id)
                            /\ runs[watcher.run].state # "killed"
  /\ watcher.run \in 0..Len(runs)

\* A request that is about to be unlinked has its receipt.
Receipted ==
  /\ watcher.at \in {"unlink", "unlink_refused"} => done[Job[watcher.file].id] # "none"
  /\ ReceiptsTrue

\* What the watcher has launched in this life it has seen: its runs of a request
\* are those of earlier lives, and one more once the request is past its launch.
Past(i) == i \in watcher.seen /\ ~ (watcher.at = "launch" /\ Job[watcher.file].id = i)

SeenIsRun ==
  /\ watcher.at = "down" => watcher.seen = {}
  /\ watcher.at = "launch" => Job[watcher.file].id \in watcher.seen
  /\ \A i \in Ids : /\ IsFiniteSet(RunsOf("watcher", i))
                   /\ Cardinality(RunsOf("watcher", i)) <= crashes + (IF Past(i) THEN 1 ELSE 0)

\* A key's entry names a run of that key; a request holds a run of its key from
\* the launch on, and has an answer only where the entry was made.
Answering ==
  /\ \A k \in Keys : recorded[k] # 0 => recorded[k] \in RunsOf("http", k)
  /\ \A p \in Posts :
       /\ posts[p].at = "launched" => posts[p].run \in RunsOf("http", KeyOf[p])
       /\ posts[p].at # "answered" => posts[p].code = 0
  /\ AnswersKnown

\* Every file can be read as a job and has its bundle.
Readable == \A f \in Files : Job[f].flaw \notin {"poison", "missing"}

---------------------------------------------------------------------------
(* What a step does to the runs. *)

\* A launch adds a run at the end and leaves the others as they are.
LEMMA LaunchedRuns ==
  ASSUME Typed, NEW by \in {"watcher", "http"}, NEW id \in Ids \cup Keys, runs' = Launched(by, id)
  PROVE  /\ runs' \in Seq(Run) /\ Len(runs') = Len(runs) + 1
         /\ \A r \in DOMAIN runs : r \in DOMAIN runs' /\ runs'[r] = runs[r]
         /\ RunsOf(by, id)' = RunsOf(by, id) \cup {Len(runs) + 1}
         /\ \A b, i : <<b, i>> # <<by, id>> => RunsOf(b, i)' = RunsOf(b, i)
         /\ Len(runs) + 1 \notin RunsOf(by, id)
         /\ runs'[Len(runs) + 1].state = "running"
<1> DEFINE new == [by |-> by, id |-> id, state |-> "running"]
<1>1. new \in Run
  BY DEF Run, RunStates
<1>2. runs' = Append(runs, new) /\ runs \in Seq(Run)
  BY DEF Launched, Typed
<1>3. new.by = by /\ new.id = id /\ new.state = "running"
  OBVIOUS
<1> HIDE DEF new
<1>4. runs' \in Seq(Run) /\ Len(runs') = Len(runs) + 1 /\ Len(runs) \in Nat
  BY <1>1, <1>2
<1>5. /\ DOMAIN runs = 1..Len(runs) /\ DOMAIN runs' = 1..(Len(runs) + 1)
      /\ \A r \in DOMAIN runs : runs'[r] = runs[r]
      /\ runs'[Len(runs) + 1] = new
  BY <1>1, <1>2, <1>4
<1> QED BY <1>3, <1>4, <1>5 DEF RunsOf

\* The end of a run, and a crash, change the state of running runs and nothing else.
LEMMA EndedRuns ==
  ASSUME Typed, \/ \E r \in DOMAIN runs, how \in {"finished", "error"} : RunEnds(r, how)
                \/ Crash
  PROVE  /\ runs' \in Seq(Run) /\ Len(runs') = Len(runs)
         /\ DOMAIN runs' = DOMAIN runs
         /\ \A r \in DOMAIN runs : runs[r].state # "running" => runs'[r] = runs[r]
         /\ \A b, i : RunsOf(b, i)' = RunsOf(b, i)
<1>0. runs \in Seq(Run) /\ DOMAIN runs = 1..Len(runs) /\ Len(runs) \in Nat
  BY DEF Typed
<1>1. \A run \in Run, how \in RunStates :
        /\ [run EXCEPT !.state = how] \in Run
        /\ [run EXCEPT !.state = how].by = run.by
        /\ [run EXCEPT !.state = how].id = run.id
  BY DEF Run
<1>2. \A r \in DOMAIN runs : runs[r] \in Run
  BY <1>0
<1>3. /\ DOMAIN runs' = DOMAIN runs
      /\ \A r \in DOMAIN runs :
           \/ runs'[r] = runs[r]
           \/ runs[r].state = "running" /\ \E how \in RunStates : runs'[r] = [runs[r] EXCEPT !.state = how]
      /\ runs' = [r \in DOMAIN runs |-> runs'[r]]
  <2>1. ASSUME NEW r \in DOMAIN runs, NEW how \in {"finished", "error"}, RunEnds(r, how)
        PROVE  <1>3!1 /\ <1>3!2 /\ <1>3!3
    BY <1>0, <2>1 DEF RunEnds, RunStates
  <2>2. ASSUME Crash
        PROVE  <1>3!1 /\ <1>3!2 /\ <1>3!3
    BY <1>0, <2>2 DEF Crash, RunStates
  <2> QED BY <2>1, <2>2
<1>4. \A r \in DOMAIN runs : /\ runs'[r] \in Run
                             /\ runs'[r].by = runs[r].by /\ runs'[r].id = runs[r].id
                             /\ runs[r].state # "running" => runs'[r] = runs[r]
  <2> SUFFICES ASSUME NEW r \in DOMAIN runs
               PROVE  <1>4!(r)
    OBVIOUS
  <2>1. CASE runs'[r] = runs[r]
    BY <1>2, <2>1
  <2>2. ASSUME runs[r].state = "running", NEW how \in RunStates,
               runs'[r] = [runs[r] EXCEPT !.state = how]
        PROVE  <1>4!(r)
    BY <1>1, <1>2, <2>2
  <2> QED BY <1>3, <2>1, <2>2
<1>5. runs' \in Seq(Run) /\ Len(runs') = Len(runs)
  <2>1. runs' \in [1..Len(runs) -> Run]
    BY <1>0, <1>3, <1>4
  <2> QED BY <1>0, <2>1
<1>6. \A b, i : RunsOf(b, i)' = RunsOf(b, i)
  BY <1>3, <1>4 DEF RunsOf
<1> QED BY <1>3, <1>4, <1>5, <1>6

---------------------------------------------------------------------------
(* Types. *)

\* The watcher after it ended, and started again.
LEMMA UpTyped ==
  /\ Up \in Place /\ Up.at = "poll" /\ Up.seen = {} /\ Up.run = 0
  /\ LET down == [Up EXCEPT !.at = "down"]
     IN  down \in Place /\ down.at = "down" /\ down.seen = {} /\ down.run = 0
  BY JobConstants DEF Up, Place, Places

\* The three things taking the next file may do to the watcher.
Ended == watcher' = [Up EXCEPT !.at = "down"]
LeftThere(f) == watcher' = [watcher EXCEPT !.todo = @ \ {f}]
TakenUp(f, place) ==
  watcher' = [watcher EXCEPT !.todo = @ \ {f}, !.seen = @ \cup {Job[f].id}, !.file = f, !.at = place]

\* Take is one of them, for a file of the listing.
LEMMA TakeCases ==
  ASSUME Typed, Take
  PROVE  /\ watcher.at = "next"
         /\ UNCHANGED <<dropped, incoming, done, runs, posts, recorded, crashes>>
         /\ \E f \in watcher.todo :
              \/ Job[f].flaw \in {"poison", "missing"} /\ Ended
              \/ Job[f].id \in watcher.seen /\ LeftThere(f)
              \/ /\ Job[f].id \notin watcher.seen
                 /\ \E place \in {"refuse", "launch"} : TakenUp(f, place)
<1>1. watcher.todo \in SUBSET Files /\ watcher.todo \in SUBSET Nat
  BY JobConstants DEF Typed, Place
<1>2. Job0 \in watcher.todo
  BY <1>1, MinIsIn DEF Take, Job0
<1>3. CASE Job[Job0].flaw = "poison"
  BY <1>2, <1>3 DEF Take, Ended
<1>4. CASE Job[Job0].flaw # "poison" /\ Job[Job0].id \in watcher.seen
  BY <1>2, <1>4 DEF Take, LeftThere
<1>5. CASE Job[Job0].flaw = "missing" /\ Job[Job0].id \notin watcher.seen
  BY <1>2, <1>5 DEF Take, Ended
<1>6. CASE Job[Job0].flaw \notin {"poison", "missing"} /\ Job[Job0].id \notin watcher.seen
  <2>1. \E place \in {"refuse", "launch"} : TakenUp(Job0, place)
    BY <1>6 DEF Take, TakenUp
  <2> QED BY <1>2, <1>6, <2>1 DEF Take
<1> QED BY <1>3, <1>4, <1>5, <1>6

\* The moves of the watcher keep its record well formed.
LEMMA WatcherMoves ==
  ASSUME NEW w \in Place
  PROVE  /\ \A a \in Places : [w EXCEPT !.at = a] \in Place
         /\ \A t \in SUBSET Files : [w EXCEPT !.at = "next", !.todo = t, !.count = 0] \in Place
         /\ [w EXCEPT !.at = "poll", !.todo = {}] \in Place
         /\ \A f \in Files : [w EXCEPT !.todo = @ \ {f}] \in Place
         /\ \A f \in Files, a \in Places :
              [w EXCEPT !.todo = @ \ {f}, !.seen = @ \cup {Job[f].id}, !.file = f, !.at = a] \in Place
         /\ \A r \in Nat : [w EXCEPT !.at = "wait", !.run = r] \in Place
         /\ \A n \in 0..MaxInflight :
              [w EXCEPT !.at = "next", !.file = 0, !.run = 0, !.count = n] \in Place
<1> USE JobConstants DEF Place
<1>1. \A a \in Places : [w EXCEPT !.at = a] \in Place
  OBVIOUS
<1>2. ASSUME NEW t \in SUBSET Files
      PROVE  [w EXCEPT !.at = "next", !.todo = t, !.count = 0] \in Place
  <2>1. 0 \in 0..MaxInflight /\ "next" \in Places
    BY DEF Places
  <2> QED BY <2>1
<1>3. [w EXCEPT !.at = "poll", !.todo = {}] \in Place
  BY DEF Places
<1>4. \A f \in Files : [w EXCEPT !.todo = @ \ {f}] \in Place
  OBVIOUS
<1>5. \A f \in Files, a \in Places :
        [w EXCEPT !.todo = @ \ {f}, !.seen = @ \cup {Job[f].id}, !.file = f, !.at = a] \in Place
  BY DEF Ids
<1>6. \A r \in Nat : [w EXCEPT !.at = "wait", !.run = r] \in Place
  BY DEF Places
<1>7. \A n \in 0..MaxInflight :
        [w EXCEPT !.at = "next", !.file = 0, !.run = 0, !.count = n] \in Place
  BY DEF Places
<1> QED BY <1>1, <1>2, <1>3, <1>4, <1>5, <1>6, <1>7

\* The moves of a POST request keep its record well formed.
LEMMA PostMoves ==
  ASSUME NEW o \in Post, NEW r \in Nat
  PROVE  /\ LET new == [o EXCEPT !.at = "checked"]
            IN  new \in Post /\ new.at = "checked" /\ new.code = o.code
         /\ LET new == [o EXCEPT !.at = "launched", !.run = r]
            IN  new \in Post /\ new.at = "launched" /\ new.run = r /\ new.code = o.code
         /\ LET new == [o EXCEPT !.at = "answered", !.code = 202]
            IN  new \in Post /\ new.at = "answered" /\ new.run = o.run
<1>1. [o EXCEPT !.at = "checked"] \in Post
  BY DEF Post
<1>2. [o EXCEPT !.at = "launched", !.run = r] \in Post
  BY ZenonT(60) DEF Post
<1>3. [o EXCEPT !.at = "answered", !.code = 202] \in Post
  BY ZenonT(60) DEF Post
<1> QED BY <1>1, <1>2, <1>3 DEF Post

\* Every step keeps the types.
LEMMA TypedStep ==
  ASSUME Typed, InHand, Answering, [Next]_vars
  PROVE  Typed'
<1>0. /\ watcher \in Place /\ runs \in Seq(Run) /\ Len(runs) \in Nat
      /\ recorded \in [Keys -> 0..Len(runs)] /\ posts \in [Posts -> Post]
  BY DEF Typed
<1>1. ASSUME NEW f \in Files, Drop(f)
      PROVE  Typed'
  BY <1>1 DEF Drop, Typed
<1>2. ASSUME NEW r \in DOMAIN runs, NEW how \in {"finished", "error"}, RunEnds(r, how)
      PROVE  Typed'
  <2>1. runs' \in Seq(Run) /\ Len(runs') = Len(runs)
    BY <1>2, EndedRuns
  <2> QED BY <1>2, <2>1 DEF RunEnds, Typed
<1>3. CASE Poll
  <2>1. watcher' \in Place
    BY <1>0, <1>3, WatcherMoves DEF Poll, Typed
  <2> QED BY <1>3, <2>1 DEF Poll, Typed
<1>4. CASE PollEnds
  <2>1. watcher' \in Place
    BY <1>0, <1>4, WatcherMoves DEF PollEnds
  <2> QED BY <1>4, <2>1 DEF PollEnds, Typed
<1>5. CASE Take
  <2>1. watcher.todo \subseteq Files
    BY DEF Typed, Place
  <2>2. watcher' \in Place
    <3>1. PICK f \in watcher.todo : \/ Ended \/ LeftThere(f)
                                   \/ \E place \in {"refuse", "launch"} : TakenUp(f, place)
      BY <1>5, TakeCases
    <3>2. CASE Ended
      BY <3>2, UpTyped DEF Ended
    <3>3. CASE LeftThere(f)
      BY <1>0, <2>1, <3>3, WatcherMoves DEF LeftThere
    <3>4. ASSUME NEW place \in {"refuse", "launch"}, TakenUp(f, place)
          PROVE  watcher' \in Place
      <4>1. place \in Places /\ f \in Files
        BY <2>1 DEF Places
      <4> QED BY <1>0, <3>4, <4>1, WatcherMoves DEF TakenUp
    <3> QED BY <3>1, <3>2, <3>3, <3>4
  <2> QED BY <1>5, <2>2, TakeCases DEF Typed
<1>6. CASE Launch
  <2>1. watcher.file \in Files /\ Job[watcher.file].id \in Ids
    BY <1>6 DEF Launch, InHand, Holding, Ids
  <2>2. runs' \in Seq(Run) /\ Len(runs') = Len(runs) + 1
    BY <1>6, <2>1, LaunchedRuns DEF Launch
  <2>3. watcher' \in Place
    <3>1. Len(runs) + 1 \in Nat
      BY <1>0
    <3> QED BY <1>0, <1>6, <3>1, WatcherMoves DEF Launch
  <2>4. recorded \in [Keys -> 0..Len(runs')]
    BY <1>0, <2>2
  <2> QED BY <1>6, <2>2, <2>3, <2>4 DEF Launch, Typed
<1>7. CASE ImportFails
  <2>1. watcher' \in Place
    BY <1>0, <1>7, WatcherMoves DEF ImportFails, Places
  <2> QED BY <1>7, <2>1 DEF ImportFails, Typed
<1>8. CASE Receipt
  <2>1. watcher' \in Place
    BY <1>0, <1>8, WatcherMoves DEF Receipt, Places
  <2>2. done' \in [Ids -> {"none", "ok", "error"}]
    BY <1>8 DEF Receipt, Verdict, Typed
  <2> QED BY <1>8, <2>1, <2>2 DEF Receipt, Typed
<1>9. CASE Unlink
  <2>1. watcher.count \in 0..MaxInflight
    BY <1>0 DEF Place
  <2>2. watcher.at = "unlink" => watcher.count + 1 \in 0..MaxInflight
    BY <2>1, JobConstants DEF InHand, Holding
  <2>3. watcher' \in Place
    BY <1>0, <1>9, <2>1, <2>2, WatcherMoves DEF Unlink
  <2> QED BY <1>9, <2>3 DEF Unlink, Typed
<1>10. CASE Crash
  <2>1. runs' \in Seq(Run) /\ Len(runs') = Len(runs)
    BY <1>10, EndedRuns
  <2>2. crashes' \in 0..MaxCrashes
    BY <1>10, JobConstants DEF Crash, Typed
  <2> QED BY <1>10, <2>1, <2>2, UpTyped DEF Crash, Typed
<1>11. CASE Restart
  BY <1>11, UpTyped DEF Restart, Typed
<1>12. ASSUME NEW p \in Posts, PostCheck(p)
       PROVE  Typed'
  <2>1. recorded[KeyOf[p]] \in Nat
    BY <1>0, JobConstants
  <2>2. posts[p] \in Post
    BY <1>0
  <2>3. [posts[p] EXCEPT !.at = "checked"] \in Post
    BY <2>2, PostMoves
  <2>4. [at |-> "answered", run |-> recorded[KeyOf[p]], code |-> 409] \in Post
    BY <2>1 DEF Post
  <2>5. posts' \in [Posts -> Post]
    <3>1. CASE recorded[KeyOf[p]] # 0
      BY <1>0, <1>12, <2>4, <3>1 DEF PostCheck
    <3>2. CASE recorded[KeyOf[p]] = 0
      BY <1>0, <1>12, <2>3, <3>2 DEF PostCheck
    <3> QED BY <3>1, <3>2
  <2> QED BY <1>12, <2>5 DEF PostCheck, Typed
<1>13. ASSUME NEW p \in Posts, PostLaunch(p)
       PROVE  Typed'
  <2>1. /\ [at |-> "answered", run |-> 0, code |-> 422] \in Post
        /\ [posts[p] EXCEPT !.at = "launched", !.run = Len(runs) + 1] \in Post
    <3>1. posts[p] \in Post /\ Len(runs) + 1 \in Nat
      BY <1>0
    <3>2. [at |-> "answered", run |-> 0, code |-> 422] \in Post
      BY DEF Post
    <3> QED BY <3>1, <3>2, PostMoves
  <2>2. posts' \in [Posts -> Post]
    BY <1>0, <1>13, <2>1 DEF PostLaunch
  <2>3. CASE UNCHANGED runs
    BY <1>13, <2>2, <2>3 DEF PostLaunch, Typed
  <2>4. CASE runs' = Launched("http", KeyOf[p])
    <3>1. runs' \in Seq(Run) /\ Len(runs') = Len(runs) + 1
      BY <2>4, LaunchedRuns, JobConstants
    <3>2. recorded \in [Keys -> 0..Len(runs')]
      BY <1>0, <3>1
    <3> QED BY <1>13, <2>2, <3>1, <3>2 DEF PostLaunch, Typed
  <2> QED BY <1>13, <2>3, <2>4 DEF PostLaunch
<1>14. ASSUME NEW p \in Posts, PostRecord(p)
       PROVE  Typed'
  <2>1. posts[p].run \in 0..Len(runs)
    <3>1. posts[p].run \in DOMAIN runs /\ DOMAIN runs = 1..Len(runs)
      BY <1>0, <1>14 DEF PostRecord, Answering, RunsOf
    <3> QED BY <1>0, <3>1
  <2>2. recorded' \in [Keys -> 0..Len(runs)]
    BY <1>0, <1>14, <2>1 DEF PostRecord
  <2>3. [posts[p] EXCEPT !.at = "answered", !.code = 202] \in Post
    <3>1. posts[p] \in Post
      BY <1>0
    <3> QED BY <3>1, PostMoves
  <2>4. posts' \in [Posts -> Post]
    BY <1>0, <1>14, <2>3 DEF PostRecord
  <2> QED BY <1>14, <2>2, <2>4 DEF PostRecord, Typed
<1>15. CASE UNCHANGED vars
  BY <1>15 DEF vars, Typed
<1> QED
  BY <1>1, <1>2, <1>3, <1>4, <1>5, <1>6, <1>7, <1>8, <1>9, <1>10, <1>11, <1>12, <1>13, <1>14, <1>15 DEF Next, Watch

---------------------------------------------------------------------------
(* What every step keeps. *)

\* Runs are never taken away or given to another request, and a run that has ended
\* stays as it ended.
LEMMA RunsKept ==
  ASSUME Typed, InHand, [Next]_vars
  PROVE  /\ Len(runs) <= Len(runs')
         /\ \A b, i : RunsOf(b, i) \subseteq RunsOf(b, i)'
         /\ \A r \in DOMAIN runs : runs[r].state # "running" => runs'[r].state = runs[r].state
<1> DEFINE Kept == /\ Len(runs) <= Len(runs')
                   /\ \A b, i : RunsOf(b, i) \subseteq RunsOf(b, i)'
                   /\ \A r \in DOMAIN runs : runs[r].state # "running" => runs'[r].state = runs[r].state
<1>0. Len(runs) \in Nat
  BY DEF Typed
<1>1. CASE UNCHANGED runs
  BY <1>0, <1>1 DEF RunsOf
<1>2. CASE (\E r \in DOMAIN runs, how \in {"finished", "error"} : RunEnds(r, how)) \/ Crash
  BY <1>0, <1>2, EndedRuns
<1>3. ASSUME NEW b \in {"watcher", "http"}, NEW i \in Ids \cup Keys, runs' = Launched(b, i)
      PROVE  Kept
  BY <1>0, <1>3, LaunchedRuns DEF RunsOf
<1>4. CASE Launch
  <2>1. Job[watcher.file].id \in Ids
    BY <1>4 DEF Launch, InHand, Holding, Ids
  <2> QED BY <1>3, <1>4, <2>1 DEF Launch
<1>5. ASSUME NEW p \in Posts, PostLaunch(p)
      PROVE  Kept
  <2>1. KeyOf[p] \in Keys
    BY JobConstants
  <2> QED BY <1>1, <1>3, <1>5, <2>1 DEF PostLaunch
<1> QED
  BY <1>1, <1>2, <1>4, <1>5
  DEF Next, Watch, vars, Drop, Poll, PollEnds, Take, ImportFails, Receipt, Unlink, Restart, PostCheck, PostRecord

\* What the watcher has in hand stays its own.
LEMMA InHandStep ==
  ASSUME Typed, InHand, [Next]_vars
  PROVE  InHand'
<1>0. /\ watcher \in Place /\ runs \in Seq(Run) /\ Len(runs) \in Nat
      /\ DOMAIN runs = 1..Len(runs)
  BY DEF Typed
<1>1. ASSUME UNCHANGED watcher,
             \A r \in DOMAIN runs : runs'[r].state = "killed" => runs[r].state = "killed"
      PROVE  InHand'
  <2>1. \A i : RunsOf("watcher", i) \subseteq RunsOf("watcher", i)'
    BY RunsKept
  <2>2. watcher.run \in 0..Len(runs')
    BY <1>0, RunsKept DEF InHand
  <2> QED BY <1>1, <2>1, <2>2 DEF InHand, RunsOf
<1>2. ASSUME UNCHANGED <<watcher, runs>>
      PROVE  InHand'
  BY <1>1, <1>2
<1>3. ASSUME NEW r \in DOMAIN runs, NEW how \in {"finished", "error"}, RunEnds(r, how)
      PROVE  InHand'
  BY <1>0, <1>1, <1>3 DEF RunEnds
<1>4. CASE Poll \/ PollEnds
  <2>1. watcher'.at \in {"next", "poll"} /\ watcher'.run = watcher.run /\ runs' = runs
    BY <1>0, <1>4 DEF Poll, PollEnds, Place
  <2> QED BY <2>1 DEF InHand, Holding
<1>5. CASE Take
  <2>1. PICK f \in watcher.todo : \/ Ended \/ LeftThere(f)
                                 \/ \E place \in {"refuse", "launch"} : TakenUp(f, place)
    BY <1>5, TakeCases
  <2>2. CASE Ended
    BY <1>0, <2>2, UpTyped, TakeCases, <1>5 DEF Ended, InHand, Holding
  <2>3. CASE LeftThere(f)
    BY <1>0, <2>3, <1>5 DEF LeftThere, Take, InHand, Holding, Place
  <2>4. ASSUME NEW place \in {"refuse", "launch"}, TakenUp(f, place)
        PROVE  InHand'
    <3>1. /\ watcher'.at = place /\ watcher'.file = f /\ watcher'.count = watcher.count
          /\ watcher'.run = watcher.run
      BY <1>0, <2>4 DEF TakenUp, Place
    <3>2. f \in Files /\ watcher.count < MaxInflight
      BY <1>0, <1>5 DEF Place, Take
    <3> QED BY <1>5, <2>4, <3>1, <3>2 DEF InHand, Holding, Take
  <2> QED BY <2>1, <2>2, <2>3, <2>4
<1>6. CASE Launch
  <2>1. watcher.file \in Files /\ watcher.count < MaxInflight /\ Job[watcher.file].id \in Ids
    BY <1>6 DEF Launch, InHand, Holding, Ids
  <2>2. /\ watcher'.at = "wait" /\ watcher'.run = Len(runs) + 1 /\ watcher'.file = watcher.file
        /\ watcher'.count = watcher.count
    BY <1>0, <1>6 DEF Launch, Place
  <2>3. /\ Len(runs') = Len(runs) + 1 /\ runs'[Len(runs) + 1].state = "running"
        /\ RunsOf("watcher", Job[watcher.file].id)' = RunsOf("watcher", Job[watcher.file].id) \cup {Len(runs) + 1}
    <3>1. runs' = Launched("watcher", Job[watcher.file].id)
      BY <1>6 DEF Launch
    <3>2. /\ Len(runs') = Len(runs) + 1 /\ runs'[Len(runs) + 1].state = "running"
          /\ \A i : i = Job[watcher.file].id => RunsOf("watcher", i)' = RunsOf("watcher", i) \cup {Len(runs) + 1}
      BY <2>1, <3>1, LaunchedRuns
    <3> QED BY <2>2, <3>2 DEF RunsOf
  <2> QED BY <1>0, <2>1, <2>2, <2>3 DEF InHand, Holding, RunsOf
<1>7. CASE ImportFails \/ Receipt
  <2>1. /\ watcher'.at \in Holding \ {"wait"} /\ watcher'.file = watcher.file
        /\ watcher'.count = watcher.count /\ watcher'.run = watcher.run
        /\ watcher.at \in Holding /\ runs' = runs
    BY <1>0, <1>7 DEF ImportFails, Receipt, Holding, Place
  <2> QED BY <2>1 DEF InHand
<1>8. CASE Unlink
  <2>1. watcher'.at = "next" /\ watcher'.run = 0 /\ runs' = runs
    BY <1>0, <1>8 DEF Unlink, Place
  <2> QED BY <1>0, <2>1 DEF InHand, Holding
<1>9. CASE Crash \/ Restart
  <2>1. watcher'.at \in {"down", "poll"} /\ watcher'.run = 0
    BY <1>9, UpTyped DEF Crash, Restart
  <2>2. Len(runs') \in Nat
    BY <1>0, <1>9, EndedRuns DEF Restart
  <2> QED BY <2>1, <2>2 DEF InHand, Holding
<1>10. ASSUME NEW p \in Posts, PostLaunch(p)
       PROVE  InHand'
  <2>1. CASE UNCHANGED runs
    BY <1>2, <1>10, <2>1 DEF PostLaunch
  <2>2. CASE runs' = Launched("http", KeyOf[p])
    BY <1>1, <1>10, <2>2, LaunchedRuns, JobConstants DEF PostLaunch
  <2> QED BY <1>10, <2>1, <2>2 DEF PostLaunch
<1> QED
  BY <1>2, <1>3, <1>4, <1>5, <1>6, <1>7, <1>8, <1>9, <1>10
  DEF Next, Watch, vars, Drop, PostCheck, PostRecord

\* Receipts are true after every step: the one that writes a receipt for a run has
\* waited for that run, and the one that removes a file comes after the receipt.
LEMMA ReceiptedStep ==
  ASSUME Typed, InHand, Receipted, [Next]_vars
  PROVE  Receipted'
<1> DEFINE RunFinished(i) == \E r \in RunsOf("watcher", i) : runs[r].state = "finished"
<1>0. /\ watcher \in Place /\ done \in [Ids -> {"none", "ok", "error"}]
      /\ incoming \subseteq dropped /\ dropped \subseteq Files
      /\ \A f \in Files : Job[f].id \in Ids
  BY DEF Typed, Ids
<1>1. \A i \in Ids : RunFinished(i) => RunFinished(i)'
  BY RunsKept DEF RunsOf
<1>2. \A i \in Ids : done[i] = "ok" => RunFinished(i)
  BY DEF Receipted, ReceiptsTrue
<1> HIDE DEF RunFinished
<1>3. ASSUME UNCHANGED <<done, incoming, dropped>>,
             watcher'.at \in {"unlink", "unlink_refused"} => UNCHANGED watcher
      PROVE  Receipted'
  BY <1>1, <1>2, <1>3 DEF Receipted, ReceiptsTrue, RunFinished
<1>4. ASSUME NEW f \in Files, Drop(f)
      PROVE  Receipted'
  <2>1. dropped' \ incoming' \subseteq dropped \ incoming /\ UNCHANGED <<done, watcher>>
    BY <1>4 DEF Drop
  <2> QED BY <1>1, <1>2, <2>1 DEF Receipted, ReceiptsTrue, RunFinished
<1>5. CASE Poll \/ PollEnds \/ Launch \/ ImportFails \/ Crash \/ Restart
  <2>1. watcher'.at \notin {"unlink", "unlink_refused"} /\ UNCHANGED <<done, incoming, dropped>>
    BY <1>0, <1>5, UpTyped DEF Poll, PollEnds, Launch, ImportFails, Crash, Restart, Place
  <2> QED BY <1>3, <2>1
<1>6. CASE Take
  <2>1. PICK f \in watcher.todo : \/ Ended \/ LeftThere(f)
                                 \/ \E place \in {"refuse", "launch"} : TakenUp(f, place)
    BY <1>6, TakeCases
  <2>2. watcher'.at \in {"down", "next", "refuse", "launch"}
    BY <1>0, <1>6, <2>1, UpTyped DEF Ended, LeftThere, TakenUp, Take, Place
  <2> QED BY <1>3, <1>6, <2>2 DEF Take
<1>7. CASE Receipt
  <2> DEFINE i == Job[watcher.file].id
  <2>1. watcher.file \in Files /\ i \in Ids
    BY <1>0, <1>7 DEF Receipt, InHand, Holding
  <2>2. /\ done' = [done EXCEPT ![i] = IF watcher.at = "wait" THEN Verdict(watcher.run) ELSE "error"]
        /\ UNCHANGED <<incoming, dropped, runs>> /\ watcher'.file = watcher.file
    BY <1>0, <1>7 DEF Receipt, Place
  <2>3. watcher.at = "wait" /\ Verdict(watcher.run) = "ok" => RunFinished(i)
    <3>1. SUFFICES ASSUME watcher.at = "wait", runs[watcher.run].state = "finished"
                   PROVE  RunFinished(i)
      BY DEF Verdict
    <3>2. watcher.run \in RunsOf("watcher", i)
      BY <3>1 DEF InHand
    <3> QED BY <3>1, <3>2 DEF RunFinished
  <2>4. done'[i] # "none" /\ \A j \in Ids : done[j] # "none" => done'[j] # "none"
    BY <1>0, <2>1, <2>2 DEF Verdict
  <2>5. \A j \in Ids : done'[j] = "ok" => RunFinished(j)'
    BY <1>0, <1>1, <1>2, <2>1, <2>2, <2>3
  <2>6. \A f \in dropped' \ incoming' : done'[Job[f].id] # "none"
    BY <1>0, <2>2, <2>4 DEF Receipted, ReceiptsTrue
  <2>7. ReceiptsTrue'
    BY <2>5, <2>6 DEF ReceiptsTrue, RunFinished
  <2> QED BY <2>2, <2>4, <2>7 DEF Receipted
<1>8. CASE Unlink
  <2>1. watcher.file \in Files /\ done[Job[watcher.file].id] # "none"
    BY <1>8 DEF Unlink, InHand, Holding, Receipted
  <2>2. watcher'.at = "next" /\ incoming' = incoming \ {watcher.file} /\ UNCHANGED <<done, dropped>>
    BY <1>0, <1>8 DEF Unlink, Place
  <2>3. ReceiptsTrue'
    BY <1>1, <1>2, <2>1, <2>2 DEF Receipted, ReceiptsTrue, RunFinished
  <2> QED BY <2>2, <2>3 DEF Receipted
<1> QED
  BY <1>3, <1>4, <1>5, <1>6, <1>7, <1>8
  DEF Next, Watch, vars, RunEnds, PostCheck, PostLaunch, PostRecord

\* A request the watcher has seen in this life is not launched again in it.
LEMMA SeenIsRunStep ==
  ASSUME Readable, Typed, InHand, SeenIsRun, [Next]_vars
  PROVE  SeenIsRun'
<1>0. /\ watcher \in Place /\ crashes \in Nat
      /\ \A f \in Files : Job[f].id \in Ids
      /\ \A i \in Ids : IsFiniteSet(RunsOf("watcher", i)) /\ Cardinality(RunsOf("watcher", i)) \in Nat
  BY FS_CardinalityType DEF Typed, Ids, SeenIsRun
<1>1. ASSUME \A i \in Ids : RunsOf("watcher", i)' = RunsOf("watcher", i),
             crashes' = crashes, \A i \in Ids : Past(i) => Past(i)',
             watcher'.at = "down" => watcher'.seen = {},
             watcher'.at = "launch" => Job[watcher'.file].id \in watcher'.seen
      PROVE  SeenIsRun'
  <2>1. \A i \in Ids : /\ IsFiniteSet(RunsOf("watcher", i))'
                       /\ Cardinality(RunsOf("watcher", i))' <= crashes' + (IF Past(i)' THEN 1 ELSE 0)
    BY <1>0, <1>1 DEF SeenIsRun
  <2> QED BY <1>1, <2>1 DEF SeenIsRun
<1>2. ASSUME UNCHANGED <<watcher, crashes>>,
             \A i \in Ids : RunsOf("watcher", i)' = RunsOf("watcher", i)
      PROVE  SeenIsRun'
  BY <1>1, <1>2 DEF Past, SeenIsRun
<1>3. ASSUME UNCHANGED <<watcher, crashes, runs>>
      PROVE  SeenIsRun'
  BY <1>2, <1>3 DEF RunsOf
<1>4. ASSUME NEW r \in DOMAIN runs, NEW how \in {"finished", "error"}, RunEnds(r, how)
      PROVE  SeenIsRun'
  BY <1>2, <1>4, EndedRuns DEF RunEnds
<1>5. CASE Poll \/ PollEnds \/ ImportFails \/ Receipt \/ Unlink
  <2>1. /\ watcher'.at \notin {"launch", "down"} /\ watcher'.seen = watcher.seen
        /\ UNCHANGED <<runs, crashes>>
    BY <1>0, <1>5 DEF Poll, PollEnds, ImportFails, Receipt, Unlink, Place
  <2> QED BY <1>1, <2>1 DEF Past, RunsOf
<1>6. CASE Take
  <2>1. PICK f \in watcher.todo : \/ LeftThere(f)
                                 \/ /\ Job[f].id \notin watcher.seen
                                    /\ \E place \in {"refuse", "launch"} : TakenUp(f, place)
    BY <1>0, <1>6, TakeCases DEF Readable, Place
  <2>2. CASE LeftThere(f)
    <3>1. watcher'.at = "next" /\ watcher'.seen = watcher.seen /\ UNCHANGED <<runs, crashes>>
      BY <1>0, <1>6, <2>2 DEF LeftThere, Take, Place
    <3> QED BY <1>1, <3>1 DEF Past, RunsOf
  <2>3. ASSUME Job[f].id \notin watcher.seen, NEW place \in {"refuse", "launch"}, TakenUp(f, place)
        PROVE  SeenIsRun'
    <3>1. /\ watcher'.at = place /\ watcher'.file = f /\ UNCHANGED <<runs, crashes>>
          /\ watcher'.seen = watcher.seen \cup {Job[f].id}
      BY <1>0, <1>6, <2>3 DEF TakenUp, Take, Place
    <3> QED BY <1>1, <2>3, <3>1 DEF Past, RunsOf
  <2> QED BY <2>1, <2>2, <2>3
<1>7. ASSUME Launch, NEW i \in Ids, i = Job[watcher.file].id
      PROVE  SeenIsRun'
  <2>1. i \in watcher.seen /\ ~ Past(i)
    BY <1>0, <1>7 DEF Launch, InHand, Holding, SeenIsRun, Past
  <2>2. /\ watcher'.at = "wait" /\ watcher'.seen = watcher.seen
        /\ runs' = Launched("watcher", i) /\ crashes' = crashes
    BY <1>0, <1>7 DEF Launch, Place
  <2>3. Past(i)' /\ \A j \in Ids : Past(j) => Past(j)'
    BY <2>1, <2>2 DEF Past
  <2>4. /\ \A j \in Ids : j # i => RunsOf("watcher", j)' = RunsOf("watcher", j)
        /\ RunsOf("watcher", i)' = RunsOf("watcher", i) \cup {Len(runs) + 1}
        /\ Len(runs) + 1 \notin RunsOf("watcher", i)
    BY <2>1, <2>2, LaunchedRuns DEF RunsOf
  <2>5. /\ IsFiniteSet(RunsOf("watcher", i)')
        /\ Cardinality(RunsOf("watcher", i)') = Cardinality(RunsOf("watcher", i)) + 1
    BY <1>0, <2>1, <2>4, FS_AddElement
  <2>6. Cardinality(RunsOf("watcher", i)) <= crashes
    BY <1>0, <2>1 DEF SeenIsRun
  <2>7. \A j \in Ids : /\ IsFiniteSet(RunsOf("watcher", j))'
                       /\ Cardinality(RunsOf("watcher", j))' <= crashes' + (IF Past(j)' THEN 1 ELSE 0)
    <3>1. ASSUME NEW j \in Ids, j # i
          PROVE  <2>7!(j)
      BY <1>0, <2>2, <2>3, <2>4, <3>1 DEF SeenIsRun
    <3>2. <2>7!(i)
      BY <1>0, <2>1, <2>2, <2>3, <2>5, <2>6
    <3> QED BY <3>1, <3>2
  <2> QED BY <2>2, <2>7 DEF SeenIsRun
<1>8. CASE Crash
  <2>1. watcher'.seen = {} /\ watcher'.at = "down" /\ crashes' = crashes + 1
    BY <1>8, UpTyped DEF Crash
  <2>2. \A i \in Ids : RunsOf("watcher", i)' = RunsOf("watcher", i)
    BY <1>8, EndedRuns
  <2>3. \A i \in Ids : /\ IsFiniteSet(RunsOf("watcher", i))'
                       /\ Cardinality(RunsOf("watcher", i))' <= crashes'
    BY <1>0, <2>1, <2>2 DEF SeenIsRun
  <2>4. \A i \in Ids : ~ Past(i)'
    BY <2>1 DEF Past
  <2> QED BY <1>0, <2>1, <2>3, <2>4 DEF SeenIsRun
<1>9. CASE Restart
  <2>1. watcher.seen = {}
    BY <1>9 DEF Restart, SeenIsRun
  <2> QED BY <1>1, <1>9, <2>1, UpTyped DEF Restart, Past, RunsOf
<1>10. ASSUME NEW p \in Posts, PostLaunch(p)
       PROVE  SeenIsRun'
  <2>1. CASE UNCHANGED runs
    BY <1>3, <1>10, <2>1 DEF PostLaunch
  <2>2. CASE runs' = Launched("http", KeyOf[p])
    BY <1>2, <1>10, <2>2, LaunchedRuns, JobConstants DEF PostLaunch
  <2> QED BY <1>10, <2>1, <2>2 DEF PostLaunch
<1>11. Launch => Job[watcher.file].id \in Ids
  BY <1>0 DEF Launch, InHand, Holding
<1> QED
  BY <1>3, <1>4, <1>5, <1>6, <1>7, <1>8, <1>9, <1>10, <1>11
  DEF Next, Watch, vars, Drop, PostCheck, PostRecord

\* A key's entry and a request's run stay runs of the key; an answer is given with
\* the entry made.
LEMMA AnsweringStep ==
  ASSUME Typed, InHand, Answering, [Next]_vars
  PROVE  Answering'
<1>0. /\ posts \in [Posts -> Post] /\ recorded \in [Keys -> 0..Len(runs)] /\ Len(runs) \in Nat
      /\ \A p \in Posts : KeyOf[p] \in Keys
  BY JobConstants DEF Typed
<1>1. \A k \in Keys : RunsOf("http", k) \subseteq RunsOf("http", k)'
  BY RunsKept
<1>2. ASSUME UNCHANGED <<posts, recorded>>
      PROVE  Answering'
  BY <1>0, <1>1, <1>2 DEF Answering, AnswersKnown
<1>3. ASSUME NEW p \in Posts, NEW o \in Post, posts' = [posts EXCEPT ![p] = o],
             \A k \in Keys : recorded'[k] # 0 => recorded'[k] \in RunsOf("http", k)',
             \A k \in Keys : recorded[k] # 0 => recorded'[k] # 0,
             o.at = "launched" => o.run \in RunsOf("http", KeyOf[p])',
             o.at # "answered" => o.code = 0,
             o.code \in {202, 409} => /\ o.run \in RunsOf("http", KeyOf[p])'
                                      /\ recorded'[KeyOf[p]] # 0
      PROVE  Answering'
  <2>1. ASSUME NEW q \in Posts
        PROVE  /\ posts'[q].at = "launched" => posts'[q].run \in RunsOf("http", KeyOf[q])'
               /\ posts'[q].at # "answered" => posts'[q].code = 0
               /\ posts'[q].code \in {202, 409} => /\ posts'[q].run \in RunsOf("http", KeyOf[q])'
                                                   /\ recorded'[KeyOf[q]] # 0
    <3>1. CASE q = p
      BY <1>0, <1>3, <3>1
    <3>2. CASE q # p
      <4>1. posts'[q] = posts[q]
        BY <1>0, <1>3, <3>2
      <4> QED BY <1>0, <1>1, <1>3, <4>1 DEF Answering, AnswersKnown
    <3> QED BY <3>1, <3>2
  <2> QED BY <1>3, <2>1 DEF Answering, AnswersKnown
<1>4. \A k \in Keys : recorded[k] # 0 => recorded[k] \in RunsOf("http", k)'
  BY <1>1 DEF Answering
<1>5. ASSUME NEW p \in Posts, NEW o \in Post, posts' = [posts EXCEPT ![p] = o], recorded' = recorded,
              o.at = "launched" => o.run \in RunsOf("http", KeyOf[p])',
              o.at # "answered" => o.code = 0,
              o.code \in {202, 409} => o.run = recorded[KeyOf[p]] /\ o.run # 0
       PROVE  Answering'
  <2>1. /\ \A k \in Keys : recorded'[k] # 0 => recorded'[k] \in RunsOf("http", k)'
        /\ \A k \in Keys : recorded[k] # 0 => recorded'[k] # 0
    BY <1>4, <1>5
  <2>2. o.code \in {202, 409} => /\ o.run \in RunsOf("http", KeyOf[p])'
                                 /\ recorded'[KeyOf[p]] # 0
    BY <1>0, <1>4, <1>5
  <2> QED BY <1>3, <1>5, <2>1, <2>2
<1>6. ASSUME NEW p \in Posts, PostCheck(p)
      PROVE  Answering'
  <2>1. posts[p] \in Post /\ posts[p].code = 0 /\ recorded' = recorded
    BY <1>0, <1>6 DEF PostCheck, Answering
  <2>2. CASE recorded[KeyOf[p]] # 0
    <3> DEFINE o == [at |-> "answered", run |-> recorded[KeyOf[p]], code |-> 409]
    <3>1. recorded[KeyOf[p]] \in Nat
      BY <1>0
    <3>2. o \in Post
      BY <3>1 DEF Post
    <3>3. posts' = [posts EXCEPT ![p] = o]
      BY <1>6, <2>2 DEF PostCheck
    <3>4. o.at = "answered" /\ o.run = recorded[KeyOf[p]] /\ o.code = 409
      OBVIOUS
    <3> HIDE DEF o
    <3> QED BY <1>5, <2>1, <2>2, <3>2, <3>3, <3>4, ZenonT(60)
  <2>3. CASE recorded[KeyOf[p]] = 0
    <3> DEFINE o == [posts[p] EXCEPT !.at = "checked"]
    <3>1. o \in Post /\ o.at = "checked" /\ o.code = 0
      BY <2>1, PostMoves
    <3>2. posts' = [posts EXCEPT ![p] = o]
      BY <1>6, <2>3 DEF PostCheck
    <3> HIDE DEF o
    <3>3. o.code \notin {202, 409}
      BY <3>1
    <3> QED BY <1>5, <2>1, <3>1, <3>2, <3>3
  <2> QED BY <2>2, <2>3
<1>7. ASSUME NEW p \in Posts, PostLaunch(p)
      PROVE  Answering'
  <2>1. posts[p] \in Post /\ posts[p].code = 0 /\ recorded' = recorded /\ Len(runs) + 1 \in Nat
    BY <1>0, <1>7 DEF PostLaunch, Answering
  <2>2. CASE posts' = [posts EXCEPT ![p] = [at |-> "answered", run |-> 0, code |-> 422]]
    <3> DEFINE o == [at |-> "answered", run |-> 0, code |-> 422]
    <3>1. o \in Post /\ o.at = "answered" /\ o.code \notin {202, 409}
      BY DEF Post
    <3>2. posts' = [posts EXCEPT ![p] = o]
      BY <2>2
    <3> HIDE DEF o
    <3> QED BY <1>5, <2>1, <3>1, <3>2, ZenonT(60)
  <2>3. ASSUME posts' = [posts EXCEPT ![p].at = "launched", ![p].run = Len(runs) + 1],
               runs' = Launched("http", KeyOf[p]),
               NEW r \in Nat, r = Len(runs) + 1, NEW old \in Post, old = posts[p]
        PROVE  Answering'
    <3> DEFINE o == [old EXCEPT !.at = "launched", !.run = r]
    <3>1. o \in Post /\ o.at = "launched" /\ o.run = r /\ o.code = old.code
      <4>1. o \in Post
        BY PostMoves
      <4>2. o.at = "launched"
        BY DEF Post
      <4>3. o.run = r
        BY DEF Post
      <4>4. o.code = old.code
        BY DEF Post
      <4> QED BY <4>1, <4>2, <4>3, <4>4
    <3>2. posts' = [posts EXCEPT ![p] = o]
      BY <1>0, <2>3
    <3>3. r \in RunsOf("http", KeyOf[p])'
      BY <1>0, <2>3, LaunchedRuns
    <3> HIDE DEF o
    <3>4. o.code = 0 /\ o.code \notin {202, 409}
      BY <2>1, <2>3, <3>1
    <3> QED BY <1>5, <2>1, <3>1, <3>2, <3>3, <3>4
  <2> QED BY <1>7, <2>1, <2>2, <2>3 DEF PostLaunch
<1>8. ASSUME NEW p \in Posts, PostRecord(p)
      PROVE  Answering'
  <2>1. /\ posts[p] \in Post /\ posts[p].run \in RunsOf("http", KeyOf[p])
        /\ recorded' = [recorded EXCEPT ![KeyOf[p]] = posts[p].run]
    BY <1>0, <1>8 DEF PostRecord, Answering
  <2>2. posts[p].run # 0
    BY <2>1 DEF RunsOf, Typed
  <2> DEFINE o == [posts[p] EXCEPT !.at = "answered", !.code = 202]
  <2>3. o \in Post /\ o.at = "answered" /\ o.run = posts[p].run
    BY <2>1, PostMoves
  <2>4. posts' = [posts EXCEPT ![p] = o]
    BY <1>0, <1>8 DEF PostRecord
  <2>5. posts[p].run \in RunsOf("http", KeyOf[p])'
    BY <1>0, <1>1, <2>1
  <2>6. \A k \in Keys : /\ recorded'[k] # 0 => recorded'[k] \in RunsOf("http", k)'
                        /\ recorded[k] # 0 => recorded'[k] # 0
                        /\ recorded'[KeyOf[p]] # 0
    BY <1>0, <1>4, <2>1, <2>2, <2>5
  <2> HIDE DEF o
  <2> QED BY <1>0, <1>3, <2>3, <2>4, <2>5, <2>6, ZenonT(60)
<1> QED
  BY <1>2, <1>6, <1>7, <1>8
  DEF Next, Watch, vars, Drop, RunEnds, Poll, PollEnds, Take, Launch, ImportFails, Receipt, Unlink,
      Crash, Restart

---------------------------------------------------------------------------
(* The theorems. *)

IInv == Typed /\ InHand /\ Receipted /\ Answering

\* The watcher starts with nothing seen and nothing run.
LEMMA InitHolds == Init => IInv /\ SeenIsRun
<1> SUFFICES ASSUME Init
             PROVE  IInv /\ SeenIsRun
  OBVIOUS
<1>1. Typed
  BY JobConstants, UpTyped DEF Init, Typed, Post
<1>2. \A b, i : RunsOf(b, i) = {}
  BY DEF Init, RunsOf
<1>3. InHand
  BY UpTyped DEF Init, InHand, Holding
<1>4. Receipted
  BY UpTyped DEF Init, Receipted, ReceiptsTrue
<1>5. Answering
  BY JobConstants DEF Init, Answering, AnswersKnown
<1>6. \A i \in Ids : ~ Past(i)
  BY UpTyped DEF Init, Past
<1>7. SeenIsRun
  <2>1. crashes = 0 /\ watcher.at = "poll"
    BY UpTyped DEF Init
  <2>2. \A i \in Ids : IsFiniteSet(RunsOf("watcher", i)) /\ Cardinality(RunsOf("watcher", i)) = 0
    BY <1>2, FS_EmptySet
  <2> QED BY <1>6, <2>1, <2>2 DEF SeenIsRun
<1> QED BY <1>1, <1>3, <1>4, <1>5, <1>7 DEF IInv

\* The watcher, the runs and the requests keep their types; what the watcher has in
\* hand, the receipts and the answers stay consistent with them.
THEOREM JobsInvariant == Spec => []IInv
<1>1. Init => IInv
  BY InitHolds
<1>2. IInv /\ [Next]_vars => IInv'
  BY TypedStep, InHandStep, ReceiptedStep, AnsweringStep DEF IInv
<1> QED BY <1>1, <1>2, PTL DEF Spec

\* TypeOK, from the invariant.
THEOREM TypeCorrect == Spec => []TypeOK
<1>1. IInv => TypeOK
  <2> SUFFICES ASSUME IInv
               PROVE  TypeOK
    OBVIOUS
  <2>1. \A r \in DOMAIN runs : runs[r] \in Run
    BY DEF IInv, Typed
  <2>2. \A r \in DOMAIN runs : runs[r].state \in {"running", "finished", "error", "killed"}
    BY <2>1 DEF Run, RunStates
  <2> QED BY <2>2 DEF IInv, Typed, InHand, Place, TypeOK
<1> QED BY <1>1, JobsInvariant, PTL

\* At every step of run_watcher, and wherever it crashes, a file is gone only when
\* its request has a receipt, and a receipt of a job done stands for a run that has
\* finished: a run that ended in error makes an error receipt.
THEOREM ReceiptsCorrect == Spec => []ReceiptsTrue
<1>1. IInv => ReceiptsTrue
  BY DEF IInv, Receipted
<1> QED BY <1>1, JobsInvariant, PTL

\* However the threads of POST /runs interleave, a client is told of a run of its
\* own key, and one that later requests are told of too.
THEOREM AnswersCorrect == Spec => []AnswersKnown
<1>1. IInv => AnswersKnown
  BY DEF IInv, Answering
<1> QED BY <1>1, JobsInvariant, PTL

\* If every file can be read as a job and has its bundle, the watcher runs a request once, and once
\* more for each crash.  (A file without either ends the watcher without a crash
\* being counted, and makes it forget all the same.)
THEOREM RunOnceCorrect ==
  ASSUME Readable
  PROVE  Spec => []RunOnceACrash
<1>1. Init => IInv /\ SeenIsRun
  BY InitHolds
<1>2. IInv /\ SeenIsRun /\ [Next]_vars => (IInv /\ SeenIsRun)'
  BY TypedStep, InHandStep, ReceiptedStep, AnsweringStep, SeenIsRunStep DEF IInv
<1>3. IInv /\ SeenIsRun => RunOnceACrash
  <2> SUFFICES ASSUME IInv, SeenIsRun, NEW i \in Ids
               PROVE  Cardinality(RunsOf("watcher", i)) <= 1 + crashes
    BY DEF RunOnceACrash
  <2>1. crashes \in Nat /\ Cardinality(RunsOf("watcher", i)) \in Nat
    BY FS_CardinalityType DEF IInv, Typed, SeenIsRun
  <2> QED BY <2>1 DEF SeenIsRun
<1> QED BY <1>1, <1>2, <1>3, PTL DEF Spec
=============================================================================
