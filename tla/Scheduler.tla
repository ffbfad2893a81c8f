----------------------------- MODULE Scheduler -----------------------------
(***************************************************************************)
(* The daemon's schedules: apps/wings/internal/scheduler, the schedules     *)
(* bucket of apps/wings/internal/store, and the panel's server functions    *)
(* that drive them (apps/panel/src/server/schedules).                       *)
(*                                                                         *)
(* A schedule's cron expression and steps are one value, its version; the   *)
(* recorded outcome of the last run is not told apart.  Every change is     *)
(* persisted and then the cron runner is rebuilt from the store; the        *)
(* handlers of concurrent requests interleave, and so do the runs.          *)
(***************************************************************************)

CONSTANTS
  Ids,         \* schedule ids; randomUUID makes each once
  Versions,    \* contents of a schedule
  Callers,     \* requests of panel users that may be under way at once
  Main,        \* the daemon's main goroutine, which calls Start at boot
  NoRunner,    \* nil
  FireSlots,   \* bound: runs (goroutines of fire) that may be under way
  Runners,     \* cron runners, each reused once nothing refers to it
  Unreadable   \* whether reading the store may fail

ASSUME SchedulerAssumption ==
  Main \notin Callers /\ NoRunner \notin Runners /\ Unreadable \in BOOLEAN

Threads == Callers \cup {Main}
Schedule == [id : Ids, version : Versions, on : BOOLEAN]
Run == [schedule : Schedule, by : Runners \cup {NoRunner}]   \* NoRunner: RunNow

VARIABLES
  stored,    \* the schedules bucket: a set of schedules, one per id
  pc,        \* [Threads -> ...]: where a request is
  arg,       \* [Threads -> Ids]: the id it is about
  mine,      \* [Threads -> runner]: the runner its reload builds
  old,       \* [Threads -> runner]: the runner its reload replaced
  jobs,      \* [Runners -> SUBSET Schedule]: the entries added to a runner
  running,   \* runners started and not stopped
  current,   \* s.cron
  runs,      \* [FireSlots -> SUBSET Run]: at most the run of that slot
  halting,   \* Stop: "no", "waiting" (holding s.mu) or "stopped"
  created,   \* ids that were ever created
  alone      \* history: nothing overlapped the last change of the store

schedulerVars == <<stored, pc, arg, mine, old, jobs, running, current, runs,
                   halting, created, alone>>
reloadVars == <<mine, old, jobs, running, current>>

SchedulerTypeOK ==
  /\ stored \subseteq Schedule
  /\ \A x, y \in stored : x.id = y.id => x = y
  /\ pc \in [Threads -> {"idle", "checked", "changed", "listed", "started", "swapped",
                         "unstarted"}]
  /\ arg \in [Threads -> Ids]
  /\ mine \in [Threads -> Runners \cup {NoRunner}]
  /\ old \in [Threads -> Runners \cup {NoRunner}]
  /\ jobs \in [Runners -> SUBSET Schedule]
  /\ running \subseteq Runners
  /\ current \in Runners \cup {NoRunner}
  /\ runs \in [FireSlots -> SUBSET Run]
  /\ halting \in {"no", "waiting", "stopped"}
  /\ created \subseteq Ids
  /\ alone \in BOOLEAN

\* A process that starts, on whatever the store holds: main is to call Start.
BootPc == [p \in Threads |-> IF p = Main THEN "changed" ELSE "idle"]
NoRunners == [p \in Threads |-> NoRunner]
NoJobs == [r \in Runners |-> {}]

SchedulerInit ==
  /\ stored = {}
  /\ arg \in [Threads -> Ids]
  /\ pc = BootPc
  /\ mine = NoRunners
  /\ old = NoRunners
  /\ jobs = NoJobs
  /\ running = {}
  /\ current = NoRunner
  /\ runs = [f \in FireSlots |-> {}]
  /\ halting = "no"
  /\ created = {}
  /\ alone = TRUE

(***************************************************************************)
(* The store.                                                               *)
(***************************************************************************)
Without(i) == {x \in stored : x.id # i}
PutSchedule(sc) == Without(sc.id) \cup {sc}
Enabled(S) == {x \in S : x.on}

Reloading == {p \in Threads : pc[p] \in {"changed", "listed", "started", "swapped"}}
Underway == {f \in FireSlots : runs[f] # {}}

\* A request of p that changes the store and will rebuild the runner.
Change(p, S) ==
  /\ stored' = S
  /\ pc' = [pc EXCEPT ![p] = "changed"]
  /\ alone' = (Reloading = {} /\ Underway = {} /\ halting = "no")
  /\ UNCHANGED <<reloadVars, runs, halting>>

(***************************************************************************)
(* Requests.  An edit, a removal and a run-now first look the schedule up   *)
(* in a request of their own (requireScheduleOwned).                        *)
(***************************************************************************)
Ready(p) == p \in Callers /\ pc[p] = "idle" /\ Main \notin Reloading

Create(p, i) ==
  /\ Ready(p)
  /\ i \notin created
  /\ \E v \in Versions, on \in BOOLEAN :
       Change(p, PutSchedule([id |-> i, version |-> v, on |-> on]))
  /\ arg' = [arg EXCEPT ![p] = i]
  /\ created' = created \cup {i}

Check(p, i) ==
  /\ Ready(p)
  /\ \E x \in stored : x.id = i
  /\ pc' = [pc EXCEPT ![p] = "checked"]
  /\ arg' = [arg EXCEPT ![p] = i]
  /\ UNCHANGED <<stored, reloadVars, runs, halting, created, alone>>

Edit(p) ==
  /\ pc[p] = "checked"
  /\ \E v \in Versions, on \in BOOLEAN :
       Change(p, PutSchedule([id |-> arg[p], version |-> v, on |-> on]))
  /\ UNCHANGED <<arg, created>>

Remove(p) ==
  /\ pc[p] = "checked"
  /\ Change(p, Without(arg[p]))
  /\ UNCHANGED <<arg, created>>

\* RunNow reads the stored schedule and starts its run; "not found" otherwise.
RunNow(p) ==
  /\ pc[p] = "checked"
  /\ \/ /\ \A x \in stored : x.id # arg[p]
        /\ UNCHANGED <<runs, alone>>
     \/ \E x \in stored, f \in FireSlots \ Underway :
          /\ x.id = arg[p]
          /\ runs' = [runs EXCEPT ![f] = {[schedule |-> x, by |-> NoRunner]}]
          /\ alone' = (alone /\ Reloading = {})
  /\ pc' = [pc EXCEPT ![p] = "idle"]
  /\ UNCHANGED <<stored, arg, reloadVars, halting, created>>

\* The user's request ends after its lookup: the panel or the link fails.
Abandon(p) ==
  /\ pc[p] = "checked"
  /\ pc' = [pc EXCEPT ![p] = "idle"]
  /\ UNCHANGED <<stored, arg, reloadVars, runs, halting, created, alone>>

(***************************************************************************)
(* reload, by any thread: list the store, start a runner of the enabled     *)
(* schedules, swap it in under s.mu, stop the one it replaced.              *)
(***************************************************************************)
\* Mutation: the snapshot taken before the change it is for.
SnapshotBefore(p) == {x \in stored : x.id # arg[p]}
Snapshot(p) == stored

Unused(r) ==
  /\ r \notin running /\ r # current
  /\ \A p \in Threads : mine[p] # r /\ old[p] # r

List(p) ==
  /\ pc[p] = "changed"
  /\ \E r \in Runners :
       /\ Unused(r)
       /\ mine' = [mine EXCEPT ![p] = r]
       /\ jobs' = [jobs EXCEPT ![r] = Enabled(Snapshot(p))]
  /\ pc' = [pc EXCEPT ![p] = "listed"]
  /\ UNCHANGED <<stored, arg, old, running, current, runs, halting,
                 created, alone>>

\* A row cannot be read: the request fails, its change stays.  At boot the
\* daemon carries on without a runner, and will not call Stop.
ListFails(p) ==
  /\ Unreadable
  /\ pc[p] = "changed"
  /\ pc' = [pc EXCEPT ![p] = IF p = Main THEN "unstarted" ELSE "idle"]
  /\ alone' = FALSE
  /\ UNCHANGED <<stored, arg, reloadVars, runs, halting, created>>

StartRunner(p) ==
  /\ pc[p] = "listed"
  /\ running' = running \cup {mine[p]}
  /\ pc' = [pc EXCEPT ![p] = "started"]
  /\ UNCHANGED <<stored, arg, mine, old, jobs, current, runs, halting, created,
                 alone>>

\* s.mu is free: Stop holds it while it waits.
Unlocked == halting # "waiting"
Swap(p) ==
  /\ pc[p] = "started"
  /\ Unlocked
  /\ old' = [old EXCEPT ![p] = current]
  /\ current' = mine[p]
  /\ pc' = [pc EXCEPT ![p] = "swapped"]
  /\ UNCHANGED <<stored, arg, mine, jobs, running, runs, halting, created,
                 alone>>

\* Mutations: the replaced runner left running; the new one stopped instead.
Kept(p) == running
StoppedMine(p) == running \ {mine[p]}
Stopped(p) == running \ {old[p]}

\* old.Stop() does not wait: the runs of the replaced runner go on, and nothing
\* will wait for them.
Released(r) ==
  [f \in FireSlots |->
     {[run EXCEPT !.by = IF @ = r THEN NoRunner ELSE @] : run \in runs[f]}]

StopOld(p) ==
  /\ pc[p] = "swapped"
  /\ running' = Stopped(p)
  /\ runs' = Released(old[p])
  /\ pc' = [pc EXCEPT ![p] = "idle"]
  /\ mine' = [mine EXCEPT ![p] = NoRunner]
  /\ old' = [old EXCEPT ![p] = NoRunner]
  /\ jobs' = [jobs EXCEPT ![old[p]] = {}]   \* garbage now
  /\ UNCHANGED <<stored, arg, current, halting, created, alone>>

Reload(p) == List(p) \/ ListFails(p) \/ StartRunner(p) \/ Swap(p) \/ StopOld(p)

(***************************************************************************)
(* Runs.  fire works on the schedule it was given, for minutes or hours,    *)
(* then puts it back with the outcome recorded on it.                       *)
(***************************************************************************)
CronFires(r, f) ==
  /\ r \in running
  /\ f \notin Underway
  /\ \E x \in jobs[r] : runs' = [runs EXCEPT ![f] = {[schedule |-> x, by |-> r]}]
  /\ alone' = (alone /\ Reloading = {})
  /\ UNCHANGED <<stored, pc, arg, reloadVars, halting, created>>

\* Mutation: the outcome recorded under s.mu, like the swap of the runner.
RecordsLocked(f) == Unlocked
MayRecord(f) == TRUE
FireEnds(f) ==
  /\ MayRecord(f)
  /\ \E run \in runs[f] : stored' = PutSchedule(run.schedule)
  /\ runs' = [runs EXCEPT ![f] = {}]
  /\ UNCHANGED <<pc, arg, reloadVars, halting, created, alone>>

(***************************************************************************)
(* The daemon stops: Stop takes s.mu, stops the runner and waits for the    *)
(* runs it started; or it dies at any point.  The store survives both.      *)
(***************************************************************************)
Stop ==
  /\ halting = "no"
  /\ pc[Main] = "idle"
  /\ halting' = "waiting"
  /\ running' = running \ {current}
  /\ UNCHANGED <<stored, pc, arg, mine, old, jobs, current, runs, created, alone>>

StopReturns ==
  /\ halting = "waiting"
  /\ \A f \in FireSlots : \A run \in runs[f] : current = NoRunner \/ run.by # current
  /\ halting' = "stopped"
  /\ current' = NoRunner
  /\ UNCHANGED <<stored, pc, arg, mine, old, jobs, running, runs, created, alone>>

DaemonDies ==
  /\ pc' = BootPc
  /\ mine' = NoRunners
  /\ old' = NoRunners
  /\ jobs' = NoJobs
  /\ running' = {}
  /\ current' = NoRunner
  /\ runs' = [f \in FireSlots |-> {}]
  /\ halting' = "no"
  /\ alone' = TRUE
  /\ UNCHANGED <<stored, arg, created>>

SchedulerNext ==
  \/ Stop \/ StopReturns \/ DaemonDies
  \/ \E p \in Callers, i \in Ids : Create(p, i) \/ Check(p, i)
  \/ \E p \in Callers : Edit(p) \/ Remove(p) \/ RunNow(p) \/ Abandon(p)
  \/ \E p \in Threads : Reload(p)
  \/ \E r \in Runners, f \in FireSlots : CronFires(r, f)
  \/ \E f \in FireSlots : FireEnds(f)

\* A started reload runs on; a run ends (its context is bounded by
\* scriptTimeout); Stop returns when it may.  Users and cron owe nothing.
SchedulerFairness ==
  /\ \A p \in Threads : WF_schedulerVars(Reload(p))
  /\ \A f \in FireSlots : WF_schedulerVars(FireEnds(f))
  /\ WF_schedulerVars(StopReturns)

SchedulerSpec == SchedulerInit /\ [][SchedulerNext]_schedulerVars /\ SchedulerFairness

(***************************************************************************)
(* Properties.                                                              *)
(***************************************************************************)
\* No runner leaks: one that still fires is the current one, or a reload under
\* way has just started it or is about to stop it (reload's old.Stop).
RunnersAccounted ==
  \A r \in running :
    \/ r = current
    \/ \E p \in Threads : \/ (pc[p] = "started" /\ mine[p] = r)
                           \/ (pc[p] = "swapped" /\ old[p] = r)

\* Schedules keep firing through a reload, because the new runner is started
\* before the old one is stopped: until Stop, the current runner is running.
NeverUncovered == halting = "no" /\ current # NoRunner => current \in running

\* Why: the runner of a reload is its own until it is swapped in, what it replaced
\* is not what is current, and Stop stops the runner it waits for.
MineIsFresh ==
  \A p \in Threads : pc[p] \in {"listed", "started"} =>
    /\ mine[p] \in Runners
    /\ mine[p] # current
    /\ \A q \in Threads : old[q] # mine[p] /\ (q # p => mine[q] # mine[p])
OldIsReplaced ==
  \A p \in Threads : pc[p] = "swapped" => old[p] = NoRunner \/ old[p] # current
StartedIsRunning == \A p \in Threads : pc[p] = "started" => mine[p] \in running
WaitsForStopped == halting = "waiting" => current \notin running
ReloadInv == MineIsFresh /\ OldIsReplaced /\ StartedIsRunning /\ WaitsForStopped

\* A change that nothing overlapped leaves a runner that fires exactly the
\* enabled schedules of the store, whatever went wrong before it.
RebuiltFromStore ==
  alone /\ Reloading = {} /\ halting = "no"
    => current # NoRunner /\ jobs[current] = Enabled(stored)

\* A request that has changed the store gets its answer, and Stop returns: a
\* reload waits for Stop to give s.mu back, Stop for the runs of its runner, and
\* a run for neither.
ReloadsReturn == \A p \in Callers : pc[p] = "changed" ~> pc[p] = "idle"
StopEnds == halting = "waiting" ~> halting # "waiting"

(***************************************************************************)
(* What the documentation says and the code does not do; see the README.    *)
(***************************************************************************)
\* scheduler.go:89-90: "rebuilt wholesale from the store on any change (simpler
\* + race-free ...)": at rest, the runner fires what the store holds.
RunnerMatchesStore ==
  Reloading = {} /\ Underway = {} /\ halting = "no" /\ current # NoRunner
    => jobs[current] = Enabled(stored)
=============================================================================
