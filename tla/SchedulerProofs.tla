--------------------------- MODULE SchedulerProofs ---------------------------
(***************************************************************************)
(* Theorems about Scheduler, for any number of requests, runs and           *)
(* schedules.                                                               *)
(***************************************************************************)
EXTENDS Scheduler, TLAPS

USE SchedulerAssumption DEF Threads

LEMMA TypeStep ==
  ASSUME SchedulerTypeOK, MineIsFresh, [SchedulerNext]_schedulerVars
  PROVE  SchedulerTypeOK'
<1> USE DEF SchedulerTypeOK
<1>1. ASSUME NEW p \in Threads, NEW S \in SUBSET Schedule, Change(p, S),
             \A x, y \in S : x.id = y.id => x = y,
             arg' \in [Threads -> Ids], created' \subseteq Ids
      PROVE  SchedulerTypeOK'
  BY <1>1 DEF Change, reloadVars
<1>2. ASSUME NEW sc \in Schedule
      PROVE  /\ PutSchedule(sc) \in SUBSET Schedule
             /\ \A x, y \in PutSchedule(sc) : x.id = y.id => x = y
  BY DEF PutSchedule, Without
<1>3. ASSUME NEW i \in Ids
      PROVE  /\ Without(i) \in SUBSET Schedule
             /\ \A x, y \in Without(i) : x.id = y.id => x = y
  BY DEF Without
<1>4. ASSUME NEW p \in Callers, NEW i \in Ids, Create(p, i)  PROVE SchedulerTypeOK'
  <2>1. PICK v \in Versions, on \in BOOLEAN :
          Change(p, PutSchedule([id |-> i, version |-> v, on |-> on]))
    BY <1>4 DEF Create
  <2>2. [id |-> i, version |-> v, on |-> on] \in Schedule
    BY DEF Schedule
  <2> QED BY <1>1, <1>2, <1>4, <2>1, <2>2 DEF Create
<1>5. ASSUME NEW p \in Callers, Edit(p)  PROVE SchedulerTypeOK'
  <2>1. PICK v \in Versions, on \in BOOLEAN :
          Change(p, PutSchedule([id |-> arg[p], version |-> v, on |-> on]))
    BY <1>5 DEF Edit
  <2>2. [id |-> arg[p], version |-> v, on |-> on] \in Schedule
    BY DEF Schedule
  <2> QED BY <1>1, <1>2, <1>5, <2>1, <2>2 DEF Edit
<1>6. ASSUME NEW p \in Callers, Remove(p)  PROVE SchedulerTypeOK'
  BY <1>1, <1>3, <1>6 DEF Remove
<1>7. ASSUME NEW p \in Callers, NEW i \in Ids, Check(p, i)  PROVE SchedulerTypeOK'
  BY <1>7 DEF Check, reloadVars
<1>8. ASSUME NEW p \in Callers, RunNow(p)  PROVE SchedulerTypeOK'
  <2>1. runs' \in [FireSlots -> SUBSET Run]
    BY <1>8 DEF RunNow, Run
  <2> QED BY <1>8, <2>1 DEF RunNow, reloadVars
<1>9. ASSUME NEW p \in Callers, Abandon(p)  PROVE SchedulerTypeOK'
  BY <1>9 DEF Abandon, reloadVars
<1>10. ASSUME NEW p \in Threads, List(p)  PROVE SchedulerTypeOK'
  <2>1. Enabled(Snapshot(p)) \in SUBSET Schedule
    BY DEF Enabled, Snapshot
  <2> QED BY <1>10, <2>1 DEF List
<1>11. ASSUME NEW p \in Threads, ListFails(p)  PROVE SchedulerTypeOK'
  BY <1>11 DEF ListFails, reloadVars
<1>12. ASSUME NEW p \in Threads, StartRunner(p)  PROVE SchedulerTypeOK'
  BY <1>12 DEF StartRunner, MineIsFresh
<1>13. ASSUME NEW p \in Threads, Swap(p)  PROVE SchedulerTypeOK'
  BY <1>13 DEF Swap
<1>14. ASSUME NEW p \in Threads, StopOld(p)  PROVE SchedulerTypeOK'
  <2>1. Released(old[p]) \in [FireSlots -> SUBSET Run]
    BY DEF Released, Run
  <2>2. jobs' \in [Runners -> SUBSET Schedule] /\ running' \subseteq Runners
    BY <1>14 DEF StopOld, Stopped
  <2> QED BY <1>14, <2>1, <2>2 DEF StopOld
<1>15. ASSUME NEW r \in Runners, NEW f \in FireSlots, CronFires(r, f)  PROVE SchedulerTypeOK'
  <2>1. runs' \in [FireSlots -> SUBSET Run]
    BY <1>15 DEF CronFires, Run
  <2> QED BY <1>15, <2>1 DEF CronFires, reloadVars
<1>16. ASSUME NEW f \in FireSlots, FireEnds(f)  PROVE SchedulerTypeOK'
  <2>1. PICK run \in runs[f] : stored' = PutSchedule(run.schedule)
    BY <1>16 DEF FireEnds
  <2>2. run.schedule \in Schedule
    BY <2>1 DEF Run
  <2>3. stored' \subseteq Schedule /\ \A x, y \in stored' : x.id = y.id => x = y
    BY <1>2, <2>1, <2>2
  <2> QED BY <1>16, <2>3 DEF FireEnds, reloadVars
<1>17. CASE Stop \/ StopReturns
  BY <1>17 DEF Stop, StopReturns
<1>18. CASE DaemonDies
  BY <1>18 DEF DaemonDies, BootPc, NoRunners, NoJobs
<1>19. CASE UNCHANGED schedulerVars
  BY <1>19 DEF schedulerVars
<1> QED
  BY <1>4, <1>5, <1>6, <1>7, <1>8, <1>9, <1>10, <1>11, <1>12, <1>13, <1>14, <1>15,
     <1>16, <1>17, <1>18, <1>19 DEF SchedulerNext, Reload

(***************************************************************************)
(* The steps that are no part of a reload leave the runners alone.          *)
(***************************************************************************)
LEMMA Bystanders ==
  ASSUME SchedulerTypeOK, [SchedulerNext]_schedulerVars
  PROVE  \/ \E p \in Threads : List(p) \/ StartRunner(p) \/ Swap(p) \/ StopOld(p)
         \/ Stop \/ StopReturns \/ DaemonDies
         \/ /\ UNCHANGED <<mine, old, running, current, halting>>
            /\ \A p \in Threads :
                 pc'[p] \in {"listed", "started", "swapped"} \/ pc[p] \in {"listed", "started", "swapped"}
                   => pc'[p] = pc[p]
<1> DEFINE Quiet == /\ UNCHANGED <<mine, old, running, current, halting>>
                    /\ \A p \in Threads :
                         pc'[p] \in {"listed", "started", "swapped"} \/ pc[p] \in {"listed", "started", "swapped"}
                           => pc'[p] = pc[p]
<1>1. ASSUME NEW p \in Threads, pc[p] \notin {"listed", "started", "swapped"},
             NEW v \in {"idle", "checked", "changed"}, pc' = [pc EXCEPT ![p] = v],
             UNCHANGED <<mine, old, running, current, halting>>
      PROVE  Quiet
  BY <1>1 DEF SchedulerTypeOK
<1>2. ASSUME NEW p \in Callers, NEW i \in Ids, Create(p, i) \/ Check(p, i)  PROVE Quiet
  BY <1>1, <1>2 DEF Create, Check, Change, Ready, reloadVars
<1>3. ASSUME NEW p \in Callers, Edit(p) \/ Remove(p) \/ RunNow(p) \/ Abandon(p)  PROVE Quiet
  BY <1>1, <1>3 DEF Edit, Remove, RunNow, Abandon, Change, reloadVars
<1>4. ASSUME NEW p \in Threads, ListFails(p)  PROVE Quiet
  BY <1>1, <1>4 DEF ListFails, reloadVars
<1>5. ASSUME NEW r \in Runners, NEW f \in FireSlots, CronFires(r, f) \/ FireEnds(f)  PROVE Quiet
  BY <1>5 DEF CronFires, FireEnds, reloadVars
<1>6. ASSUME NEW f \in FireSlots, FireEnds(f)  PROVE Quiet
  BY <1>6 DEF FireEnds, reloadVars
<1>7. CASE UNCHANGED schedulerVars
  BY <1>7 DEF schedulerVars
<1> QED BY <1>2, <1>3, <1>4, <1>5, <1>6, <1>7 DEF SchedulerNext, Reload

LEMMA ReloadInvStep ==
  ASSUME SchedulerTypeOK, ReloadInv, [SchedulerNext]_schedulerVars
  PROVE  ReloadInv'
<1> USE DEF SchedulerTypeOK, ReloadInv, MineIsFresh, OldIsReplaced, StartedIsRunning, WaitsForStopped
<1>1. ASSUME NEW p \in Threads, List(p)  PROVE ReloadInv'
  BY <1>1 DEF List, Unused
<1>2. ASSUME NEW p \in Threads, StartRunner(p)  PROVE ReloadInv'
  BY <1>2 DEF StartRunner
<1>3. ASSUME NEW p \in Threads, Swap(p)  PROVE ReloadInv'
  BY <1>3 DEF Swap, Unlocked
<1>4. ASSUME NEW p \in Threads, StopOld(p)  PROVE ReloadInv'
  BY <1>4 DEF StopOld, Stopped
<1>5. CASE Stop \/ StopReturns
  BY <1>5 DEF Stop, StopReturns
<1>6. CASE DaemonDies
  BY <1>6 DEF DaemonDies, BootPc
<1> QED BY <1>1, <1>2, <1>3, <1>4, <1>5, <1>6, Bystanders

LEMMA RunnersStep ==
  ASSUME SchedulerTypeOK, ReloadInv, RunnersAccounted, NeverUncovered, [SchedulerNext]_schedulerVars
  PROVE  RunnersAccounted' /\ NeverUncovered'
<1> USE DEF SchedulerTypeOK, ReloadInv, MineIsFresh, OldIsReplaced, StartedIsRunning, WaitsForStopped,
            RunnersAccounted, NeverUncovered
<1>1. ASSUME NEW p \in Threads, List(p)  PROVE RunnersAccounted' /\ NeverUncovered'
  BY <1>1 DEF List
<1>2. ASSUME NEW p \in Threads, StartRunner(p)  PROVE RunnersAccounted' /\ NeverUncovered'
  BY <1>2 DEF StartRunner
<1>3. ASSUME NEW p \in Threads, Swap(p)  PROVE RunnersAccounted' /\ NeverUncovered'
  BY <1>3 DEF Swap, Unlocked
<1>4. ASSUME NEW p \in Threads, StopOld(p)  PROVE RunnersAccounted' /\ NeverUncovered'
  BY <1>4 DEF StopOld, Stopped
<1>5. CASE Stop \/ StopReturns
  BY <1>5 DEF Stop, StopReturns
<1>6. CASE DaemonDies
  BY <1>6 DEF DaemonDies
<1> QED BY <1>1, <1>2, <1>3, <1>4, <1>5, <1>6, Bystanders

LEMMA InitOK == SchedulerInit => SchedulerTypeOK /\ ReloadInv /\ RunnersAccounted /\ NeverUncovered
BY DEF SchedulerInit, SchedulerTypeOK, BootPc, NoRunners, NoJobs, ReloadInv, MineIsFresh, OldIsReplaced,
   StartedIsRunning, WaitsForStopped, RunnersAccounted, NeverUncovered

\* The store and the runners are well typed: a schedule id has one row, and a
\* runner is started only after it was made.
THEOREM SchedulerTypeCorrect == SchedulerSpec => [](SchedulerTypeOK /\ ReloadInv)
<1>1. SchedulerTypeOK /\ ReloadInv /\ [SchedulerNext]_schedulerVars => SchedulerTypeOK' /\ ReloadInv'
  BY TypeStep, ReloadInvStep DEF ReloadInv
<1> QED BY <1>1, InitOK, PTL DEF SchedulerSpec

\* However many reloads race, with each other, with runs and with Stop, no cron
\* runner leaks and there is no moment at which none is running.
THEOREM RunnersCorrect == SchedulerSpec => [](RunnersAccounted /\ NeverUncovered)
BY InitOK, RunnersStep, SchedulerTypeCorrect, PTL DEF SchedulerSpec

\* Until Stop takes it down, the runner that the scheduler refers to is running: a
\* reload starts the new one before it stops the one that it replaces.
THEOREM NeverUncoveredCorrect == SchedulerSpec => []NeverUncovered
BY RunnersCorrect, PTL

(***************************************************************************)
(* The change that nothing overlapped.  As long as nothing does, its reload  *)
(* is the only one, no run is under way that may write a schedule back, and  *)
(* the runner being built or swapped in has what the store holds; at rest,   *)
(* the runs under way are of schedules as they are stored.                  *)
(***************************************************************************)
AloneInv ==
  alone /\ halting = "no" =>
    /\ \A p, q \in Reloading : p = q
    /\ Reloading # {} => Underway = {}
    /\ \A f \in FireSlots : \A run \in runs[f] : run.schedule \in stored
    /\ \A p \in Threads : pc[p] \in {"listed", "started"} => jobs[mine[p]] = Enabled(stored)
    /\ (\E p \in Threads : pc[p] = "swapped") \/ Reloading = {}
         => current # NoRunner /\ jobs[current] = Enabled(stored)

\* A run that writes back what is stored changes nothing.
LEMMA PutSame ==
  ASSUME SchedulerTypeOK, NEW x \in stored
  PROVE  PutSchedule(x) = stored
<1>1. \A y \in stored : y.id = x.id => y = x
  BY DEF SchedulerTypeOK
<1> QED BY <1>1 DEF PutSchedule, Without

\* A run of what is stored begins while nobody changes anything.
LEMMA RunStarts ==
  ASSUME SchedulerTypeOK, AloneInv, NEW f \in FireSlots, NEW x, NEW b,
         runs' = [runs EXCEPT ![f] = {[schedule |-> x, by |-> b]}],
         alone /\ halting = "no" /\ Reloading = {} => x \in stored,
         alone' = (alone /\ Reloading = {}),
         UNCHANGED <<stored, jobs, current, halting>>, Reloading' = Reloading,
         \A q \in Threads : q \notin Reloading => pc'[q] \notin {"listed", "started", "swapped"}
  PROVE  AloneInv'
<1> SUFFICES ASSUME alone, Reloading = {}, halting = "no"  PROVE AloneInv'
  BY DEF AloneInv
<1>1. \A g \in FireSlots : \A run \in runs'[g] : run.schedule \in stored
  <2>1. \A g \in FireSlots : g # f => runs'[g] = runs[g]
    BY DEF SchedulerTypeOK
  <2>2. runs'[f] = {[schedule |-> x, by |-> b]}
    BY DEF SchedulerTypeOK
  <2> QED BY <2>1, <2>2 DEF AloneInv
<1>2. current # NoRunner /\ jobs[current] = Enabled(stored)
  BY DEF AloneInv
<1>3. Enabled(stored)' = Enabled(stored)
  BY DEF Enabled
<1> QED BY <1>1, <1>2, <1>3 DEF AloneInv

LEMMA AloneStep ==
  ASSUME SchedulerTypeOK, ReloadInv, RunnersAccounted, AloneInv, [SchedulerNext]_schedulerVars
  PROVE  AloneInv'
<1> USE DEF SchedulerTypeOK, AloneInv, Reloading, Underway
<1>1. ASSUME NEW p \in Threads, NEW S, Change(p, S)  PROVE AloneInv'
  BY <1>1 DEF Change, reloadVars
<1>2. ASSUME NEW p \in Callers, NEW i \in Ids, Create(p, i)  PROVE AloneInv'
  BY <1>1, <1>2 DEF Create
<1>3. ASSUME NEW p \in Callers, NEW i \in Ids, Check(p, i)  PROVE AloneInv'
  BY <1>3 DEF Check, Ready, reloadVars
<1>4. ASSUME NEW p \in Callers, Edit(p) \/ Remove(p)  PROVE AloneInv'
  BY <1>1, <1>4 DEF Edit, Remove
<1>5. ASSUME NEW p \in Callers, RunNow(p)  PROVE AloneInv'
  <2>1. CASE UNCHANGED <<runs, alone>>
    BY <1>5, <2>1 DEF RunNow, reloadVars
  <2>2. ASSUME NEW x \in stored, NEW f \in FireSlots,
               runs' = [runs EXCEPT ![f] = {[schedule |-> x, by |-> NoRunner]}],
               alone' = (alone /\ Reloading = {})
        PROVE  AloneInv'
    <3>1. pc[p] = "checked" /\ pc' = [pc EXCEPT ![p] = "idle"] /\ UNCHANGED <<stored, jobs, current, halting>>
      BY <1>5 DEF RunNow, reloadVars
    <3>2. Reloading' = Reloading /\ \A q \in Threads : q \notin Reloading => pc'[q] \notin {"listed", "started", "swapped"}
      BY <3>1
    <3> QED BY <2>2, <3>1, <3>2, RunStarts
  <2> QED BY <1>5, <2>1, <2>2 DEF RunNow
<1>6. ASSUME NEW p \in Callers, Abandon(p)  PROVE AloneInv'
  BY <1>6 DEF Abandon, reloadVars
<1>7. ASSUME NEW p \in Threads, List(p)  PROVE AloneInv'
  BY <1>7 DEF List, Snapshot
<1>8. ASSUME NEW p \in Threads, ListFails(p)  PROVE AloneInv'
  BY <1>8 DEF ListFails
<1>9. ASSUME NEW p \in Threads, StartRunner(p)  PROVE AloneInv'
  BY <1>9 DEF StartRunner
<1>10. ASSUME NEW p \in Threads, Swap(p)  PROVE AloneInv'
  BY <1>10 DEF Swap, ReloadInv, MineIsFresh
<1>11. ASSUME NEW p \in Threads, StopOld(p)  PROVE AloneInv'
  BY <1>11 DEF StopOld, Released, ReloadInv, OldIsReplaced
<1>12. ASSUME NEW r \in Runners, NEW f \in FireSlots, CronFires(r, f)  PROVE AloneInv'
  <2>1. PICK x \in jobs[r] : runs' = [runs EXCEPT ![f] = {[schedule |-> x, by |-> r]}]
    BY <1>12 DEF CronFires
  <2>2. alone' = (alone /\ Reloading = {}) /\ UNCHANGED <<stored, pc, jobs, current, halting>>
    BY <1>12 DEF CronFires, reloadVars
  <2>3. alone /\ halting = "no" /\ Reloading = {} => x \in stored
    <3>1. Reloading = {} => r = current
      BY <1>12 DEF CronFires, RunnersAccounted
    <3> QED BY <3>1 DEF Enabled
  <2>4. Reloading' = Reloading /\ \A q \in Threads : q \notin Reloading => pc'[q] \notin {"listed", "started", "swapped"}
    BY <2>2
  <2> QED BY <2>1, <2>2, <2>3, <2>4, RunStarts
<1>13. ASSUME NEW f \in FireSlots, FireEnds(f)  PROVE AloneInv'
  BY <1>13, PutSame DEF FireEnds, reloadVars
<1>14. CASE Stop \/ StopReturns
  BY <1>14 DEF Stop, StopReturns
<1>15. CASE DaemonDies
  BY <1>15 DEF DaemonDies, BootPc
<1>16. CASE UNCHANGED schedulerVars
  BY <1>16 DEF schedulerVars
<1> QED
  BY <1>2, <1>3, <1>4, <1>5, <1>6, <1>7, <1>8, <1>9, <1>10, <1>11, <1>12, <1>13, <1>14,
     <1>15, <1>16 DEF SchedulerNext, Reload

\* A change of the schedules that nothing overlapped ends with a runner of exactly
\* the enabled schedules in the store, for any number of schedules and of runs
\* that fire while nobody changes anything.
THEOREM RebuiltCorrect == SchedulerSpec => []RebuiltFromStore
<1>1. SchedulerInit => AloneInv
  BY DEF SchedulerInit, AloneInv, Reloading, Underway, BootPc
<1>2. AloneInv => RebuiltFromStore
  BY DEF AloneInv, RebuiltFromStore
<1> QED BY <1>1, <1>2, AloneStep, SchedulerTypeCorrect, RunnersCorrect, PTL DEF SchedulerSpec
=============================================================================
