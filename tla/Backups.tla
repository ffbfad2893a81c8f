------------------------------ MODULE Backups ------------------------------
(***************************************************************************)
(* The backups of one server: apps/wings/internal/backup over the shared    *)
(* borg repository and the daemon's store, as the panel's server functions  *)
(* (apps/panel/src/server/backups) and the scheduler's steps drive it.      *)
(*                                                                         *)
(* An archive is named by the server and the second of its creation, so     *)
(* here the second is its name.  Borg runs in a one-shot container: it      *)
(* keeps the archives, the store keeps their locks, and the manager keeps   *)
(* the manual creates that have no archive yet.                             *)
(***************************************************************************)
EXTENDS Naturals, FiniteSets

CONSTANTS
  Workers,     \* bound: requests and background creates under way at once
  LastSecond,  \* bound: seconds the clock goes through
  Versions     \* states of the data volume, each whole by itself

ASSUME SecondAssumption == LastSecond \in Nat \ {0}
ASSUME VersionAssumption == "torn" \notin Versions

Second == 1 .. LastSecond
Data == SUBSET (Versions \cup {"torn"})   \* {v} is whole; two of them are mixed

VARIABLES
  clock,      \* the second newArchive would use
  archives,   \* the archives in the repository
  content,    \* [Second -> Data]: what was archived
  meta,       \* [Second -> ...]: the stored metadata: none, or its lock
  creating,   \* [Second -> ...]: Manager.creating
  volume,     \* the server's data volume
  up,         \* the server's container runs
  work,       \* [Workers -> SUBSET Work]: at most what a worker does
  promise     \* history, [Second -> ...]: a lock was set, and what raced it

backupVars == <<clock, archives, content, meta, creating, volume, up, work, promise>>
repoVars == <<archives, content>>
serverVars == <<volume, up>>

Work == [does : {"create", "run", "delete", "restore"},
         at : {"start", "reading", "meta", "stored", "failed",       \* createAndStore
               "asked", "forgetting", "checked", "deleting", "deleted",     \* Delete
               "stopping", "stopped", "extracting", "restored"},            \* Restore
         name : Second,
         seen : Data,          \* what borg has read, or extracted
         wiped : BOOLEAN,      \* history: the wipe removed everything
         alone : BOOLEAN,      \* nothing else has touched the volume since the wipe
         watched : BOOLEAN]    \* the daemon still waits for the container

BackupsTypeOK ==
  /\ clock \in Second
  /\ archives \subseteq Second
  /\ content \in [Second -> Data]
  /\ meta \in [Second -> {"none", "unlocked", "locked"}]
  /\ creating \in [Second -> {"none", "creating", "failed"}]
  /\ volume \in Data
  /\ up \in BOOLEAN
  /\ work \in [Workers -> SUBSET Work]
  /\ \A w \in Workers : \A j, k \in work[w] : j = k
  /\ promise \in [Second -> {"none", "raced", "clear"}]

BackupsInit ==
  /\ clock = 1
  /\ archives = {}
  /\ content = [s \in Second |-> {}]
  /\ meta = [s \in Second |-> "none"]
  /\ creating = [s \in Second |-> "none"]
  /\ volume \in {{v} : v \in Versions}
  /\ up \in BOOLEAN
  /\ work = [w \in Workers |-> {}]
  /\ promise = [s \in Second |-> "none"]

Idle(w) == work[w] = {}
Becomes(w, j) == work' = [work EXCEPT ![w] = {j}]
Goes(w, j, at) == Becomes(w, [j EXCEPT !.at = at])
Ends(w) == work' = [work EXCEPT ![w] = {}]

New(what, at, name) ==
  [does |-> what, at |-> at, name |-> name, seen |-> {}, wiped |-> FALSE,
   alone |-> FALSE, watched |-> TRUE]

Tick ==
  /\ clock < LastSecond
  /\ clock' = clock + 1
  /\ UNCHANGED <<repoVars, meta, creating, serverVars, work, promise>>

(***************************************************************************)
(* Create, by a user or by a schedule's step.  Two creates of one second    *)
(* have one name; borg refuses the second of them.                          *)
(***************************************************************************)
Create(w) ==
  /\ Idle(w)
  /\ creating' = [creating EXCEPT ![clock] = "creating"]
  /\ Becomes(w, New("create", "start", clock))
  /\ UNCHANGED <<clock, repoVars, meta, serverVars, promise>>

RunBackup(w) ==
  /\ Idle(w)
  /\ Becomes(w, New("run", "start", clock))
  /\ UNCHANGED <<clock, repoVars, meta, creating, serverVars, promise>>

BorgReads(w) ==
  /\ \E j \in work[w] :
       /\ j.at = "start"
       /\ Becomes(w, [j EXCEPT !.at = "reading", !.seen = volume])
  /\ UNCHANGED <<clock, repoVars, meta, creating, serverVars, promise>>

\* A volume that changed under borg is archived as a mixture.
Archived(seen) == IF seen = volume THEN seen ELSE seen \cup volume \cup {"torn"}

\* Borg is done.  Whether the daemon learns of it is up to its context and to
\* the reading of the output.
BorgCreates(w) ==
  /\ \E j \in work[w] :
       /\ j.at = "reading" /\ j.name \notin archives
       /\ archives' = archives \cup {j.name}
       /\ content' = [content EXCEPT ![j.name] = Archived(j.seen)]
       /\ IF j.watched THEN Goes(w, j, "meta") \/ Goes(w, j, "failed") ELSE Ends(w)
  /\ UNCHANGED <<clock, meta, creating, serverVars, promise>>

PutBackupMeta(w) ==
  /\ \E j \in work[w] :
       /\ j.at = "meta"
       /\ meta' = [meta EXCEPT ![j.name] = "unlocked"]
       /\ Goes(w, j, "stored")
  /\ UNCHANGED <<clock, repoVars, creating, serverVars, promise>>

\* No image, a refusal of borg or of the store, or createTimeout.
Untimed(j) == j.at \in {"start", "meta"}   \* mutation: a create without a deadline
MayFail(j) == j.at \in {"start", "reading", "meta"}
CreateFails(w) ==
  /\ \E j \in work[w] :
       /\ MayFail(j)
       /\ IF j.watched THEN Goes(w, j, "failed") ELSE Ends(w)
  /\ UNCHANGED <<clock, repoVars, meta, creating, serverVars, promise>>

\* A manual create leaves the tracker, or stays in it as failed.
Completed(j) == IF j.at = "failed" THEN "failed" ELSE "completed"   \* mutation
StillThere(j) == IF j.at = "failed" THEN "failed" ELSE "creating"   \* mutation
Outcome(j) == IF j.at = "failed" THEN "failed" ELSE "none"
CreateEnds(w) ==
  /\ \E j \in work[w] :
       /\ j.at \in {"stored", "failed"}
       /\ creating' = IF j.does = "create" THEN [creating EXCEPT ![j.name] = Outcome(j)]
                                           ELSE creating
  /\ Ends(w)
  /\ UNCHANGED <<clock, repoVars, meta, serverVars, promise>>

(***************************************************************************)
(* Delete and SetLock, of a backup that List shows.                         *)
(***************************************************************************)
Listed == archives \cup {s \in Second : creating[s] # "none"}

AskDelete(w, s) ==
  /\ Idle(w)
  /\ s \in Listed
  /\ Becomes(w, New("delete", "asked", s))
  /\ UNCHANGED <<clock, repoVars, meta, creating, serverVars, promise>>

\* The tracker first: refused while it is being created, ...
DeleteReadsTracker(w) ==
  /\ \E j \in work[w] :
       /\ j.at = "asked"
       /\ CASE creating[j.name] = "none"   -> Goes(w, j, "checked")
            [] creating[j.name] = "failed" -> Goes(w, j, "forgetting")
            [] OTHER                       -> Ends(w)
  /\ UNCHANGED <<clock, repoVars, meta, creating, serverVars, promise>>

\* ... and a failed create is only dropped from it.
DeleteForgets(w) ==
  /\ \E j \in work[w] :
       /\ j.at = "forgetting"
       /\ creating' = [creating EXCEPT ![j.name] = "none"]
  /\ Ends(w)
  /\ UNCHANGED <<clock, repoVars, meta, serverVars, promise>>

AnyMeta(s) == TRUE
MayDelete(s) == meta[s] # "locked"
DeleteReadsLock(w) ==
  /\ \E j \in work[w] :
       /\ j.at = "checked"
       /\ IF MayDelete(j.name) THEN Goes(w, j, "deleting") ELSE Ends(w)
  /\ UNCHANGED <<clock, repoVars, meta, creating, serverVars, promise>>

BorgDeletes(w) ==
  /\ \E j \in work[w] :
       /\ j.at = "deleting" /\ j.name \in archives
       /\ archives' = archives \ {j.name}
       /\ content' = [content EXCEPT ![j.name] = {}]
       /\ (j.watched /\ Goes(w, j, "deleted")) \/ Ends(w)
  /\ UNCHANGED <<clock, meta, creating, serverVars, promise>>

\* Borg refuses, or the request's context ends before borg is done.
DeleteFails(w) ==
  /\ \E j \in work[w] : j.at = "deleting"
  /\ Ends(w)
  /\ UNCHANGED <<clock, repoVars, meta, creating, serverVars, promise>>

DeleteBackupMeta(w) ==
  /\ \E j \in work[w] :
       /\ j.at = "deleted"
       /\ meta' = [meta EXCEPT ![j.name] = "none"]
  /\ Ends(w)
  /\ UNCHANGED <<clock, repoVars, creating, serverVars, promise>>

\* Nothing is about to change the archive or its metadata.
Settled(s) ==
  \A w \in Workers : \A j \in work[w] :
    j.name = s => j.at \notin {"meta", "deleting", "deleted"}

\* One transaction on the metadata, which has to exist.
SetLock(s, lock) ==
  /\ meta[s] # "none"
  /\ meta' = [meta EXCEPT ![s] = IF lock THEN "locked" ELSE "unlocked"]
  /\ promise' = [promise EXCEPT ![s] =
       IF ~lock \/ (@ = "none" /\ s \notin archives) THEN "none"
       ELSE IF @ = "clear" \/ (Settled(s) /\ s \in archives) THEN "clear"
       ELSE "raced"]
  /\ UNCHANGED <<clock, repoVars, creating, serverVars, work>>

(***************************************************************************)
(* Restore: the panel stops the server, and goes on if it cannot; the       *)
(* daemon wipes the volume and extracts the archive, in one container.      *)
(***************************************************************************)
\* What else is under way on the volume is no longer alone with it.
NobodyAlone(w) == {[j EXCEPT !.alone = FALSE] : j \in work[w]}

AskRestore(w, s) ==
  /\ Idle(w)
  /\ s \in Listed
  /\ Becomes(w, New("restore", "stopping", s))
  /\ UNCHANGED <<clock, repoVars, meta, creating, serverVars, promise>>

StopForRestore(w) ==
  /\ \E j \in work[w] : j.at = "stopping" /\ Goes(w, j, "stopped")
  /\ up' \in {up, FALSE}
  /\ UNCHANGED <<clock, repoVars, meta, creating, volume, promise>>

Extracting == \E w \in Workers : \E j \in work[w] : j.at = "extracting"

\* `find ... -delete 2>/dev/null;`: the extraction follows whether or not the
\* wipe removed everything, and nothing tells the two apart afterwards.
RestoreWipes(w) ==
  /\ \E j \in work[w], wiped \in BOOLEAN :
       /\ j.at = "stopped"
       /\ wiped \/ volume # {}
       /\ volume' \in IF wiped THEN {{}} ELSE {volume, volume \cup {"torn"}}
       /\ work' = [x \in Workers |->
            IF x = w THEN {[j EXCEPT !.at = "extracting", !.wiped = wiped,
                                     !.alone = ~up /\ ~Extracting]}
                     ELSE NobodyAlone(x)]
  /\ UNCHANGED <<clock, repoVars, meta, creating, up, promise>>

BorgExtracts(w) ==
  /\ \E j \in work[w] :
       /\ j.at = "extracting" /\ j.name \in archives
       /\ volume' = volume \cup content[j.name]
       /\ (j.watched /\ Becomes(w, [j EXCEPT !.at = "restored", !.seen = content[j.name]]))
          \/ Ends(w)
  /\ UNCHANGED <<clock, repoVars, meta, creating, up, promise>>

\* mutation: the exit code of borg is not looked at
Unnoticed(w, j) ==
  IF j.at = "extracting" /\ j.watched
    THEN Becomes(w, [j EXCEPT !.at = "restored", !.seen = content[j.name]])
    ELSE Ends(w)
Reported(w, j) == Ends(w)

\* Borg has no such archive, cannot lock the repository, or is stopped half-way.
RestoreFails(w) ==
  /\ \E j \in work[w] :
       /\ \/ j.at = "stopped" /\ UNCHANGED volume
          \/ j.at = "extracting" /\ volume' \in {volume, volume \cup {"torn"}}
       /\ Reported(w, j)
  /\ UNCHANGED <<clock, repoVars, meta, creating, up, promise>>

RestoreReturns(w) ==
  /\ \E j \in work[w] : j.at = "restored"
  /\ Ends(w)
  /\ UNCHANGED <<clock, repoVars, meta, creating, serverVars, promise>>

(***************************************************************************)
(* The server and the daemon's process.                                     *)
(***************************************************************************)
Start ==
  /\ ~up
  /\ up' = TRUE
  /\ work' = [w \in Workers |-> NobodyAlone(w)]
  /\ UNCHANGED <<clock, repoVars, meta, creating, volume, promise>>

ServerWrites(v) ==
  /\ up
  /\ volume' = IF volume \in {{x} : x \in Versions} THEN {v} ELSE volume \cup {v}
  /\ UNCHANGED <<clock, repoVars, meta, creating, up, work, promise>>

\* The daemon dies, and a container that runs is left running.
Unwatched(w) ==
  {[j EXCEPT !.watched = FALSE, !.alone = FALSE] :
     j \in {k \in work[w] : k.at \in {"reading", "deleting", "extracting"}}}

CrashBackups ==
  /\ creating' = [s \in Second |-> "none"]
  /\ work' = [w \in Workers |-> Unwatched(w)]
  /\ UNCHANGED <<clock, repoVars, meta, serverVars, promise>>

BackupsNext ==
  \/ Tick \/ Start \/ CrashBackups
  \/ \E v \in Versions : ServerWrites(v)
  \/ \E s \in Second, lock \in BOOLEAN : SetLock(s, lock)
  \/ \E w \in Workers, s \in Second : AskDelete(w, s) \/ AskRestore(w, s)
  \/ \E w \in Workers :
       \/ Create(w) \/ RunBackup(w) \/ BorgReads(w) \/ BorgCreates(w)
       \/ PutBackupMeta(w) \/ CreateFails(w) \/ CreateEnds(w)
       \/ DeleteReadsTracker(w) \/ DeleteForgets(w) \/ DeleteReadsLock(w)
       \/ BorgDeletes(w) \/ DeleteFails(w) \/ DeleteBackupMeta(w)
       \/ StopForRestore(w) \/ RestoreWipes(w) \/ BorgExtracts(w)
       \/ RestoreFails(w) \/ RestoreReturns(w)

\* Nobody waits for ever for borg (createTimeout, scriptTimeout); the store
\* answers.  Users, servers and borg itself owe nothing.
Comes(w) ==
  (\E j \in work[w] : j.watched) /\ (PutBackupMeta(w) \/ CreateFails(w))
BackupsFairness ==
  \A w \in Workers : WF_backupVars(Comes(w)) /\ WF_backupVars(CreateEnds(w))

BackupsSpec == BackupsInit /\ [][BackupsNext]_backupVars /\ BackupsFairness

(***************************************************************************)
(* Properties.                                                              *)
(***************************************************************************)
\* A lock that nothing raced keeps its archive until it is taken off: whatever
\* is created, deleted, restored or cut off meanwhile (Delete's checks, borg's
\* refusal of a name it has, PutBackupMeta).
LockHolds == \A s \in Second : promise[s] = "clear" => s \in archives

\* Why: no Delete is past its check of it, and no create is about to store
\* fresh metadata over its lock.
LockInv ==
  \A s \in Second : promise[s] = "clear" =>
    /\ s \in archives
    /\ meta[s] = "locked"
    /\ Settled(s)

\* A restore that reported success, and that nothing disturbed, left all of the
\* archive in the volume, and nothing else if its wipe removed everything.
RestoredExactly ==
  \A w \in Workers : \A j \in work[w] :
    j.at = "restored" /\ j.alone =>
      j.seen \subseteq volume /\ (j.wiped => volume = j.seen)

\* Why: it is by itself with what its wipe left of the volume.
RestoreInv ==
  \A w \in Workers : \A j \in work[w] : j.alone =>
    /\ j.at \in {"extracting", "restored"}
    /\ ~up
    /\ j.at = "extracting" /\ j.wiped => volume = {}
    /\ j.at = "restored" => j.seen \subseteq volume /\ (j.wiped => volume = j.seen)
    /\ \A x \in Workers \ {w} : \A k \in work[x] : k.at # "extracting"

\* A create that List shows as creating is one that a goroutine works on.
CreatingIsTrue ==
  \A s \in Second : creating[s] = "creating" =>
    \E w \in Workers : \E j \in work[w] :
      j.does = "create" /\ j.name = s /\ j.watched

\* Why: whoever else drops it from the tracker, no create ends without doing so.
CreateInv ==
  \A w \in Workers : \A j \in work[w] :
    j.does = "create" => j.at \in {"start", "reading", "meta", "stored", "failed"}

BackupsInv == LockInv /\ RestoreInv /\ CreateInv

\* List does not show a backup as creating for ever (createTimeout).
CreatingEnds == \A s \in Second : creating[s] = "creating" ~> creating[s] # "creating"
=============================================================================
