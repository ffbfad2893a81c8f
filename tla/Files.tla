------------------------------- MODULE Files -------------------------------
(***************************************************************************)
(* The files of one server's volume: apps/wings/internal/filesystem, the     *)
(* atomic writes, the downloads and their registry of jobs, and the recycle  *)
(* bin, by requests that interleave.  A path is a name in a flat volume, a   *)
(* content is the version that a write or a download brought, and each       *)
(* version is written once.  A temporary file is nobody's until its rename.  *)
(***************************************************************************)
CONSTANTS
  Paths,
  Versions,   \* contents; a download's job has the id of what it brings
  BinIds,     \* names of entries of the bin: each is minted once
  Workers,    \* requests and download goroutines under way at once
  Absent      \* no content, no path, no id

ASSUME FilesAssumption == Absent \notin Paths \cup Versions \cup BinIds

VARIABLES
  file,   \* [Paths -> Versions or Absent]
  bin,    \* [BinIds -> Entry]: the directories of the bin
  aged,   \* versions whose mtime is before a purge's cutoff
  task,   \* [Workers -> Task]
  job,    \* [Versions -> Job]: Jobs.jobs
  ripe,   \* jobs whose UpdatedAt is before the sweeper's cutoff
  fate    \* history: [Versions -> Fate], what has become of a content

filesVars == <<file, bin, aged, task, job, ripe, fate>>

\* An entry: its payload, the original path of its sidecar, DeletedAt's age.
Entry == [is : {"unborn", "there", "gone"}, payload : Versions \cup {Absent},
          meta : Paths \cup {Absent}, old : BOOLEAN]
Task == [does : {"none", "write", "pull", "trash", "restore", "purge"},
         at : {"idle", "fetch", "fill", "succeeded", "failed", "move", "record", "clear", "remove"},
         version : Versions \cup {Absent}, path : Paths \cup {Absent}, id : BinIds \cup {Absent}]
Job == {"none", "running", "done", "error", "evicted"}
Fate == {"unborn", "kept", "replaced", "deleted", "purged", "torn"}

NoEntry == [is |-> "unborn", payload |-> Absent, meta |-> Absent, old |-> FALSE]
Removed == [NoEntry EXCEPT !.is = "gone"]
NoTask == [does |-> "none", at |-> "idle", version |-> Absent, path |-> Absent, id |-> Absent]

FilesInit ==
  /\ file = [p \in Paths |-> Absent]
  /\ bin = [b \in BinIds |-> NoEntry]
  /\ aged = {}
  /\ task = [w \in Workers |-> NoTask]
  /\ job = [v \in Versions |-> "none"]
  /\ ripe = {}
  /\ fate = [v \in Versions |-> "unborn"]

Free(p) == file[p] = Absent
Takes(w, t) == task[w] = NoTask /\ task' = [task EXCEPT ![w] = t]
Done(w) == task' = [task EXCEPT ![w] = NoTask]
Becomes(v, what) == fate' = IF v = Absent THEN fate ELSE [fate EXCEPT ![v] = what]

(***************************************************************************)
(* atomicWrite: a temporary file is filled and then renamed over the path.  *)
(* Write and WriteStream answer their request; a download has a job to tell. *)
(***************************************************************************)
Fresh(v) == fate[v] = "unborn" /\ job[v] = "none" /\ \A w \in Workers : task[w].version # v

Write(w, p, v) ==
  /\ Fresh(v)
  /\ Takes(w, [NoTask EXCEPT !.does = "write", !.at = "fill", !.path = p, !.version = v])
  /\ UNCHANGED <<file, bin, aged, job, ripe, fate>>

Pull(w, p, v) ==
  /\ Fresh(v)
  /\ Takes(w, [NoTask EXCEPT !.does = "pull", !.at = "fetch", !.path = p, !.version = v])
  /\ job' = [job EXCEPT ![v] = "running"]
  /\ UNCHANGED <<file, bin, aged, ripe, fate>>

Fetched(w) ==
  /\ task[w].at = "fetch"
  /\ task' = [task EXCEPT ![w].at = "fill"]
  /\ UNCHANGED <<file, bin, aged, job, ripe, fate>>

\* The write is over: a request is answered, a job has its last update to come.
Wrote(w, result) ==
  task' = [task EXCEPT ![w] = IF @.does = "pull" THEN [@ EXCEPT !.at = result] ELSE NoTask]

Commit(w) ==
  /\ task[w].at = "fill"
  /\ file' = [file EXCEPT ![task[w].path] = task[w].version]
  /\ fate' = [v \in Versions |-> CASE v = task[w].version -> "kept"
                                   [] v = file[task[w].path] -> "replaced"
                                   [] OTHER -> fate[v]]
  /\ Wrote(w, "succeeded")
  /\ UNCHANGED <<bin, aged, job, ripe>>

\* The address is refused, the transfer breaks, the disk is full: abort.
WriteFails(w) ==
  /\ task[w].at \in {"fetch", "fill"}
  /\ Wrote(w, "failed")
  /\ UNCHANGED <<file, bin, aged, job, ripe, fate>>

OutcomeFailed(w) == IF task[w].at = "succeeded" THEN "done" ELSE "failed"   \* mutation: no such status
Outcome(w) == IF task[w].at = "succeeded" THEN "done" ELSE "error"

Report(w) ==
  /\ task[w].at \in {"succeeded", "failed"}
  /\ job' = [job EXCEPT ![task[w].version] = IF @ = "evicted" THEN @ ELSE Outcome(w)]
  /\ Done(w)
  /\ UNCHANGED <<file, bin, aged, ripe, fate>>

Sweep(v) ==
  /\ job[v] \in {"done", "error"} /\ v \in ripe
  /\ job' = [job EXCEPT ![v] = "evicted"]
  /\ ripe' = ripe \ {v}
  /\ UNCHANGED <<file, bin, aged, task, fate>>

\* RENAME_NOREPLACE: an occupied destination is refused.
Rename(p, q) ==
  /\ ~Free(p) /\ Free(q)
  /\ file' = [file EXCEPT ![p] = Absent, ![q] = file[p]]
  /\ UNCHANGED <<bin, aged, task, job, ripe, fate>>

(***************************************************************************)
(* The recycle bin.  Trash makes the entry, moves the payload and writes the *)
(* sidecar; whatever fails, it tears the entry down.                        *)
(***************************************************************************)
Tear(b, what) ==
  /\ bin' = [bin EXCEPT ![b] = Removed]
  /\ Becomes(bin[b].payload, what)

Trash(w, p, b) ==
  /\ ~Free(p) /\ bin[b].is = "unborn"
  /\ Takes(w, [NoTask EXCEPT !.does = "trash", !.at = "move", !.path = p, !.id = b])
  /\ bin' = [bin EXCEPT ![b].is = "there"]
  /\ UNCHANGED <<file, aged, job, ripe, fate>>

Movable(w) == ~Free(task[w].path) /\ bin[task[w].id].is = "there"

TrashMoves(w) ==
  /\ task[w].does = "trash" /\ task[w].at = "move"
  /\ IF Movable(w)
       THEN /\ bin' = [bin EXCEPT ![task[w].id].payload = file[task[w].path]]
            /\ file' = [file EXCEPT ![task[w].path] = Absent]
            /\ task' = [task EXCEPT ![w].at = "record"]
            /\ UNCHANGED fate
       ELSE Tear(task[w].id, "torn") /\ Done(w) /\ UNCHANGED file
  /\ UNCHANGED <<aged, job, ripe>>

TrashRecords(w) ==
  /\ task[w].at = "record"
  /\ bin' = IF bin[task[w].id].is = "there" THEN [bin EXCEPT ![task[w].id].meta = task[w].path] ELSE bin
  /\ Done(w)
  /\ UNCHANGED <<file, aged, job, ripe, fate>>

RecordFails(w) ==
  /\ task[w].at = "record"
  /\ Tear(task[w].id, "torn")
  /\ Done(w)
  /\ UNCHANGED <<file, aged, job, ripe>>

\* RestoreTrash: where the sidecar says, or a name that nothing has.
Target(b, q) == Free(q) /\ (bin[b].meta # Absent /\ Free(bin[b].meta) => q = bin[b].meta)

Restore(w, b, q) ==
  /\ bin[b].payload # Absent /\ Target(b, q)
  /\ Takes(w, [NoTask EXCEPT !.does = "restore", !.at = "move", !.path = q, !.id = b])
  /\ UNCHANGED <<file, bin, aged, job, ripe, fate>>

RestorableOver(w) == bin[task[w].id].payload # Absent   \* mutation: a rename that replaces
Restorable(w) == bin[task[w].id].payload # Absent /\ Free(task[w].path)

RestoreMoves(w) ==
  /\ task[w].does = "restore" /\ task[w].at = "move"
  /\ IF Restorable(w)
       THEN /\ file' = [file EXCEPT ![task[w].path] = bin[task[w].id].payload]
            /\ bin' = [bin EXCEPT ![task[w].id].payload = Absent]
            /\ task' = [task EXCEPT ![w].at = "clear"]
       ELSE Done(w) /\ UNCHANGED <<file, bin>>
  /\ UNCHANGED <<aged, job, ripe, fate>>

RestoreClears(w) ==
  /\ task[w].at = "clear"
  /\ Tear(task[w].id, "torn")
  /\ Done(w)
  /\ UNCHANGED <<file, aged, job, ripe>>

DeleteTrash(b) ==
  /\ bin[b].is = "there"
  /\ Tear(b, "deleted")
  /\ UNCHANGED <<file, aged, task, job, ripe>>

EmptyTrash ==
  /\ bin' = [b \in BinIds |-> IF bin[b].is = "there" THEN Removed ELSE bin[b]]
  /\ fate' = [v \in Versions |-> IF \E b \in BinIds : bin[b].payload = v THEN "deleted" ELSE fate[v]]
  /\ UNCHANGED <<file, aged, task, job, ripe>>

\* PurgeTrashOlderThan, of one entry: without a sidecar, it goes by the
\* payload's mtime, and by the zero time if there is no payload either.
Expired(b) ==
  IF bin[b].meta # Absent THEN bin[b].old ELSE bin[b].payload \in aged \cup {Absent}

Purge(w, b) ==
  /\ bin[b].is = "there" /\ Expired(b)
  /\ Takes(w, [NoTask EXCEPT !.does = "purge", !.at = "remove", !.id = b])
  /\ UNCHANGED <<file, bin, aged, job, ripe, fate>>

PurgeRemoves(w) ==
  /\ task[w].at = "remove"
  /\ Tear(task[w].id, IF bin[task[w].id].old THEN "purged" ELSE "torn")
  /\ Done(w)
  /\ UNCHANGED <<file, aged, job, ripe>>

(***************************************************************************)
(* Time, and the end of the daemon: the volume is what it was.              *)
(***************************************************************************)
FileAges(v) ==
  /\ fate[v] # "unborn"
  /\ aged' = aged \cup {v}
  /\ UNCHANGED <<file, bin, task, job, ripe, fate>>

EntryAges(b) ==
  /\ bin[b].meta # Absent
  /\ bin' = [bin EXCEPT ![b].old = TRUE]
  /\ UNCHANGED <<file, aged, task, job, ripe, fate>>

JobAges(v) ==
  /\ job[v] \in {"running", "done", "error"}
  /\ ripe' = ripe \cup {v}
  /\ UNCHANGED <<file, bin, aged, task, job, fate>>

DaemonRestarts ==
  /\ task' = [w \in Workers |-> NoTask]
  /\ job' = [v \in Versions |-> IF job[v] = "none" THEN "none" ELSE "evicted"]
  /\ ripe' = {}
  /\ UNCHANGED <<file, bin, aged, fate>>

FilesNext ==
  \/ \E w \in Workers :
       \/ \E p \in Paths, v \in Versions : Write(w, p, v) \/ Pull(w, p, v)
       \/ \E b \in BinIds : Purge(w, b) \/ \E p \in Paths : Trash(w, p, b) \/ Restore(w, b, p)
       \/ Fetched(w) \/ Commit(w) \/ WriteFails(w) \/ Report(w)
       \/ TrashMoves(w) \/ TrashRecords(w) \/ RecordFails(w)
       \/ RestoreMoves(w) \/ RestoreClears(w) \/ PurgeRemoves(w)
  \/ \E p, q \in Paths : Rename(p, q)
  \/ \E b \in BinIds : DeleteTrash(b) \/ EntryAges(b)
  \/ \E v \in Versions : Sweep(v) \/ FileAges(v) \/ JobAges(v)
  \/ EmptyTrash \/ DaemonRestarts

FilesSpec == FilesInit /\ [][FilesNext]_filesVars

FilesTypeOK ==
  /\ file \in [Paths -> Versions \cup {Absent}]
  /\ bin \in [BinIds -> Entry]
  /\ aged \subseteq Versions /\ ripe \subseteq Versions
  /\ task \in [Workers -> Task]
  /\ job \in [Versions -> Job]
  /\ fate \in [Versions -> Fate]

(***************************************************************************)
(* Nothing is lost or doubled (filesystem.go:640-643, 681-683: a restore     *)
(* "never clobbers a live file"): whatever renames, restores, purges and     *)
(* writes interleave, a content that nobody replaced or removed is in one    *)
(* place, in the volume or in the bin, and only such a content is; and what  *)
(* a job says of its download (downloads.go:173-183) is so.                 *)
(***************************************************************************)
InVolume(v) == \E p \in Paths : file[p] = v
InBin(v) == \E b \in BinIds : bin[b].payload = v

OnePlace ==
  /\ \A p, q \in Paths : file[p] = file[q] /\ p # q => Free(p)
  /\ \A b, c \in BinIds : bin[b].payload = bin[c].payload /\ b # c => bin[b].payload = Absent
  /\ \A v \in Versions : ~(InVolume(v) /\ InBin(v))

JobsTell ==
  \A v \in Versions : /\ job[v] = "done" => fate[v] # "unborn"
                      /\ job[v] = "error" => fate[v] = "unborn"

FilesKept ==
  /\ \A v \in Versions : fate[v] = "kept" <=> InVolume(v) \/ InBin(v)
  /\ OnePlace
  /\ JobsTell
=============================================================================
