------------------------------- MODULE Drives -------------------------------
(***************************************************************************)
(* The disks of a box: wings/drive, which formats, mounts and unmounts a     *)
(* whole disk, keeps /etc/fstab and moves Docker's data-root.  Requests run  *)
(* side by side without a lock, each a host tool at a time, and end with a   *)
(* reboot.  Mountpoints are those validMountpoint accepts, none below        *)
(* another; the tools are external: mkfs refuses a mounted disk, umount one  *)
(* in use or mounted over.                                                  *)
(***************************************************************************)
EXTENDS SequencesExt, Integers

CONSTANTS
  Disks, System,   \* the disks, and the one with the operating system
  Points, Root,    \* mountpoints, and the one of the system
  Reqs,            \* requests under way at once
  NoDisk,
  MaxFormats,      \* of one disk, and
  MaxMounts        \* mounts on the box: bounds

ASSUME DrivesAssumption ==
  /\ System \notin Disks /\ Root \notin Points /\ NoDisk \notin Disks \cup Points \cup {System, Root}
  /\ MaxFormats \in Nat

VARIABLES
  fs,        \* [Disks -> Filesystem]: a new one has a new UUID
  mounts,    \* the kernel's table, the latest mount last
  fstab,     \* the lines with a UUID
  dataRoot,  \* the mountpoint that daemon.json names
  engine,    \* the mount Docker has its data in, Down when it is stopped
  target,    \* GetDataTarget
  req,       \* [Reqs -> Req]
  overlapped,\* history: requests overlapped
  failed,    \* history: a request failed half-way
  left       \* history: lines of a mount that an unmount undid and left in fstab

drivesVars == <<fs, mounts, fstab, dataRoot, engine, target, req, overlapped, failed, left>>

Filesystem == [uuid : 0..MaxFormats, made : BOOLEAN]
Mounted == [drive : Disks \cup {System}, at : Points \cup {Root}]
Line == [drive : Disks, uuid : 0..MaxFormats, at : Points]
Req == [do : {"none", "format", "mount", "unmount", "target"},
        at : {"idle", "mkfs", "mount", "umount", "read", "write", "config", "restart", "put"},
        device : Disks \cup {NoDisk}, point : Points \cup {NoDisk}, copy : SUBSET Line]

SystemMount == [drive |-> System, at |-> Root]
Down == [drive |-> NoDisk, at |-> NoDisk]
NoReq == [do |-> "none", at |-> "idle", device |-> NoDisk, point |-> NoDisk, copy |-> {}]

DrivesTypeOK ==
  /\ fs \in [Disks -> Filesystem]
  /\ mounts \in Seq(Mounted)
  /\ fstab \in SUBSET Line
  /\ dataRoot \in Points \cup {Root}
  /\ engine \in Mounted \cup {Down}
  /\ target \in Disks \cup {NoDisk}
  /\ req \in [Reqs -> Req]
  /\ overlapped \in BOOLEAN /\ failed \in BOOLEAN
  /\ left \in SUBSET Line

DrivesInit ==
  /\ fs \in [Disks -> {[uuid |-> 0, made |-> b] : b \in BOOLEAN}]
  /\ mounts = <<SystemMount>>
  /\ fstab = {}
  /\ dataRoot = Root
  /\ engine = SystemMount
  /\ target = NoDisk
  /\ req = [r \in Reqs |-> NoReq]
  /\ overlapped = FALSE /\ failed = FALSE /\ left = {}

(***************************************************************************)
(* What lsblk and the path look-up of the kernel say.                       *)
(***************************************************************************)
OnPoint(p) == SelectLastInSeq(mounts, LAMBDA m : m.at = p)
OfDrive(d) == SelectLastInSeq(mounts, LAMBDA m : m.drive = d)
IsMounted(d) == OfDrive(d) # 0

\* primaryMount: the latest mount of the disk.
PrimaryMount(d) == IF IsMounted(d) THEN mounts[OfDrive(d)].at ELSE NoDisk
IsSystem(d) == \E i \in 1..Len(mounts) : mounts[i].drive = d /\ mounts[i].at = Root
\* The mount whose files a path shows.
Resolve(p) == IF OnPoint(p) = 0 THEN SystemMount ELSE mounts[OnPoint(p)]

GoesOn(r, at) == req' = [req EXCEPT ![r].at = at]
Finishes(r) == req' = [req EXCEPT ![r] = NoReq]

(***************************************************************************)
(* A request and its guard: the disks are listed, the system's is refused,   *)
(* and the data target is refused to Format and Unmount.  SetDataTarget needs*)
(* a mounted disk, whose mountpoint it keeps.                               *)
(***************************************************************************)
Begin(r, do, d, at, p) ==
  /\ req[r] = NoReq
  /\ ~IsSystem(d)
  /\ req' = [req EXCEPT ![r] = [do |-> do, at |-> at, device |-> d, point |-> p, copy |-> {}]]
  /\ overlapped' = (overlapped \/ \E q \in Reqs \ {r} : req[q] # NoReq)
  /\ UNCHANGED <<fs, mounts, fstab, dataRoot, engine, target, failed, left>>

Format(r, d, p) == target # d /\ Begin(r, "format", d, "mkfs", p)
Mount(r, d, p) == Begin(r, "mount", d, "mount", p)
Unmount(r, d) == target # d /\ Begin(r, "unmount", d, "umount", PrimaryMount(d))
SetDataTarget(r, d) == IsMounted(d) /\ Begin(r, "target", d, "config", PrimaryMount(d))

\* Lines that stay for good when a request ends now: an unmount's.
Leaves(r, lines) == {l \in lines : req[r].do = "unmount" /\ l.at = req[r].point}

\* mkfs: a new filesystem.  Killed, it leaves a part of one, or all of it.
Mkfs(r) ==
  LET d == req[r].device IN
  /\ req[r].at = "mkfs"
  /\ ~IsMounted(d) /\ fs[d].uuid < MaxFormats
  /\ \E made \in BOOLEAN :
        /\ fs' = [fs EXCEPT ![d] = [uuid |-> @.uuid + 1, made |-> made]]
        /\ (made /\ GoesOn(r, "mount")) \/ Finishes(r)
  /\ UNCHANGED <<mounts, fstab, dataRoot, engine, target, overlapped, failed, left>>

\* mount of the device; without a UUID from blkid fstab is left alone, and so it
\* is when the tool is killed after the kernel has mounted.
MountDrive(r) ==
  LET m == [drive |-> req[r].device, at |-> req[r].point] IN
  /\ req[r].at = "mount"
  /\ fs[m.drive].made
  /\ m \notin ToSet(mounts) /\ Len(mounts) <= MaxMounts
  /\ mounts' = Append(mounts, m)
  /\ \/ GoesOn(r, "read") /\ UNCHANGED failed
     \/ Finishes(r) /\ failed' = TRUE
  /\ UNCHANGED <<fs, fstab, dataRoot, engine, target, overlapped, left>>

\* umount of a device takes its latest mount.  Killed at its deadline, or with
\* the request, it fails though the kernel has unmounted: no line is removed.
Umount(r) ==
  LET d == req[r].device
      m == mounts[OfDrive(d)]
  IN
  /\ req[r].at = "umount"
  /\ IsMounted(d) /\ Resolve(m.at) = m /\ engine # m
  /\ mounts' = RemoveAt(mounts, OfDrive(d))
  /\ \/ GoesOn(r, "read") /\ UNCHANGED <<failed, left>>
     \/ Finishes(r) /\ failed' = TRUE /\ left' = left \cup Leaves(r, fstab)
  /\ UNCHANGED <<fs, fstab, dataRoot, engine, target, overlapped>>

\* rewriteFstab reads the file, drops the lines with the mountpoint, and writes
\* it back with the new line.
ReadFstab(r) ==
  /\ req[r].at = "read"
  /\ req' = [req EXCEPT ![r].at = "write", ![r].copy = fstab]
  /\ UNCHANGED <<fs, mounts, fstab, dataRoot, engine, target, overlapped, failed, left>>

KeptByDevice(lines, p) == lines   \* mutation: no line begins with the device
Kept(lines, p) == {l \in lines : l.at # p}
Added(r) ==
  LET d == req[r].device IN
  IF req[r].do = "unmount" THEN {} ELSE {[drive |-> d, uuid |-> fs[d].uuid, at |-> req[r].point]}
\* The file is written in place: cut off, it has some of its lines or all the old.
WriteFstab(r) ==
  LET new == Kept(req[r].copy, req[r].point) \cup Added(r) IN
  /\ req[r].at = "write"
  /\ \/ fstab' = new /\ left' = left \ Added(r) /\ UNCHANGED failed
     \/ /\ fstab' \in SUBSET new \/ fstab' = fstab
        /\ failed' = TRUE /\ left' = left \cup Leaves(r, fstab')
  /\ Finishes(r)
  /\ UNCHANGED <<fs, mounts, dataRoot, engine, target, overlapped>>

SetDockerDataRoot(r) ==
  /\ req[r].at = "config"
  /\ dataRoot' = req[r].point
  /\ GoesOn(r, "restart")
  /\ UNCHANGED <<fs, mounts, fstab, engine, target, overlapped, failed, left>>

\* systemctl restart docker: a failure leaves it stopped, or restarted all the same.
RestartDocker(r) ==
  /\ req[r].at = "restart"
  /\ \/ engine' = Resolve(dataRoot) /\ GoesOn(r, "put") /\ UNCHANGED failed
     \/ engine' \in {Resolve(dataRoot), Down} /\ Finishes(r) /\ failed' = TRUE
  /\ UNCHANGED <<fs, mounts, fstab, dataRoot, target, overlapped, left>>

PutDataTarget(r) ==
  /\ req[r].at = "put"
  /\ target' = req[r].device
  /\ Finishes(r)
  /\ UNCHANGED <<fs, mounts, fstab, dataRoot, engine, overlapped, failed, left>>

\* The next tool or write does nothing and fails, the request is cancelled, or
\* the daemon dies.
ToolFails(r) ==
  /\ req[r].at # "idle"
  /\ Finishes(r)
  /\ failed' = (failed \/ req[r].at \in {"read", "write", "restart", "put"})
  /\ left' = left \cup (IF req[r].at \in {"read", "write"} THEN Leaves(r, fstab) ELSE {})
  /\ UNCHANGED <<fs, mounts, fstab, dataRoot, engine, target, overlapped>>

\* Docker is stopped, and started by hand or by systemd.
DockerStops ==
  /\ engine # Down
  /\ engine' = Down
  /\ UNCHANGED <<fs, mounts, fstab, dataRoot, target, req, overlapped, failed, left>>

DockerStarts ==
  /\ engine = Down
  /\ engine' = Resolve(dataRoot)
  /\ UNCHANGED <<fs, mounts, fstab, dataRoot, target, req, overlapped, failed, left>>

\* A box boots when every line of fstab names a filesystem: a line without
\* nofail that does not stops the boot.
Named(l) == fs[l.drive] = [uuid |-> l.uuid, made |-> TRUE]
Boots(lines) ==
  /\ \A l \in lines : Named(l)
  /\ \E s \in SetToSeqs({[drive |-> l.drive, at |-> l.at] : l \in lines}) :
        mounts' = <<SystemMount>> \o s

Reboot ==
  /\ Boots(fstab)
  /\ engine' = IF \E l \in fstab : l.at = dataRoot
               THEN [drive |-> (CHOOSE l \in fstab : l.at = dataRoot).drive, at |-> dataRoot]
               ELSE SystemMount
  /\ req' = [r \in Reqs |-> NoReq]
  /\ UNCHANGED <<fs, fstab, dataRoot, target, overlapped, failed, left>>

DrivesNext ==
  \/ \E r \in Reqs :
       \/ \E d \in Disks, p \in Points : Format(r, d, p) \/ Mount(r, d, p)
       \/ \E d \in Disks : Unmount(r, d) \/ SetDataTarget(r, d)
       \/ Mkfs(r) \/ MountDrive(r) \/ Umount(r) \/ ReadFstab(r) \/ WriteFstab(r)
       \/ SetDockerDataRoot(r) \/ RestartDocker(r) \/ PutDataTarget(r) \/ ToolFails(r)
  \/ DockerStops \/ DockerStarts \/ Reboot

DrivesSpec == DrivesInit /\ [][DrivesNext]_drivesVars

\* As long as requests come one after another, whatever fails and wherever it is
\* cut off, the box boots and, between requests, a boot mounts only what is
\* mounted, but for the lines that an unmount left: what mkfs after an Unmount
\* and rewriteFstab by mountpoint come to together.
BootsAsMounted ==
  ~overlapped =>
    \A l \in fstab \ left :
      /\ Named(l)
      /\ (\A r \in Reqs : req[r] = NoReq) => [drive |-> l.drive, at |-> l.at] \in ToSet(mounts)

(***************************************************************************)
(* What the comments say and the code does not do; see the README.          *)
(***************************************************************************)
\* drive.go:176: SetDataTarget's "so server data lands there": Docker, when it
\* runs, has its data on the disk that is the data target, as long as requests
\* come one after another and succeed.
DataOnTarget ==
  ~overlapped /\ ~failed /\ target # NoDisk /\ engine # Down /\ (\A r \in Reqs : req[r] = NoReq)
    => engine.drive = target
=============================================================================
