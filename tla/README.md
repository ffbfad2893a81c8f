# A TLA+ model of Raptor

Raptor is a control panel for game servers. A TypeScript **panel**
(`src/apps/panel/src/server`) keeps organizations, nodes, servers and schedules
in Postgres. A Go **daemon**, `wings` (`src/apps/wings/internal`), runs on each
node and keeps the servers themselves: Docker containers and volumes, plus a
small bolt database. The daemon dials the panel and keeps one WebSocket open;
every request of the panel to a box travels over that socket as a `req` frame
and is dispatched to the daemon's own HTTP handlers.

This directory holds TLA+ modules that model the parts of that system in which
order, failure and concurrency matter, the TLC runs that check them on small
instances, and TLAPS proofs of what matters most for every instance.
`PROJECT.json` maps every definition to the lines it models.

| Question | Module | Run | Proof |
|---|---|---|---|
| Does a call on a box have one outcome, whatever happens to the link? | `Link` (`Wire`, `LinkHub`, `LinkClient`) implements `CallService` | `link_safety`, `link_scheduler_live` | `LinkProofs` |
| Do schedules keep firing what the store says? | `Scheduler` | `link_scheduler_live` | `SchedulerProofs` |
| What may exist of a server while it is installed, used and removed? | `Servers` | `servers` | `ServersProofs` |
| What becomes of archives, locks and volumes under concurrent backups? | `Backups` | `backups` | `BackupsProofs` |
| Is a node enrolled once, its record right, its plan what is charged? | `Nodes` (`NodeRequests`, `NodeDns`, `NodeBilling`) | `nodes` | `NodesProofs` |
| Do a box's open ports follow the panel's allocations? | `Ports` | `services` | `PortsProofs` |
| Is a file ever lost or doubled, between volume and recycle bin? | `Files` | `services` | `BoxProofs` |
| Has a server one SFTP credential? | `SftpSessions` implements `CredentialSlot` | `services` | `BoxProofs` |
| Does every row show an image that exists? | `Images` | `services` | `EditsProofs` |
| What do concurrent edits leave in a Redis key, and what do browsers show? | `RedisKeys` | `services` | `EditsProofs` |
| Does a box boot after any change of its disks, with the data where it was put? | `Drives` | `services` | `BoxProofs` |
| Does a game server read what a deploy merged into its files? | `ConfigFiles` | `services` | `BoxProofs` |

## 1. Inventory

`panel/` stands for `src/apps/panel/src/server/`, `wings/` for
`src/apps/wings/internal/`.

### 1.1 Components, their state and their operations

| Component | State | Operations | Speaks to |
|---|---|---|---|
| Link hub (`panel/nodes/link-hub.ts`) | `conns`: per node, one Connection with its pending requests and open streams | register, unregister, handleMessage, request (with a timer), stream, cancel, closeAll | hooks of the socket; every caller of `linkHub.request` |
| Link hooks (`panel/nodes/link-handler.ts`) | the peer's context (node, instance) | open (awaits the key look-up), message, close | the hub, the node table |
| Console relay (`panel/nodes/console-relay.ts`) | per browser: its cancel function | open (awaits session and server), message, close | the hub's streams |
| Dial-home client (`wings/link`) | session, `inflight` cancels, two semaphores, the `out` channel | Run, serveOnce, readLoop, writeLoop, handleRequest, handleStream | the daemon's HTTP mux, the console streamer |
| Wire envelope (`src/packages/contract/envelope.ts`, `wings/rpc`) | none | marshal, unmarshal | both ends |
| Scheduler (`wings/scheduler`) | the current cron runner; runs under way | Start, Stop, Upsert, Remove, RunNow, reload, fire | the store, server manager, backups |
| Daemon store (`wings/store`) | bolt buckets: schedules, backups | single transactions | scheduler, backups |
| Schedules, panel side (`panel/schedules`) | none (the daemon's store is the truth) | list, create, edit, remove, run now | daemon client |
| Server manager (`wings/server`) | `installs`: the tracker of background installs | Create, Start, Stop, Restart, Delete, Get, List, SendCommand | Docker |
| Docker wrapper (`wings/docker`) | containers, volumes, networks in the engine | create, start, stop, remove, inspect by label, RunOnce | the engine |
| Servers, panel side (`panel/servers`) | registry rows | createServer, syncServer, power actions, edits, removeServer | daemon client, allocations |
| Daemon client (`panel/nodes/daemon-client.ts`) | none | one function per daemon operation | the hub |
| Backups (`wings/backup`) | archives, their metadata | create, lock, delete, restore | Docker, store |
| Firewall (`wings/firewall`) | the rules of ufw or iptables, if the box has either | Open, Close, List, Status | the tools |
| Allocations (`panel/allocations`) | rows of reserved ports | create, remove, reserve and release with a server | the firewall, over the link |
| SFTP (`wings/sftp`, `panel/sftp`) | two maps of minted credentials | Mint, Authenticate, Active, Revoke, sweep | SSH connections |
| Files (`wings/filesystem`) | the volume, its recycle bin | write, rename, trash, restore, delete, empty, purge | file system |
| URL downloads (`wings/filesystem/downloads.go`) | registry of jobs | Start, run, Get, Cancel (no caller), Sweep | HTTP, files |
| Nodes (`panel/nodes`) | node rows with bootstrap token, key and synced address; Cloudflare's A records | create, update, remove, activate, heartbeat, reconcile | boxes, Cloudflare, billing |
| Billing (`panel/billing`) | the cached entitlement; Polar's subscription | gate, free window, seat sync, checkout, cancel, resume, webhook | Polar |
| Images (`panel/storage`, `panel/eggs`, `panel/user`, `panel/organization`) | objects of a bucket, the URLs that rows show | upload, replace, remove, save, fork, delete | object storage |
| Redis browser (`wings/redisbrowser`, `panel/redis-browser`, its component) | a browser's list and open key; the keys are Redis's | scan, save, delete, rename, expire, flush | the instance |
| Drives (`wings/drive`) | the recorded data target; mounts, fstab and daemon.json are the host's | format, mount, unmount, set the data target, reboot | host tools, Docker |
| Config files (`wings/server/config.go`) | none | merge, at a deploy | files |
| Identity, the rest of eggs and of the UI, SQL and Mongo browsers, TUI, host system | rows; nothing of their own | CRUD, queries, commands | - |

### 1.2 How they interact

A user's action is a panel server function. It reads and writes rows, and for
anything on a box it calls the daemon client, which is `linkHub.request`: a
`req` frame on the node's socket, a promise and a timer. The daemon's read loop
starts a goroutine for it, which waits for a slot, runs the handler and queues
one terminal frame (`res` or `err`). A browser's console is a stream: chunks,
then a terminal frame, with a `cancel` frame when the browser goes. Nothing is
retried: a call that fails may or may not have run.

Boxes also call the panel by themselves: once to enroll, and again and again with
a heartbeat. Two foreign services keep a state of their own, Cloudflare the DNS
records and Polar the subscriptions; calls to them fail, or take effect unheard,
and Polar's webhooks come when they come.

Concurrency therefore comes from five places: the panel's event loop between two
awaits; the daemon's goroutines, one per request, one per install, one per run
of a schedule; the Docker engine, which may finish a call whose caller has gone;
the foreign services; and the failures of sockets and of processes.

### 1.3 What makes each of them correct

* **Link.** A caller gets one outcome; "ok" only for a call that ran; nothing
  runs twice; a call is not left open on a link the hub dropped; no slot is lost or
  given back twice; an old socket cannot harm its successor.
* **Scheduler.** No runner leaks, no moment without a runner, and the runner
  fires what the store holds; Stop and the reloads do not block each other.
* **Servers.** At most one container carries the label by which a server is
  looked up; a server boots on a finished install only; a failed or an aborted
  install leaves nothing behind; an install ends; a removed row stays removed.
* **Backups.** A locked archive is not deleted; a restore leaves what was archived;
  a create that is shown as under way is under way, and ends.
* **Nodes.** A bootstrap token makes one key; the record is what the row says was
  synced, and in the end the address of the box; Polar charges for the nodes
  there are; the cached plan is Polar's.
* **Ports.** A port is open exactly while a row holds it; the operator's rules and
  the protected ports are not taken away.
* **Files.** A content nobody replaced or removed is in one place, in the volume or
  in the bin; a job tells what became of its download.
* **SFTP.** A server has one credential, the last one minted.
* **Images.** What a row shows exists.
* **Redis keys.** A value is what one save asked for, never two saves mixed; a list
  shows the keys of the database that is selected.
* **Drives.** The box boots, with what was mounted; Docker's data is on the disk that
  is recorded and protected as its target.
* **Config files.** Every asked value is the one that is read, nothing else changes, and
  a second deploy changes nothing.

The hazards, each at its line and with the properties that would catch it, are
listed in `PROJECT.json`.

## 2. The modules

### 2.1 The daemon link

`Wire` is the sockets: per dial, two in-order streams of frames, each end open,
closing or closed. Frames in flight when a socket dies are lost. `LinkHub` is the
panel's half and `LinkClient` the daemon's; they share only the wire. `Link`
conjoins them, states the properties and instantiates `CallService`, the
abstract promise of a call.

| Module | State | In the code |
|---|---|---|
| `Wire` | `panelEnd`, `daemonEnd`, `toDaemon`, `toPanel` | the WebSocket seen from both sides |
| `LinkHub` | `auth` | how far link-handler's async `open` of a peer has come |
| | `entry` | `conns.get(nodeId)`; the instance id is the socket |
| | `call`, `via` | `pending` and `streams` of a Connection, and what the caller was told |
| | `relay` | a browser peer of the console relay |
| `LinkClient` | `session`, `dials`, `backoff` | Run's loop and the delay of a redial |
| | `op`, `home`, `reply` | the goroutine of a request, the session it belongs to, its terminal frame |
| | `cancelled` | the requests whose `reqCtx` is done |
| | `pumping`, `chunks` | the two pumps of a console stream |
| | `out` | the session's `out` channel |
| | `sem`, `streamSem` | the tokens in the session's two semaphores |
| `CallService` | `outcome`, `ran` | no code: what callers rely on |

An action is what runs between two awaits (panel) or between two points at which
a goroutine can block (daemon). `Register`, `Refuse`: `open` resumes after the key
look-up. `Message`, `Closed`: the hooks, with `handleMessage`, `unregister` and
`closeAll` in them. `Request`, `Timeout`, `BrowserOpens/Denied/Attaches/Leaves`:
the callers. `ReadFrame`, `Acquire`, `Drop`, `DispatchReturns`, `StreamReturns`,
`Panics`, `Answer`, `EmitChunk`, `PumpsStop`, `WriteFrame`: the daemon's
goroutines. `SessionEnds` is any end of serveOnce, and `Restart` is a death of the
daemon's process.

The model has one node (nodes share the instance counter and nothing else), a
payload is nothing but the call it is for, and Dispatch is one step, which need not come.

**Properties.** `NoOrphanCalls`: an open call is open on the Connection the hub
holds, so that someone will still settle it. `OneTerminal`: at most one terminal
frame of a call is on its way, and from a goroutine that has finished.
`SlotsAccounted`: the tokens in the two semaphores of a session are
those of the goroutines between their send and their receive, so that a budget is kept
and never shrinks. The semaphores are state of their own, taken and given back by
`Takes` and `Releases` as the channels are, so that a release that a panic skips, or one too
many, would show. `ClosesOnlySuperseded`: an open socket is closed by the hub only if its
key is refused or a successor has registered; this is what the instance check of
`unregister` is for. `KeepsPromiseSafely`: every step of the link is a step of
`CallService` or none, under `outcome <- call` and `ran <- Ran`. `LinkInv` is why:
a request frame on the wire is the only one for its call, nothing has run for it,
and a terminal frame is from a run that ended; it is proved, and no run checks it. Liveness: `KeepsPromise`
(`CallService` with its fairness: every control request is settled),
`CancelReleasesSlot` (a cancelled stream gives its slot back even behind a full
queue) and `GoroutinesEnd` (a goroutine whose session is over, or whose
handler has returned or panicked, ends; one whose handler goes on is not claimed to).

**Fairness** (`Link!Fairness`). Go and the JavaScript runtime run every ready
goroutine and callback, so each end reads and writes what it can; a request has a
timer; a peer that is gone is noticed (close frame, reset, keep-alive); a handler whose
context is done returns (`CancelledReturns`): the control handlers work on `r.Context()`, and
what some do outside of it (a reload that waits for runs, a removal on the Background
context) ends by itself; StreamConsole selects on its context. A handler that nobody
cancelled owes nothing: an image pull (`docker.go:142-155`), a restore or the delete of a
backup (`backup.go:265`, `:287`) has no deadline, and holds its slot as long. The network, a
dial, a browser and a console that just goes on owe nothing either.

### 2.2 The scheduler

`Scheduler` has the bolt bucket (`stored`), the runners of the cron library
(`jobs`, `running`, `current`), the requests that edit schedules (`pc`, `arg`,
`mine`, `old`) and the runs under way (`runs`). A request of the panel is two
requests on the box: the look-up (`Check`) and the change (`Edit`, `Remove`,
`RunNow`), with anything in between. A change is persisted, then `reload` runs in
four steps: `List` the store into a new runner, `StartRunner`, `Swap` under `s.mu`,
`StopOld`. A run takes as long as it likes and ends with the write of the
schedule it was given (`FireEnds`). `Stop` holds `s.mu` while it waits; `DaemonDies` ends
everything but the store.

A schedule is an id, a version (its cron text and steps) and its switch. The
clock is not modelled: an enabled schedule of a running runner may fire at any
time.

**Properties.** `RunnersAccounted`: a runner that fires is the current one or a
reload under way answers for it. `NeverUncovered`: until Stop the current runner
runs, because the new one is started before the old one is stopped.
`RebuiltFromStore`: a change that nothing overlapped leaves a runner that fires
exactly the enabled schedules of the store, whatever failed before.
`ReloadsReturn` and `StopEnds`: a reload waits for Stop to give the mutex back, Stop
for the runs of its runner, and a run for neither, so no one waits in a circle.

**Fairness.** A reload that started goes on; a run ends (`scriptTimeout` bounds its
context); Stop returns when it may. Users and cron owe nothing.

### 2.3 The life of a server

`Servers` follows one server id. `row` is the panel's registry row; `step`, `live`,
`record` and `reply` are the daemon's Create (its position, whether its context
still lives, the install tracker, its answer); `container`, `volume` and `exit` are
the engine; `request` is what users have asked (a poll, a power action, a removal).
Every call to the engine is one step and may fail. When the context of a caller
ends during a call, the call may still take effect later: these are the `late`
calls. `lost` names the containers the daemon could not remove or never learned of;
it marks what no property can blame the daemon for.

Create runs in the foreground of its request, except that an egg with an install
script answers "installing" and goes on in the background, under its own
context. That context is ended by a Delete (`cancelInstall`) or by a deadline. The
actions are the calls in their order: `CreateInspects`, `CreateVolume`, `PullImage`,
then RunOnce (`CreateJob`, `StartJob`, `RegisterWait`, `JobWaits`, `RemoveJob`), then
`CreateBox`, `StartBox` and, in the foreground, `CreateSnapshot`. `CallFails` and
`ContextEnds` are the error paths. A Delete is `DeleteCancels`, `DeleteFinds` and
`DeleteCall` twice; a power action is `FindForPower`, `PowerCall` (twice for a
restart) and `PowerSnapshot`. The panel may give up on any of them (`GivesUp`,
`CreateTimesOut`), the link may drop (`RequestCutOff`), and the daemon may die
(`Crash`), with the tracker lost and the containers kept.

**Properties.** `OneContainer`: `InspectByServerID` takes the first container with
the server's label, and there is only one, unless a removal failed. `JobHidden`: a poll during the install
reports the install, not the container of its script. `BootsOnInstalled`: no
interleaving of stops, restarts and deletes boots a server whose script did not
succeed. `FailedLeavesNothing`, `DroppedStays`: a failed install leaves no container,
and an aborted one no record, whenever it ends. `RowStaysRemoved`: late answers do
not bring a row back. `InstallEnds`: an install does not hang. `ServersInv` is the
order that Create keeps, from which these follow; it is proved, and no run checks it.

**Fairness.** The deadlines of a background install pass (`installHardTimeout`,
`provisionTimeout`); a call whose context has ended returns an error; the removals
on `context.Background()` rely on the engine to answer. Scripts, users and the
network owe nothing.

### 2.4 Backups

`Backups` follows the archives of one server. `archives` and `content` are the borg
repository, `meta` the store's bucket, `creating` the manager's tracker, `volume`
and `up` the server; `work` is what each request or background create is doing,
with what borg has read so far. An archive is named by the second of its creation,
so two creates of one second have one name, and `clock` is that second. `promise` is a
history variable: a lock was set, and whether anything was about to change the
archive at that moment.

A create is `Create` or `RunBackup`, then `BorgReads`, `BorgCreates`, `PutBackupMeta`,
`CreateEnds`; a Delete is the tracker (`DeleteReadsTracker`, `DeleteForgets`), the lock
(`DeleteReadsLock`), borg (`BorgDeletes`) and the metadata (`DeleteBackupMeta`);
`SetLock` is one transaction. A restore is the panel's stop, which may fail and is
not looked at (`StopForRestore`), then one container that wipes (`RestoreWipes`) and
extracts (`BorgExtracts`). The wipe may remove all, some or nothing: its failure is sent to
/dev/null and the extraction follows (`wiped` is a history of which it was). Borg may refuse, be stopped with its context, or be done
without the daemon learning of it. When the daemon dies (`CrashBackups`), the
containers go on unwatched. The volume's contents are sets of versions: one is whole,
two or `torn` are a mixture, which is what borg archives of a volume that a running
server changes under it.

**Properties.** `LockHolds`: a lock that nothing raced keeps its archive, whatever is
created under the same name, deleted, restored or cut off meanwhile; `LockInv` is
why (no Delete is past its check, and no create is about to write fresh metadata
over the lock). `RestoredExactly`: a restore that reported success and was alone with
a stopped server has left all of the archive in the volume, and nothing else if its wipe
removed everything; `RestoreInv` is why. That it may report success and leave something else
is in section 4.
`CreatingIsTrue`: an entry "creating" has a goroutine behind it, also when a second
create takes the name, a Delete drops a failed one or the daemon dies.
`CreatingEnds`: it does not stay for ever.

**Fairness.** The store answers, and nobody waits for ever for borg: `createTimeout`
ends the wait of a create. Users, servers and borg itself owe nothing.

### 2.5 Nodes

`NodeRequests` holds what the panel's handlers share: the node rows with their
credentials (`row`), the keys that boxes have received (`held`), and `job`, one record
per handler under way with the await it stands at. `NodeDns` and `NodeBilling` are the
helpers that several handlers call; `Nodes` is the handlers and the properties.

| Module | State | In the code |
|---|---|---|
| `NodeRequests` | `row` | `node` and `node_credential`: address, token, key hash, `dnsSyncedIp` |
| | `job` | the locals of a server function or an endpoint between two awaits |
| | `held` | what `activateNode` returned and a box has stored |
| `NodeDns` | `dns` | the A records in Cloudflare's zone |
| `NodeBilling` | `configured`, `entitlement` | the environment; the `org_entitlement` row |
| | `polar`, `cart`, `events` | Polar's subscription, an open checkout page, webhooks under way |
| `Nodes` | `address` | the address the panel sees a box call from |

`troubled`, `shaken`, `alone` and `exact` are histories. They mark what the code does not
guard against and no text promises: a hostname two handlers worked on at once or
whose call took effect unheard; a cache written out of order; a push of seats that
another request of the organization met.

`CreateNode`, `CountNodes`, `CheckEntitlement`, `CheckUnique`, `Insert`, then the sync and
`Answer` are createNode; `RemoveNode`, the teardown of the record and the sync are
removeNode; `Activate`, `Burn` (the compare-and-set), the record and `Answer` are
activateNode; `Beat` is a heartbeat whose address is not the synced one. A reconcile is
`List`, `Write`, `Mark`, each of which may fail, and `WriteUnheard`: Cloudflare applied it
and the panel's ten seconds were over. The sync is `ReadTrial`, `GrantTrial`,
`ReadSubscription`, `CountSeats`, `PushSeats`. `Webhook` delivers any event under way, also
again.

**Properties.** `HeldKeysWork`: whatever activations race, a key that a box received is
the one its node is known by. `RecordAgrees`: on a hostname without trouble and with no
reconcile under way, the A records are exactly what the row says was synced, so that
the heartbeat's comparison is right to skip. `DnsHeals`: a managed node that keeps
calling from one address resolves to it in the end, after any number of failures.
`SeatsExact`: after a creation or a removal that ran alone and pushed, Polar charges
for the nodes there are, less the free one, until something changes. `CacheConverges`:
once events are in, and came in order, the cached status and cancellation are
Polar's, though the panel writes the flag itself.

**Fairness.** A handler goes on until it answers (WF). A box beats every 30 seconds, so
beats find the panel free again and again, and calls to Cloudflare, retried for ever,
do not fail for ever (SF of `Beat`, `List`, `Write`). Users, boxes that move and Polar owe
nothing.

### 2.6 Ports

`Ports` has one node's allocation rows (`slot`), the servers they belong to, the
panel's handlers (`ask`) with their calls to the box (`call`), the calls the panel has
given up and the box has not (`late`), and the box's rules in order (`rules`, `backend`).
`crossed` and `renumbered` are histories. The operator has rules of
his own: one about no port of the panel's, and some for ports the panel may allocate
(`ByHand`); `ufw allow` of such a port writes the daemon's comment on his rule (`Allows`),
iptables appends a second one. A close under ufw is two commands, the listing
that finds the number and the delete by number (`FindsNumber`, `DeletesNumber`), and
those of other calls come between them; iptables checks and appends (`Opens`), and
deletes by the whole spec (`DeletesSpec`). `CreateAllocation`, `RemoveAllocation`, `DeployServer`
and `RemoveServer` are the panel's requests: a row is inserted before the port is
opened, and goes after it is closed, whatever came of the call.

**Properties.** `OthersKept`: the rules that were there at boot stay, whatever was
reserved and released, the operator's own rule for a port of the panel's among them,
unless a ufw number had moved by the time it was used, and but for his rule for a port that
ufw has been asked to open. `OperatorsStayOpen` is what the comments
say of the operator's rules, and a violation of section 4. `Lockstep`: a port on which no two requests met and no call failed or was late
is open exactly while a row holds it.

### 2.7 Files

`Files` is one volume with its recycle bin: `file`, `bin` (payload, sidecar, age), the
requests and download goroutines (`task`), the registry of jobs (`job`) and what is old
enough to be purged or swept (`aged`, `ripe`). `fate` is a history: what has become of each
content. An atomic write is a temporary file (no state) and a rename over the path
(`Commit`); a trash is the entry's directory, the move and the sidecar (`Trash`,
`TrashMoves`, `TrashRecords`, `RecordFails`); a restore picks a free name, moves without
replacing and clears the entry (`Restore`, `RestoreMoves`, `RestoreClears`); a purge reads
an entry and removes it later (`Purge`, `PurgeRemoves`). `DaemonRestarts` ends requests and
jobs anywhere between two of them.

**Properties.** `FilesKept`: a content that nobody replaced, removed or tore is in
exactly one place, and only such a content is; "done" is a file that was written,
"error" one that was not. What a Trash without a
sidecar removes is marked torn (section 4).

### 2.8 SFTP credentials

`SftpSessions` is the store's two maps (`byUser`, `byServer`), each operation a step under
its mutex, with `overdue` for what the clock has passed. `CredentialSlot` is the promise:
a server has one credential, the last one minted for it, until it expires, is revoked or
the daemon restarts; a login is answered with the server whose credential it is, a
status with the credential that a login would be taken by. `OneCredential` is the
refinement: the slot of a server is the user in `byUser` that would log in to it. That is
what goes wrong if a replaced session stays in one of the maps.

### 2.9 Images

`Images` has the bucket (`object`), the URL that each account or egg shows (`shown`), the
icons uploaded in an editor and not saved yet (`draft`), and the handlers. A caller
brings the previous image from its session or an earlier read (`Known`), which may be
out of date. `ReplaceImage`, `PutImage`, `Persist`, `DropPrevious` are the upload of an
avatar or a logo, with `PersistFails`, `PersistUnheard` and `UndoPut`; `UpdateEgg`,
`ApplyEdit`; `DeleteEgg`, `RemoveEgg`; `ForkEgg`, `CopyIcon`, `InsertFork` are the eggs. Deletes
are best-effort, and any handler may end early.

**Property.** `ShownImageExists`: what a row shows is in the bucket, unless a persist was
reported as failed or an outdated editor was saved (both in section 4).

### 2.10 Redis keys

`RedisKeys` has the keys of an instance (`value`), what each browser shows (`tab`: the
selected database, the open key, the list and its loads under way) and the mutation it
awaits (`op`). `saved` and `disturbed` are histories: what each submission of the editor
asked for, and which of them another request ran across. A save is three commands,
`SetDel`, `SetWrite` and `SetExpire`, each by itself on the instance; `DeleteKey`, `RenameKey`,
`SetTTL` and `FlushDB` are one. Any of them may fail (`Fails`), and be answered long after
(`Answer`) to a component that has moved on: the list reloads for the database of the
render that sent the request. `Load` and `Loaded` are the debounced scan.

**Properties.** `SavedAsAsked`: a value is that of exactly one save, and with its expiry
once the save was answered, unless another request ran between its commands; so a save
over another, of the same type or of a different one, leaves nothing of the old value.
`ListIsOfDb` is a violation of section 4.

### 2.11 Drives

`Drives` is the disks of a box (`fs`: which filesystem, and whether it is whole), the
kernel's mount table (`mounts`, the latest last), `fstab`, `dataRoot` in daemon.json, the
mount that Docker has its data in (`engine`), the recorded `target`, and the requests
(`req`), which take no lock. `Begin` is `guard`, with its fresh listing; then each tool is a
step: `Mkfs`, `MountDrive`, `Umount`, `ReadFstab` and `WriteFstab`, `SetDockerDataRoot`,
`RestartDocker`, `PutDataTarget`. Each of them may fail and change nothing, which is also what
a cancelled request or the daemon's death before it comes to (`ToolFails`); and each may be
cut off after the fact. A tool is killed at its deadline or with its request, though the
kernel has mounted or unmounted, mkfs has written all or a part, or systemd restarts
Docker; fstab is written in place, so a death leaves any part of the new lines. `Reboot` may
come at any time and mounts what fstab says, in any order; a line whose filesystem is gone
stops it, since the lines have no `nofail`. Three histories say what has happened:
`overlapped` (requests side by side), `failed` (one ended half-way) and `left` (lines of a mount
that an unmount undid, but did not remove from fstab).

**Properties.** `BootsAsMounted`: as long as requests come one after another, whatever
fails and wherever it is cut off, every line of fstab that is not in `left` names a filesystem
that exists, also in the middle of a request, and between requests only mounts that
are there. It rests on two facts far apart: mkfs refuses a mounted disk, and rewriteFstab
drops lines by the mountpoint, since the lines it writes do not begin with the device. What
a line in `left` does to a disk that is formatted later is in section 4; `DataOnTarget` is a
violation there.

### 2.12 Configuration files

`ConfigFiles` translates the merges as operators over files: lines (`MergeProperties`,
`MergeINI`), leaves of a tree (`MergeTree`, which is YAML's merge, and `MergeJSON`) and words
(`MergeFile`). The initial states are all files and all values within the bounds; `ApplyConfigFile`
is a deploy. A tree is decoded and encoded again as a whole: `Reread` is what becomes of a
value on the way, since a number passes through a float64 (`Decoded`), and `Plain` what
`coerce` makes of an asked text. JSON cannot write a number that is not finite, so a merge
with such a value stops the deploy and leaves the file (`Unwritable`); YAML can. A YAML map
with a key that is no string is none to `setDotted`, which replaces it with an empty one
(`Mixed`, `Swept`); `Odd` are such keys.

`ReadProperties`, `FirstINI` and `LastINI`, `ReadTree` are the reference: what a program reads from a
file. Readers of properties take the last line of a key; of INI files some take the first line
that repeats a key and some the last, and the property speaks of both.

**Properties.** `ReadsAsAsked`: after a merge a program reads the asked values, and of the
other keys what it read before, whatever duplicates, repeated sections and
values on the way of a path the file has. It says where that ends: of lines that repeat an
asked key in a section only the first is rewritten, so that a reader of the last one still
reads the old value; the longer of two asked paths wins; what lies on the way of an asked
path is lost, a map with odd keys with it; the other values of a tree are as the decoder
reads them, so that a number above 2^53 may change; and a text whose new values
contain keys is not spoken of. `MergedOnce`: a second merge changes nothing.

`Ports`, `Files`, `SftpSessions`, `Images`, `RedisKeys`, `Drives` and `ConfigFiles` state no
fairness: what they promise is safety.

## 3. The runs

| Run | Instance | What it shows |
|---|---|---|
| `link_safety` | 2 dials; behaviours with {a request, a stream} or {two requests}; one slot of each kind, `out` of 2, backoff 1..2, one chunk; about 580,000 states | `NoOrphanCalls`, `OneTerminal`, `SlotsAccounted`, `ClosesOnlySuperseded`, the refinement's safety part |
| `link_scheduler_live` | the link with 1 dial; {request, stream} or {two streams}; `out` of 1; no chunks; or the schedules: one id and one version, two requests and the boot, three runners, one run, unreadable store included; about 100,000 states | `KeepsPromise`, `CancelReleasesSlot`, `GoroutinesEnd`; `RunnersAccounted`, `NeverUncovered`, `RebuiltFromStore`, `ReloadsReturn`, `StopEnds` |
| `servers` | two users, one late call; about 590,000 states | all properties of 2.3; no deadlock |
| `backups` | two workers, two seconds, two versions; about 1,100,000 states | all properties of 2.4; no deadlock |
| `nodes` | one organization, two nodes, two handlers, two addresses, one A record, two events under way; about 157,000 states | all properties of 2.5 |
| `services` | one of 2.6 to 2.12 at a time: two slots, two ports of which the daemon protects one and the operator has opened the other, one server, two requests; two paths, two contents of which one is downloaded, one entry, two workers; two servers, three usernames; two handlers over one account, or two eggs, and two objects; two browsers, two saves and two keys of one database, or one browser over two databases; two disks, or one, two mountpoints, two mounts, one format of each disk, one request at a time; files of three lines, two names and one odd key, two values and one that is not finite, paths of two parts, two asked values; about 1,280,000 states | all properties of 2.6 to 2.12 |
| the six runs with `expect: violation` below | as above; `scheduler_matches_store`, `ports_operators_rule`, `redis_stale_list` and `drives_over_target` run their module by itself | the disagreements of section 4 |

The types of every module but `Backups` are proved for any instance (`TypeCorrect`,
`SchedulerTypeCorrect`, `ServersTypeCorrect`, `NodesTypeCorrect`, `PortsTypeCorrect`,
`FilesTypeCorrect`, `SftpTypeCorrect`, `ImagesTypeCorrect`, `RedisTypeCorrect`,
`DrivesTypeCorrect`; `ConfigInv` is that of `ConfigFiles`), and no run checks them again.
That of `Backups` is both proved and checked.

**Why the bounds are enough to be interesting.** Two dials are a socket and its
successor: every race in the hub is between those two. One slot and two calls of
a kind make the slot contended; an `out` channel of one or two makes it full. Two
different calls are enough for "the wrong call is settled", since calls touch each
other through slots, `out` and the order of frames only. Two concurrent reloads
are a pair that can swap in either order, next to the boot's; three runners are
the one in use and one being built by each of them. In `servers`, `MCServers!Plans` splits the
behaviours into those in which one user may ask anything, again and again, and an
engine call may come late, and those in which two users race (delete with delete,
delete with start). In `backups`, `MCBackups!Plans` splits them into those in which
archives of one second are created, locked and deleted, so that names collide, and
those in which two workers back up and restore a server that starts and writes.
Every action of every module fires in these runs.

In `nodes`, `MCNodes!InPlan` splits the behaviours in three: the hostname of managed
nodes, with billing off, where the box of the first node moves and a second node may
take the name over; the seats of an organization that creates, pays and removes; and
its plan, cancelled and resumed while Polar changes it. `MCServices` runs
`Ports`, `Files`, `SftpSessions`, `Images`, `RedisKeys`, `Drives` and `ConfigFiles` in one run, one at a
time: they share no state, and its `focus` says whose turn it is. Both modules cut a behaviour off where its
properties have nothing left to say (a hostname in trouble, a shaken cache, a ufw
number out of date, a torn content, a spoiled row), so that what TLC explores is
what they do speak of; the proofs are of the whole modules. Two handlers are a pair
that can race; two nodes are one with the name and its successor; one entry of the
bin is trashed, restored, purged and emptied by both workers.

For `RedisKeys`, the focus "keys" is a pair of saves of one database with everything the
first browser may do in their middle, and "tabs" the list of a browser that changes
databases while another saves. For `Drives`, two mounts are two disks on one mountpoint or
a disk on two, and a reboot may come between any two steps; requests that overlap are
left out, since `BootsAsMounted` has nothing to say of them. The focus "disk" is one disk with
every request after any failure; "drives" is two, where after a failure only formats and
unmounts follow, and with no data target, since those are what a stale line can hurt. In
`Ports`, the operator's rule and the daemon's stand in either order. Three lines of a file hold a
duplicate, or two sections of one name with an entry.

A bound that is part of a guard is `MaxDials`, `MaxChunks`, `FireSlots`, `Runners`,
`MaxLate`, `Workers`, `LastSecond`, `MaxEvents`, `MaxFormats` and `MaxMounts`; each is declared as a constant with a comment saying so. `MaxLines`, `MaxDepth` and `MaxAsked`
bound the files and values that `ConfigFiles` starts from. `MCLink!Scopes`,
`MCServers!Plans` and `MCBackups!Plans` choose what a behaviour may use. `MCLinkScheduler` takes the
link and the scheduler one at a time, as they share no state: with an empty scope the link rests,
and a behaviour of the link begins with a daemon that could not read its schedules
(`ListFails`). `nodes`, `services` and the violations of their modules do not check deadlock: ids and saves are used up once, a box whose
fstab names what is gone does not boot, and there is no one waiting.
`link_scheduler_live` has one dial, to keep the check of its temporal formulas to minutes: a
session that ends is then followed by none, which is the worst case for the
goroutines it leaves. The proofs cover any number of dials, for safety.

## 4. Where the code and its documentation disagree

Each of these is a run that TLC ends with a counterexample.

| Run | The text | What happens |
|---|---|---|
| `link_registered_live` | link-hub.ts:248: `isConnected` says whether a node "currently has a live link" | `open` registers a peer that closed while the key was looked up; its close hook has run, so the dead socket stays registered, over a live one if the box has redialled |
| `scheduler_matches_store` | scheduler.go:89-90: rebuilt wholesale, "race-free" | two reloads list in one order and swap in the other: the runner fires a schedule that was disabled or removed, until the next change |
| `servers_deleted_stays` | server.go:399-402: gone is the desired end state | a Delete during a foreground Create that pulls its image finds no container and succeeds; the container appears afterwards, on a new volume, and the panel has no row for it. A create call under way when an install is cancelled does the same |
| `ports_operators_rule` | firewall.go:7-8: "the daemon never touches the operator's own rules" | `ufw allow` of a port the operator had opened puts the daemon's comment on his rule (`backends.go:28`), and Close deletes it: the port he had opened is closed |
| `redis_stale_list` | redis-browser.tsx:259: "Load the first page for a (db, pattern) — replaces the list" | an older load, or the reload of a request from before the database was changed, arrives last (261-275): the list shows keys of the other database for good, and a delete names such a key in the selected one |
| `drives_over_target` | drive.go:175-176: the data-root is moved "so server data lands there" | nothing refuses a second disk on the same mountpoint: Docker's path shows that one, and the recorded target, which is protected, is another |

Others were seen while modelling and have no run. Daemon:

* A console browser that leaves while the relay's `open` awaits gets a stream all the
  same that nobody can cancel (`link-hub.ts:267-269`, `console-relay.ts:117`).
* A schedule removed or edited while it runs is written back by its run
  (`scheduler.go:145`, `:251`).
* `Delete` of a server returns the engine's refusal, and keeps the volume, when the
  install it has just cancelled removes its container first (`server.go:399-411`).
* A backup's lock that is set while a Delete waits for borg is reported as set, and
  the archive goes (`backup.go:285-286`, `:303`).
* `Jobs.Cancel` has no caller; a download that panics stays "running" for ever
  (`downloads.go:168`, `:258`). A purge that finds an entry without its sidecar goes by
  the mtime of the payload, so an old file in the middle of a Trash may be purged
  (`filesystem.go:585-602`); nothing in the panel calls the purge.
* A restore ignores a wipe that fails and reports success with what was left beside the archive
  (`backup.go:270`), where the package's comment calls it "a true point-in-time restore" (14).
* Close reads a ufw number in one command and deletes by it in another (`backends.go:44-74`): of two
  closes at once the second may delete another port's rule, or none, and not "exactly that one" (39).
* rewriteFstab never drops a line that begins with a UUID by the device (`drive.go:412-414`): the line
  of an unmount that was cut off (168-171) stays, and when the disk is formatted and mounted elsewhere
  fstab names a filesystem that is gone, and the box does not boot, although persistFstab "adds (or
  replaces) the device's fstab entry by UUID" (379-380).
* A YAML map with a key that is no string is replaced by an empty one when an asked path goes through
  it (`config.go:238`), and its other keys are lost, although setDotted "walks/creates" maps (230).
* When the sidecar of an entry of the bin cannot be written, the entry is removed with
  the payload in it (`filesystem.go:575-578`), though Trash moves it there "instead of
  deleting it outright" (519-521): the file is neither at its path nor in the bin.
* `Format` refuses the data target (`drive.go:128-131`), but checks before mkfs runs, and the
  target is recorded after Docker was restarted (192-195): a disk that was unmounted
  and formatted in that minute is erased as the target.
* RENAME replaces the key that has the new name (`redisbrowser.go:416`); the dialog says
  that it "Fails if the target already exists" (`redis-browser.tsx:801`).
* A save in the Redis browser that fails after its DEL leaves no key, and two saves at once
  may leave a list with the items of both, or one with the other's expiry
  (`redisbrowser.go:351-358`).
* Two requests that rewrite fstab at once lose a line (`drive.go:404-424`); a format that
  overlaps a mount may leave a line with a UUID that is gone, which stops the next boot.
* A value like "07" is written to JSON and YAML as a number (`config.go:249-263`), "inf" or "nan"
  stops the deploy of a JSON file (259, 199-202), and a number above 2^53 that a JSON file
  contains changes, asked or not (191). Of two lines of an INI section with one key only the
  first is rewritten (157-161). The "file" parser replaces again what it has just put in, when it
  contains a later key (224-226).
* A handler without a deadline holds its slot until it returns, also after its caller's timeout:
  sixteen pulls that hang leave a box that answers nothing until the link drops (`client.go:235`).

Panel:

* The free window of an organization is stored as the status "trialing", which the gate
  accepts and nothing ever ends (`node-sync.ts:61`, `:95-97`): without a subscription it may
  create as many nodes as it likes.
* The removal of an organization cascades to its nodes by foreign keys
  (`admin/orgs/repository.ts:138`): their records at Cloudflare and the subscription stay.
* Two organizations with a managed node of one name share one hostname and record
  (`nodes/index.ts:225` looks within the organization); `updateNode` may set a managed
  node's address by hand (`:276`).
* A call that Cloudflare applied and the panel took for failed, or two overlapping
  reconciles, leave the row and the record apart until the address changes
  (`enrollment.ts:149`); a removal beside a heartbeat may leave a record without a node.
* A throw in `syncNodeBilling` (`nodes/index.ts:247`), or a lost answer, leaves a node
  whose token nobody has. An activation waits for Cloudflare (up to twice 10 s) with
  the token burned and the keys not yet handed over.
* The end of the free window pushes no seats. The upsert of the free window may write
  over the status of a webhook that came after its read (`node-sync.ts:54-64`), and an
  older webhook over a newer one (`reconcile.ts:55`).
* A server removed while its deploy still claims the port leaves the port open
  (`servers/index.ts:407`, `:493`).
* An egg's editor that was opened before another one saved shows a dropped icon again
  (`eggs/service.ts:298-303`); a persist that was applied and reported as failed takes
  the object from under its row (`managed-image.ts:80`), and concurrent replacements
  strand objects.

In the link and its neighbours: `envelope.go:19-20` says chunks
are followed by "exactly one terminal frame", while StreamConsole returns when one
of its pumps ends and the other may still queue a line after that frame (the hub
ignores it); `envelope.go:22-23` says a
cancel is answered with `err`/`canceled`, while `stream.go:64-67` sends a `res`
and a request cancelled in the queue gets no frame at all; a timeout in the panel
(`link-hub.ts:80-83`) sends no cancel; `MaxConcurrent` is per session, so an old
session's goroutines come on top of it; while two runners are running
(`scheduler.go:185-193`) a schedule due in that moment fires twice; a power action
during an install acts on the job's container, since `InspectByServerID` does not
look at the kind, and a Restart runs the script twice; the panel's five minutes
for a create (`daemon-client.ts:379`) do not stop the daemon's.

## 5. The proofs

TLAPS checks the following for every value of the constants allowed by the
modules' ASSUMEs (`ClientAssumption`, `SchedulerAssumption`, `LateAssumption`,
`SecondAssumption`, `VersionAssumption`, `NothingAssumption`, `NodesAssumption`,
`BillingAssumption`, `PortsAssumption`, `FilesAssumption`, `SftpAssumption`,
`ImagesAssumption`, `RedisAssumption`, `DrivesAssumption`, `ConfigAssumption`, the assumptions of
`Wire`): they say that bounds are natural numbers, that sets which are counted are
finite, that the distinguished values are distinct, and of configuration files that names
are ordered and that a value that was read and written back once does not change a second
time (`Reread` is idempotent, as the rounding to a float64 is).

* **`LinkProofs`.** `TypeCorrect` proves the type invariant with `ReplyReady` (a
  goroutine that is about to answer has its frame), which the type of `out`
  needs. `NoOrphan` needs that what the hub holds has been registered. For
  `LinkInvariant` the strengthening is `Issued /\ RequestsFresh /\ AnswersRan /\
  RelayAgrees`: with it, a frame read is the first for its call, which gives "at
  most once", and a `res` handled is of a call that ran, which gives "ok only of
  what ran". `Refines` uses both to map every step to a step of `CallService` or
  a stutter. `OnlySupersededClosed` is an action property and needs the type
  invariant only. `SlotsCorrect` counts, in every session, past ones included: the holders of a kind are a
  finite set, and each step that makes a goroutine one of them, or none any more, sends or
  receives one token of that very channel (`SlotsInv`).
  `OneTerminalCorrect` needs that the answer of a call is in the channel or on the
  wire, not in both, nor twice (`OneAnswer`).
* **`SchedulerProofs`.** `RunnersCorrect` proves `RunnersAccounted` and
  `NeverUncovered`. Neither is inductive alone: `ReloadInv` says that the runner of
  a reload is its own until it is swapped in, that what was replaced is not
  current, and that Stop stopped the runner it waits for. `RebuiltCorrect` rests on
  `AloneInv`: as long as nothing overlapped, the reload under way is the only one, and
  with none under way the runner is of what is stored.
* **`ServersProofs`.** `CreateKeepsOrder` proves `ServersInv`: a container that
  exists, or may yet be created by a late call, belongs to the step that made it
  or is lost; an install past its script saw it succeed; a record stands until a
  Delete drops it. `OneContainer`, `JobHidden`, `BootsOnInstalled`,
  `FailedLeavesNothing`, `DroppedStays` and `RowStaysRemoved` follow.
* **`BackupsProofs`.** `LocksCorrect`, `RestoresCorrect` and `CreatesCorrect` prove
  `LockHolds`, `RestoredExactly` and `CreatingIsTrue` from three independent
  inductive invariants (`LockInv`, `RestoreInv`, `CreateInv`). Each rests on lemmas
  of one form: a worker that turns to anything else leaves the invariant alone.
* **`NodesProofs`.** `HeldKeysCorrect` needs `KeysSound`: a handler about to answer with a
  key is the one whose key the row has, and a burned token stays burned.
  `RecordAgreesCorrect` is the largest proof here. `RecordsSound` says of every hostname
  without trouble that at most one reconcile is on it (`OnTarget`: it has listed the
  record there is, of the row it works for) and that the records are what the row
  says, or what the reconcile that is about to mark it has written (`HostSound`). Each
  action outside `NodeDns` is shown to leave both alone or to put its hostname in
  trouble. `CacheConvergesCorrect` strengthens to `CacheSound`: as long as nothing of an
  organization was out of order, the last event under way, or else the cache, says what
  Polar says, and so does the one request about to write it down; a request past the look
  at the subscription knows that there is one. `SeatsExactCorrect` builds on it.
  `SeatsSound` says that a request that is alone in its organization has read the window
  and the count there still are (`AloneAt`), and that where the last push was exact an
  entitlement exists, so that nobody is about to grant a window (`ExactAt`). The history
  variables `shaken`, `alone` and `exact` are the premises of the two properties, and the
  proofs show that they are enough. `NodesTypeCorrect` needs the nodes to be finite, for the count of seats.
* **`PortsProofs`.** `OthersKeptCorrect` strengthens to `PortsInv`: every call on its way is
  a well-formed one (`CallsOK`), and the number a ufw close holds is not that of a rule it
  may not touch as long as nothing was renumbered (`AimsOK`). An open is only ever under way
  for a port that has or had a row, which is what makes `TakenOver` the only exception;
  for that it rests on the invariant of `LockstepCorrect` as well (`KeptInv`). `LockstepCorrect` rests on
  `LockInv`: rows have ports of their own (`RowsOK`), calls fit the requests that wait for
  them and a removal crossed what a deploy still claims (`AsksOK`), and on a port that
  nothing crossed there is at most one request, and the rule and the row are what its
  progress says (`PortOK`, `Phase`).
  `PortsTypeCorrect` needs both, and that what was opened and what is being run are
  known to the history (`HistoryOK`).
* **`EditsProofs`**, of `Images` and `RedisKeys`. `ShownImageExistsCorrect` strengthens to
  `ImagesInv`. Its heart is `OneOwner`: an object is tied to one row, by being shown
  there, seen there by a browser, kept in its draft or worked with by a request. So a
  request can only delete what its own row could show, and `DropsSafe` says that it does
  not show it unless the row is spoiled. `DraftClean` and `HeldClean` say that nobody else
  knows of an object that waits to be tied to a row.
  `SavedAsAskedCorrect` strengthens to `RedisInv`: a save is in a value only after it has
  written, and in that of its own key until its EXPIRE unless something ran across it
  (`PartsWritten`), two saves that replace one key are disturbed (`Rivals`), between DEL
  and EXPIRE a save finds its own value, none, or a spoilt one (`OwnValue`), and what is
  not spoilt is of one save (`AsAsked`).
* **`BoxProofs`**, of `Drives`, `SftpSessions`, `Files` and `ConfigFiles`.
  `BootsAsMountedCorrect` rests on `DrivesInv`: as long as no requests overlapped, every line
  of fstab that no unmount left is of a filesystem there is and of a mount, and the
  request under way relies on a list and a copy of fstab that are still true (`Orderly`),
  whatever failed before and whatever a step leaves undone.
  Two lemmas carry it: some places have a last one, which is what a device or a mountpoint
  resolves to (`MaxOfIndices`), and what a boot mounts in some order is all of fstab (`SeqsCover`).
  `SftpInvariant` proves `InStep`, the maps each other's inverse, and `StoreRefines` maps
  every step of the store to a step of `CredentialSlot` or a stutter.
  `FilesKeptCorrect`: `FilesKept` is inductive once it is known what each task holds;
  `FilesTypeCorrect` is the typing it rests on.
  `ReadsAsAskedCorrect` and `MergedOnceCorrect` hold for files and replacements of any
  size. The state says little (`ConfigInv`: the file and the replacements are of the shape
  the parser takes); the work is in what the merges compute. They are folds, and a fold is
  a recursive function: `FoldExists` shows that there is one, by induction over a set of
  numbers (`UpTo`), and the same induction carries an invariant along the fold
  (`Repeated`, `Flattened`). `Enumerable` and its corollaries show that the keys of a
  replacement can be put in order. On these stand what each parser leaves: lines rewritten
  in place and the missing ones appended (`ReadsMergedProperties`, `PropertiesMergedOnce`);
  sections that the merge renders and parses again to the same sections (`Reparsed`,
  `EntrySet`, `SetAllSets`, `MergedINI`), in which the last line of a key is the first when there is
  one (`LastOf`); leaves put one by one into a decoded tree, where a later one spares an
  earlier one unless it is on its way (`ReadsMergedTree`, `TreeMergedOnce`), and spares what is
  in no map with odd keys on its way (`KeptSwept`); and words
  replaced one by one (`FileReplaced`, `FileMergedOnce`).

Every invariant and action property that a passing run checks is proved. Only model-checked
are the liveness properties (`KeepsPromise`, `CancelReleasesSlot`, `GoroutinesEnd`,
`ReloadsReturn`, `StopEnds`, `InstallEnds`, `CreatingEnds`, `DnsHeals`), which are out of
the prover's reach; of `KeepsPromise` the safety part is proved (`Refines`). The
theorems of the library that take an operator as a parameter cannot be used, which is why
the inductions above are over sets of numbers.


## 6. What is left out

* In the link: encoding and validation of envelopes; the structure of payloads;
  the demultiplexing of Docker's logs; what a browser peer's `send` throws
  (`closeAll` with an `onError` that throws); a restart of the panel.
* In the scheduler: the clock, and the outcome of the steps of a run.
* In servers: Docker's restart policy and its "restarting" state; config files
  and quotas, whose failure is that of `CreateBox`; SendCommand and List, which
  keep no state; the stop that a restore performs; the text of `lastError`; edits of
  the row (the ports of a deploy and a removal are in `Ports`); a panic in `provision`, which leaves
  the record "installing" until the daemon restarts.
* In backups: an engine that fails to remove borg's container, which would go on
  while the daemon believes it stopped; metadata that cannot be decoded; the archives
  of other servers, which share the repository and its lock; a panic in a create,
  which leaves the entry "creating" until the daemon restarts; borg's own lock and
  its retries, which are failures here. A restore that fails leaves a wiped or a torn
  volume, and two restores at once mix: the model has both, and no property claims
  otherwise. Of a wipe that failed the model knows that something is left, not which files
  the archive then overwrites.
* In nodes: the expiry of a bootstrap token; the live state of a heartbeat (host
  facts, certificate, port), whose last writer wins; the activity log; the reads and
  host actions of a node's page; a hostname with more A records than the panel made.
  The quantity and the period of an entitlement are display.
* In ports: UDP beside TCP (a port stands for the pair), a status or a list, and the
  removal of a node with its allocations.
* In files: directories, archives, quotas, the game server's own writes and SFTP's
  file operations (whose rename replaces); two names of one file.
* In SFTP: connections that stay open after their credential has ended.
* In images: what is inside an image or an egg; egg publishing and versions.
* In Redis keys: patterns and pages of a list, reads of a key, other clients of the
  instance, a command that Redis runs after its caller has given up, and a row that
  leaves the list while the question about its deletion is open.
* In drives: mountpoints below one another, partitions, lines of fstab that the
  operator wrote, devices that change their names with a reboot, a Docker that
  refuses to stop, a daemon.json that is cut off while it is written, and the usage of a disk.
* In configuration files: the encodings, files that cannot be read or parsed (skipped
  or begun anew by the code), words of a text that overlap, the case of "true", and the
  loop over the files of a server.
* Not modelled, because their state is in files, foreign systems or one statement:
  archives, host commands and quotas, the SQL and Mongo browsers, daemon networks, the
  local socket and its TUI, identity and the activity log, the generated contract.
  The user interface is React state over the server functions. Together they are
  most of the repository's lines.

## 7. Plan

1. `Servers` composed with `Ports` (a deploy that fails on its port) and with the
   scheduler's power steps.
2. The console relay's peers as actors, with sends that throw in `closeAll`.
3. The SQL and Mongo browsers' editors, the daemon's networks, and the removal of an
   organization with its nodes.
4. Theorems without a run: that a tree's merge does not depend on the order in which
   equally deep paths are put, which the code fixes by sorting them.
