------------------------------ MODULE Servers ------------------------------
(***************************************************************************)
(* The life of one game server: apps/wings/internal/server (Create with its *)
(* background install, power actions, Delete) over the containers and the   *)
(* volume apps/wings/internal/docker keeps in the Docker engine, driven by  *)
(* the panel's server functions (apps/panel/src/server/servers).            *)
(*                                                                         *)
(* The panel mints a fresh id for every create, so Create runs once per     *)
(* server; everything else may be asked at any time, by several users.      *)
(* Every call to the engine is a step of its own.  It may fail, and when    *)
(* the caller's context ends first it may still take effect later.          *)
(***************************************************************************)
EXTENDS Naturals, FiniteSets

CONSTANTS
  Users,     \* users whose requests may be under way at once
  MaxLate    \* bound: engine calls without a caller that may yet happen

ASSUME LateAssumption == MaxLate \in Nat

VARIABLES
  row,        \* the panel's registry row: its state, or "none"
  install,    \* whether the egg has an install script
  step,       \* where the daemon's Create is
  live,       \* the context of that Create has not ended
  reply,      \* what the daemon answered createServer
  told,       \* createServer has written the outcome to the row
  record,     \* Manager.installs: the install tracker
  container,  \* [{"job", "box"} -> ...]: the install's container, the server's
  volume,     \* the data volume; "plain" when a mount created it, unlabelled
  exit,       \* how the run of the install script that Create waits for ended
  late,       \* engine calls whose caller is gone and that may yet happen
  lost,       \* containers the daemon could not remove, or did not see created
  request,    \* [Users -> request]: what a user has asked
  dropped,    \* history: a Delete dropped the install record
  deleted     \* history: a Delete reported success

engineVars == <<container, volume, exit>>
createVars == <<install, step, live, reply, record, lost>>
vars == <<row, told, createVars, engineVars, late, request, dropped, deleted>>

Kinds == {"job", "box"}
Op == [do : {"create", "start", "stop", "remove"}, on : Kinds \cup {"volume"}]
do(what, on) == [do |-> what, on |-> on]

RowState == {"none", "installing", "running", "stopped", "failed"}
Answer == RowState \cup {"ok", "error"}
Power == {"start", "stop", "restart"}
Request == [ask : {"get", "delete"} \cup Power, at : {"sent", "find", "call", "again",
            "volume", "snapshot", "answered"}, on : Kinds \cup {"none"},
            seen : RowState, answer : Answer, waiting : BOOLEAN]

\* A request under way on a container has found one; only a delete is just ok.
Aimed(q) ==
  /\ q.at \in {"call", "again"} => q.on \in Kinds
  /\ q.at \in {"find", "volume"} \/ q.answer = "ok" => q.ask = "delete"

Steps ==
  {"unsent", "inspect", "volume", "pull",            \* Create, before the install
   "createJob", "startJob", "register", "wait", "removeJob", "dropJob",  \* RunOnce
   "createBox", "startBox", "rollback", "snapshot", "done"}   \* provision

TypeOK ==
  /\ row \in RowState
  /\ install \in BOOLEAN /\ live \in BOOLEAN /\ told \in BOOLEAN
  /\ dropped \in BOOLEAN /\ deleted \in BOOLEAN
  /\ step \in Steps
  /\ reply \in {"none", "installing", "running", "stopped", "error"}
  /\ record \in {"none", "installing", "failed"}
  /\ container \in [Kinds -> {"none", "created", "running", "exited"}]
  /\ volume \in {"none", "labelled", "plain"}
  /\ exit \in {"none", "ok", "bad"}
  /\ late \subseteq Op
  /\ lost \subseteq Kinds
  /\ request \in [Users -> SUBSET Request]
  /\ \A u \in Users : \A p, q \in request[u] : p = q
  /\ \A u \in Users : \A q \in request[u] : Aimed(q)

Init ==
  /\ row = "none"
  /\ install \in BOOLEAN
  /\ step = "unsent"
  /\ live = TRUE
  /\ reply = "none"
  /\ told = FALSE
  /\ record = "none"
  /\ container = [k \in Kinds |-> "none"]
  /\ volume = "none"
  /\ exit = "none"
  /\ late = {}
  /\ lost = {}
  /\ request = [u \in Users |-> {}]
  /\ dropped = FALSE
  /\ deleted = FALSE

(***************************************************************************)
(* The engine.  A mount of a volume that does not exist creates it; a       *)
(* container or a volume that is in use by one cannot be taken from under   *)
(* it; a call on a container that is not there is refused.                  *)
(***************************************************************************)
Present == {k \in Kinds : container[k] # "none"}

Accepts(op) ==
  CASE op.on = "volume" -> op.do = "remove" /\ volume = "labelled" => Present = {}
    [] op.do = "create" -> op.on \notin Present
    [] OTHER            -> op.on \in Present

Becomes(op) ==
  CASE op.do = "create" -> "created"
    [] op.do = "start"  -> "running"
    [] op.do = "remove" -> "none"
    [] op.do = "stop"   -> IF container[op.on] = "running" THEN "exited" ELSE container[op.on]

\* The script's run ends, by itself or because its container is stopped or
\* removed.  The wait sees the last run until it is registered, and then the
\* first one to end.
Ended(how) == IF exit = "none" THEN how ELSE exit
Registered == step \notin {"createJob", "startJob", "register"}
ExitAfter(op) ==
  CASE op.on # "job" -> exit
    [] op.do \in {"stop", "remove"} /\ container["job"] = "running" -> Ended("bad")
    [] op.do = "start" /\ container["job"] # "running" /\ ~Registered -> "none"
    [] OTHER -> exit

ContainerDoes(op) ==
  /\ container' = [container EXCEPT ![op.on] = Becomes(op)]
  /\ volume' = IF op.do = "create" /\ volume = "none" THEN "plain" ELSE volume
  /\ exit' = ExitAfter(op)

VolumeDoes(op) ==
  /\ volume' = IF op.do = "create"
                 THEN IF volume = "none" THEN "labelled" ELSE volume
                 ELSE IF volume = "labelled" THEN "none" ELSE volume
  /\ UNCHANGED <<container, exit>>

Does(op) ==
  /\ Accepts(op)
  /\ IF op.on = "volume" THEN VolumeDoes(op) ELSE ContainerDoes(op)

\* Calls whose caller goes away while they are under way: some of them never
\* happen, and the others still do.
GoLate(ops) ==
  \E S \in SUBSET ops : Cardinality(late \cup S) <= MaxLate /\ late' = late \cup S

LateCall(op) ==
  /\ op \in late
  /\ late' = late \ {op}
  /\ Does(op)
  /\ UNCHANGED <<row, told, createVars, request, dropped, deleted>>

ScriptEnds(how) ==
  /\ container["job"] = "running"
  /\ container' = [container EXCEPT !["job"] = "exited"]
  /\ exit' = Ended(how)
  /\ UNCHANGED <<volume, row, told, createVars, late, request, dropped, deleted>>

ServerExits ==
  /\ container["box"] = "running"
  /\ container' = [container EXCEPT !["box"] = "exited"]
  /\ UNCHANGED <<volume, exit, row, told, createVars, late, request,
                 dropped, deleted>>

(***************************************************************************)
(* createServer: the row first, then the port, then the daemon.             *)
(***************************************************************************)
\* An update of the row by its id, which does nothing once the row is gone.
Upserted(s) == s
Updated(s) == IF row = "none" THEN "none" ELSE s

CreateServer ==
  /\ step = "unsent"
  /\ \/ /\ step' = "inspect"
        /\ row' = "installing"
        /\ UNCHANGED told
     \/ /\ step' = "done"       \* the port is taken: nothing is dispatched
        /\ row' = "failed"
        /\ told' = TRUE
  /\ UNCHANGED <<install, live, reply, record, lost, engineVars, late, request,
                 dropped, deleted>>

CreateAnswered ==
  /\ reply # "none"
  /\ ~told
  /\ row' = Updated(IF reply = "error" THEN "failed" ELSE reply)
  /\ told' = TRUE
  /\ reply' = "none"
  /\ UNCHANGED <<install, step, live, record, lost, engineVars, late, request,
                 dropped, deleted>>

\* No answer in five minutes, or no link: the daemon is not told.
CreateTimesOut ==
  /\ step # "unsent"
  /\ reply = "none"
  /\ ~told
  /\ row' = Updated("failed")
  /\ told' = TRUE
  /\ UNCHANGED <<createVars, engineVars, late, request, dropped, deleted>>

(***************************************************************************)
(* Create on the daemon.  Until the install goes to the background its      *)
(* context is the request's, which ends with the link; then it is its own,  *)
(* which ends by Delete or by a deadline (installHardTimeout for the job,   *)
(* provisionTimeout for the whole).                                         *)
(***************************************************************************)
Foreground == step \in {"inspect", "volume"} \/ ~install
Under == step \notin {"unsent", "done"}

\* Mutation: a background install without a deadline.
OnlyForeground == Under /\ live /\ Foreground
MayEnd == Under /\ live

ContextEnds ==
  /\ MayEnd
  /\ live' = FALSE
  /\ UNCHANGED <<row, told, install, step, reply, record, lost, engineVars, late,
                 request, dropped, deleted>>

\* finishInstall leaves the tracker alone when a delete has dropped the record.
RecordedAlways(err) == IF err THEN "failed" ELSE "none"
Recorded(err) == IF record = "none" THEN "none" ELSE RecordedAlways(err)

\* An answer to createServer, which nobody reads once it has given up.
Answered(a) == IF told THEN "none" ELSE a

Ends(err) ==
  /\ step' = "done"
  /\ IF Foreground
       THEN reply' = Answered("error") /\ UNCHANGED record
       ELSE record' = Recorded(err) /\ UNCHANGED reply
  /\ live' = TRUE     \* of no use any more

\* On to the next call, which is refused at once when the context has ended.
GoesTo(next) == step' = next /\ UNCHANGED <<live, reply, record>>

creatorOnly == <<row, told, install, request, dropped, deleted>>

\* Create is refused when the server has a container; an install record it
\* could not have, since it is the only Create.
CreateInspects ==
  /\ step = "inspect"
  /\ IF live /\ Present = {} THEN GoesTo("volume") ELSE Ends(TRUE)
  /\ UNCHANGED <<lost, engineVars, late, creatorOnly>>

\* The volume stands: install in the background, or provision right here.
CreateVolume ==
  /\ step = "volume"
  /\ Does(do("create", "volume"))
  /\ IF install
       THEN /\ record' = "installing"
            /\ reply' = Answered("installing")
            /\ live' = TRUE
            /\ step' = "pull"
       ELSE IF live THEN GoesTo("pull") ELSE Ends(TRUE)
  /\ UNCHANGED <<lost, late, creatorOnly>>

PullImage ==
  /\ step = "pull"
  /\ live
  /\ GoesTo(IF install THEN "createJob" ELSE "createBox")
  /\ UNCHANGED <<lost, engineVars, late, creatorOnly>>

Calling ==
  CASE step = "volume"    -> {do("create", "volume")}
    [] step = "createJob" -> {do("create", "job")}
    [] step = "startJob"  -> {do("start", "job")}
    [] step = "createBox" -> {do("create", "box")}
    [] step = "startBox"  -> {do("start", "box")}
    [] OTHER              -> {}

\* A call fails, or the context ends while it is under way.
CutOff == IF live THEN {} ELSE Calling
NotSeen == {op.on : op \in {x \in CutOff : x.do = "create"}} \cap Kinds

CallFails ==
  /\ \/ step \in {"inspect", "volume", "pull", "createJob", "createBox"} /\ Ends(TRUE)
     \/ step \in {"startJob", "register"} /\ GoesTo("dropJob")
     \/ step = "startBox" /\ GoesTo("rollback")
  /\ GoLate(CutOff)
  /\ lost' = lost \cup NotSeen
  /\ UNCHANGED <<engineVars, creatorOnly>>

CreateJob ==
  /\ step = "createJob"
  /\ Does(do("create", "job"))
  /\ GoesTo(IF live THEN "startJob" ELSE "dropJob")
  /\ UNCHANGED <<lost, late, creatorOnly>>

StartJob ==
  /\ step = "startJob"
  /\ Does(do("start", "job"))
  /\ GoesTo(IF live THEN "register" ELSE "dropJob")
  /\ UNCHANGED <<lost, late, creatorOnly>>

RegisterWait ==
  /\ step = "register"
  /\ live
  /\ "job" \in Present
  /\ GoesTo("wait")
  /\ UNCHANGED <<lost, engineVars, late, creatorOnly>>

\* The run has ended, and its output is read; or the wait, the reading of the
\* output or the context has failed.
MayInstallAnyhow == exit # "none"   \* mutation: the exit code not looked at
MayInstallOn == exit = "ok"
JobWaits ==
  /\ step = "wait"
  /\ \/ MayInstallOn /\ GoesTo("removeJob")
     \/ GoesTo("dropJob")
  /\ UNCHANGED <<lost, engineVars, late, creatorOnly>>

\* The deferred removal, on a context of its own; its error is ignored.
Removed(k) ==
  \/ Does(do("remove", k)) /\ UNCHANGED lost
  \/ UNCHANGED engineVars /\ lost' = lost \cup ({k} \cap Present)
NotRemoved(k) == UNCHANGED <<engineVars, lost>>
JobRemoved(k) == Removed(k)
RolledBack(k) == Removed(k)

RemoveJob ==
  /\ step \in {"removeJob", "dropJob"}
  /\ JobRemoved("job")
  /\ IF step = "removeJob" /\ live THEN GoesTo("createBox") ELSE Ends(TRUE)
  /\ UNCHANGED <<late, creatorOnly>>

CreateBox ==
  /\ step = "createBox"
  /\ Does(do("create", "box"))
  /\ GoesTo(IF live THEN "startBox" ELSE "rollback")
  /\ UNCHANGED <<lost, late, creatorOnly>>

StartBox ==
  /\ step = "startBox"
  /\ Does(do("start", "box"))
  /\ IF install THEN Ends(FALSE) ELSE GoesTo("snapshot")
  /\ UNCHANGED <<lost, late, creatorOnly>>

Rollback ==
  /\ step = "rollback"
  /\ RolledBack("box")
  /\ Ends(TRUE)
  /\ UNCHANGED <<late, creatorOnly>>

\* What the panel makes of the state the daemon reports (mapDaemonState).
Reported(k) == IF container[k] = "running" THEN "running" ELSE "stopped"

CreateSnapshot ==
  /\ step = "snapshot"
  /\ step' = "done"
  /\ \/ \E k \in Present : live /\ reply' = Answered(Reported(k))
     \/ reply' = Answered("error")
  /\ live' = TRUE
  /\ UNCHANGED <<record, lost, engineVars, late, creatorOnly>>

(***************************************************************************)
(* The users' requests: a poll (syncServer), a power action, a removal.     *)
(* The panel gives up on a request that takes too long; the daemon goes on  *)
(* with it.  A dropped link ends the request's context on the daemon too.   *)
(***************************************************************************)
userOnly == <<told, createVars>>

Ask(u, what) ==
  /\ row # "none"
  /\ request[u] = {}
  /\ request' = [request EXCEPT ![u] =
       {[ask |-> what, at |-> "sent", on |-> "none", waiting |-> TRUE,
         seen |-> IF what = "get" THEN row ELSE "none", answer |-> "none"]}]
  /\ UNCHANGED <<row, engineVars, late, dropped, deleted, userOnly>>

Becoming(u, q) == request' = [request EXCEPT ![u] = {q}]
Answers(u, q, a) == Becoming(u, [q EXCEPT !.at = "answered", !.answer = a, !.on = "none"])

\* InspectByServerID: any container with the server's label.
Finds(u, q, next) ==
  \E k \in Present : Becoming(u, [q EXCEPT !.at = next, !.on = k])

\* Get: the tracker first, then the container.
Get(u) ==
  /\ \E q \in request[u] :
       /\ q.ask = "get" /\ q.at = "sent"
       /\ IF record # "none" THEN Answers(u, q, record)
          ELSE \/ \E k \in Present : Answers(u, q, Reported(k))
               \/ Present = {} /\ Answers(u, q, "error")
  /\ UNCHANGED <<row, engineVars, late, dropped, deleted, userOnly>>

FindForPower(u) ==
  /\ \E q \in request[u] :
       /\ q.ask \in Power /\ q.at = "sent"
       /\ Finds(u, q, "call") \/ (Present = {} /\ Answers(u, q, "error"))
  /\ UNCHANGED <<row, engineVars, late, dropped, deleted, userOnly>>

\* The call of a request on the container it found; Restart stops, then starts.
CallOf(q) ==
  CASE q.ask = "delete" -> IF q.at = "volume" THEN do("remove", "volume")
                                              ELSE do("remove", q.on)
    [] q.ask = "start" \/ q.at = "again" -> do("start", q.on)
    [] OTHER -> do("stop", q.on)

PowerCall(u) ==
  /\ \E q \in request[u] :
       /\ q.ask \in Power /\ q.at \in {"call", "again"}
       /\ Does(CallOf(q))
       /\ Becoming(u, [q EXCEPT !.at =
            IF q.ask = "restart" /\ q.at = "call" THEN "again" ELSE "snapshot",
            !.on = IF q.ask = "restart" /\ q.at = "call" THEN q.on ELSE "none"])
  /\ UNCHANGED <<row, late, dropped, deleted, userOnly>>

PowerSnapshot(u) ==
  /\ \E q \in request[u] :
       /\ q.at = "snapshot"
       /\ \/ \E k \in Present : Answers(u, q, Reported(k))
          \/ Present = {} /\ Answers(u, q, "error")
  /\ UNCHANGED <<row, engineVars, late, dropped, deleted, userOnly>>

\* cancelInstall, under the tracker's lock.
DeleteCancels(u) ==
  /\ \E q \in request[u] :
       /\ q.ask = "delete" /\ q.at = "sent"
       /\ Becoming(u, [q EXCEPT !.at = "find"])
  /\ record' = "none"
  /\ live' = IF record = "installing" THEN FALSE ELSE live
  /\ dropped' = (dropped \/ record # "none")
  /\ UNCHANGED <<row, told, install, step, reply, lost, engineVars, late, deleted>>

DeleteFinds(u) ==
  /\ \E q \in request[u] :
       /\ q.at = "find"
       /\ Finds(u, q, "call") \/ (Present = {} /\ Becoming(u, [q EXCEPT !.at = "volume"]))
  /\ UNCHANGED <<row, engineVars, late, dropped, deleted, userOnly>>

DeleteCall(u) ==
  /\ \E q \in request[u] :
       /\ q.ask = "delete" /\ q.at \in {"call", "volume"}
       /\ Does(CallOf(q))
       /\ IF q.at = "call" THEN Becoming(u, [q EXCEPT !.at = "volume", !.on = "none"])
                           ELSE Answers(u, q, "ok")
       /\ deleted' = (deleted \/ q.at = "volume")
  /\ UNCHANGED <<row, late, dropped, userOnly>>

\* The engine refuses the call, or fails; a container that is gone is refused too.
RequestFails(u) ==
  /\ \E q \in request[u] :
       q.at \in {"sent", "find", "snapshot", "call", "again", "volume"} /\ Answers(u, q, "error")
  /\ UNCHANGED <<row, engineVars, late, dropped, deleted, userOnly>>

\* The link drops: the context of the request ends during its call.
RequestCutOff(u) ==
  /\ \E q \in request[u] :
       /\ q.at \in {"call", "again", "volume"}
       /\ GoLate({CallOf(q)})
       /\ Answers(u, q, "error")
  /\ UNCHANGED <<row, engineVars, dropped, deleted, userOnly>>

\* What the panel does when its call returns: syncServer and powerServer write
\* what they were told, removeServer removes the row whatever it was told.
RowAfter(q) ==
  CASE q.ask = "delete" -> {"none"}
    [] q.answer = "error" -> {row}
    [] q.answer = q.seen -> {row} \cup
         (IF q.answer = "failed" THEN {Updated("failed")} ELSE {})   \* a new lastError
    [] OTHER -> {Updated(q.answer)}

GivesUp(u) ==
  /\ \E q \in request[u] :
       /\ q.waiting /\ q.at # "answered"
       /\ Becoming(u, [q EXCEPT !.waiting = FALSE, !.seen = "none"])
       /\ row' = IF q.ask = "delete" THEN "none" ELSE row
  /\ UNCHANGED <<engineVars, late, dropped, deleted, userOnly>>

Returns(u) ==
  /\ \E q \in request[u] :
       /\ q.at = "answered"
       /\ row' \in IF q.waiting THEN RowAfter(q) ELSE {row}
  /\ request' = [request EXCEPT ![u] = {}]
  /\ UNCHANGED <<engineVars, late, dropped, deleted, userOnly>>

(***************************************************************************)
(* The daemon dies.  The tracker is in memory; containers and volumes stay. *)
(***************************************************************************)
CallsUnderWay ==
  Calling \cup {CallOf(q) : q \in
    {x \in UNION {request[u] : u \in Users} : x.at \in {"call", "again", "volume"}}}

Crash ==
  /\ step' = IF Under THEN "done" ELSE step
  /\ reply' = IF Under /\ reply = "none" THEN Answered("error") ELSE reply
  /\ record' = "none"
  /\ GoLate(CallsUnderWay)
  /\ lost' = IF step = "unsent" THEN {} ELSE Kinds   \* it knows of none any more
  /\ live' = TRUE
  /\ request' = [u \in Users |->
       {[q EXCEPT !.at = "answered", !.on = "none",
                  !.answer = IF q.at = "answered" THEN @ ELSE "error"] : q \in request[u]}]
  /\ UNCHANGED <<row, told, install, engineVars, dropped, deleted>>

Next ==
  \/ \E op \in Op : LateCall(op)
  \/ \E how \in {"ok", "bad"} : ScriptEnds(how)
  \/ ServerExits
  \/ CreateServer \/ CreateAnswered \/ CreateTimesOut
  \/ ContextEnds \/ CreateInspects \/ CreateVolume \/ PullImage \/ CallFails
  \/ CreateJob \/ StartJob \/ RegisterWait \/ JobWaits \/ RemoveJob
  \/ CreateBox \/ StartBox \/ Rollback \/ CreateSnapshot
  \/ \E u \in Users, what \in {"get", "delete"} \cup Power : Ask(u, what)
  \/ \E u \in Users :
       \/ Get(u) \/ FindForPower(u) \/ PowerCall(u) \/ PowerSnapshot(u)
       \/ DeleteCancels(u) \/ DeleteFinds(u) \/ DeleteCall(u)
       \/ RequestFails(u) \/ RequestCutOff(u) \/ GivesUp(u) \/ Returns(u)
  \/ Crash

(***************************************************************************)
(* Fairness: the deadlines pass, and a call whose context has ended returns *)
(* with an error; the removals that ignore the context rely on the engine   *)
(* to answer.  Scripts, users and the network owe nothing.                  *)
(***************************************************************************)
Deadline == ~Foreground /\ ContextEnds
CallCutOff == ~live /\ CallFails
WaitCutOff == ~live /\ JobWaits

Fairness ==
  /\ WF_vars(Deadline) /\ WF_vars(CallCutOff) /\ WF_vars(WaitCutOff)
  /\ WF_vars(RemoveJob) /\ WF_vars(Rollback)

Spec == Init /\ [][Next]_vars /\ Fairness

(***************************************************************************)
(* Properties.                                                              *)
(***************************************************************************)
\* A failed install leaves no container that the daemon could have removed
\* (provision's rollback, RunOnce's deferred removal).
FailedLeavesNothing == record = "failed" => Present \subseteq lost

\* The order Create keeps, from which the invariants below follow: a container
\* that exists belongs to the step that may have made it, or is lost; an install
\* that has come past its script has seen it succeed; its record stands until a
\* Delete drops it or it ends (provision, RunOnce, finishInstall).
JobSteps == {"startJob", "register", "wait", "removeJob", "dropJob"}
BoxSteps == {"startBox", "rollback", "snapshot", "done"}
MayCome(k) == k \in Present \/ do("create", k) \in late
LateIsLost == \A k \in Kinds : do("create", k) \in late => k \in lost
JobInOrder == MayCome("job") => step \in JobSteps \/ "job" \in lost
BoxInOrder == MayCome("box") => step \in BoxSteps
Background == install /\ Under /\ ~Foreground
JobIsInstall == step \in JobSteps \cup {"createJob"} => install
ScriptSeen ==
  install /\ (step \in {"removeJob", "createBox", "startBox", "rollback"} \/ MayCome("box"))
    => exit = "ok"
RecordStands ==
  /\ Background => record = "installing" \/ dropped
  /\ record # "none" \/ dropped => Background \/ step = "done"
  /\ record = "failed" => step = "done"
ServersInv ==
  /\ step = "unsent" => late = {} /\ lost = {} /\ row = "none" /\ \A u \in Users : request[u] = {}
  /\ LateIsLost
  /\ JobInOrder
  /\ BoxInOrder
  /\ JobIsInstall
  /\ ScriptSeen
  /\ RecordStands
  /\ FailedLeavesNothing

\* InspectByServerID takes the first container with the server's label, and so
\* is right only if there is one: the job is gone before the server's container
\* is created, unless its removal failed (RunOnce's deferred RemoveContainer).
OneContainer == Present = Kinds => "job" \in lost

\* While the install's container exists, Get reports the install and not that
\* container, except for a server being deleted or after a crash (Get).
JobHidden == "job" \in Present => record = "installing" \/ dropped \/ "job" \in lost

\* The server's container comes to exist only on a finished install, however
\* users stop, restart or delete what they find meanwhile (runInstall).
BootsOnInstalled == install /\ "box" \in Present => exit = "ok"

\* A record that a Delete has dropped stays dropped, although the install it
\* was for still fails afterwards (finishInstall's `want`).
DroppedStays == dropped => record = "none"

\* A late answer does not bring back a row that was removed (serversRepository).
RowStaysRemoved == [][row = "none" /\ row' # "none" => step = "unsent"]_vars

\* An install does not hang: script, pull and engine calls are under a deadline.
InstallEnds == record = "installing" ~> record # "installing"

(***************************************************************************)
(* What the documentation says and the code does not do; see the README.    *)
(***************************************************************************)
\* server.go:399-402: a Delete that succeeded leaves no container to appear.
DeletedStaysGone == deleted => "box" \notin Present
=============================================================================
