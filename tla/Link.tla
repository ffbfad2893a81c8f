-------------------------------- MODULE Link --------------------------------
(***************************************************************************)
(* The daemon link as a whole: the panel's hub and the daemon's client over *)
(* the sockets between them.  A step is a step of one of the two.           *)
(***************************************************************************)
EXTENDS LinkHub, LinkClient

vars == <<wireVars, hubVars, clientVars>>

Init == WireInit /\ HubInit /\ ClientInit

Next ==
  \/ HubNext /\ UNCHANGED clientVars
  \/ ClientNext /\ UNCHANGED hubVars

(***************************************************************************)
(* Fairness.  Both runtimes schedule every ready goroutine and callback;    *)
(* a peer that is gone is noticed (a close frame, a reset, keep-alive); a   *)
(* request's timer fires; a handler whose context is done returns: the      *)
(* control handlers work on r.Context(), and what they do outside of it (a  *)
(* reload waiting for its runs, a removal on the Background context) ends   *)
(* by itself; StreamConsole selects on its context.  A handler nobody       *)
(* cancelled owes nothing (an image pull or a restore has no deadline), nor *)
(* does a browser, a dial or a failing network.                             *)
(***************************************************************************)
HubStep(A) == A /\ UNCHANGED clientVars
ClientStep(A) == A /\ UNCHANGED hubVars

DaemonGone(s) == daemonEnd[s] = "closed" /\ Closed(s)
PanelGone(s) == panelEnd[s] \in {"closing", "closed"} /\ SessionEnds(s)
CancelledReturns(c) == c \in cancelled /\ (DispatchReturns(c) \/ StreamReturns(c))

Fairness ==
  /\ \A s \in Sockets :
       /\ WF_vars(HubStep(Message(s)))
       /\ WF_vars(HubStep(DaemonGone(s)))
       /\ WF_vars(ClientStep(PanelGone(s)))
       /\ WF_vars(ClientStep(ReadFrame(s)))
       /\ WF_vars(ClientStep(WriteFrame(s)))
  /\ \A c \in Unary : WF_vars(HubStep(Timeout(c)))
  /\ \A c \in Calls :
       /\ WF_vars(ClientStep(CancelledReturns(c)))
       /\ WF_vars(ClientStep(Acquire(c)))
       /\ WF_vars(ClientStep(Drop(c)))
       /\ WF_vars(ClientStep(Answer(c)))

Spec == Init /\ [][Next]_vars /\ Fairness

TypeOK == WireTypeOK /\ HubTypeOK /\ ClientTypeOK

(***************************************************************************)
(* Safety.                                                                  *)
(***************************************************************************)
\* What TypeOK needs to be inductive: a goroutine about to answer has its frame.
ReplyReady ==
  \A c \in Calls : op[c] \in {"answering", "panicked"} => reply[c] \in Terminal

\* A call is only ever open on the Connection the hub holds: whatever drops or
\* replaces a link fails its calls (LinkHub.register / unregister, closeAll), so
\* no caller waits on a Connection no frame will be routed to.
NoOrphanCalls ==
  \A c \in Calls : call[c] = "open" => entry # NoSocket /\ via[c] = entry

\* At most one terminal frame for a call is on its way to the panel, and only
\* from a goroutine that has finished with it (envelope.go: "exactly one
\* terminal frame"; every early return of handleRequest and handleStream).
TerminalsFor(c, q) == {i \in DOMAIN q : q[i].id = c /\ q[i].kind \in Terminal}
OneTerminal ==
  \A s \in Sockets, c \in Calls :
    LET n == Cardinality(TerminalsFor(c, toPanel[s])) + Cardinality(TerminalsFor(c, out[s]))
    IN n <= 1 /\ (n = 1 => op[c] = "done")

\* The tokens in a session's two channels are those of the goroutines between
\* their send and their receive, none lost by a panic and none given back twice,
\* so that MaxConcurrent bounds the requests a session runs at a time, MaxStreams
\* its streams, and neither budget shrinks (handleRequest's and handleStream's
\* `defer func() { <-sem }()`, below the deferred recover).
Holders(s, P) == {c \in P : home[c] = s /\ op[c] \in Holding}
SlotsAccounted ==
  \A s \in Sockets :
    /\ sem[s] = Cardinality(Holders(s, Unary)) /\ sem[s] <= MaxConcurrent
    /\ streamSem[s] = Cardinality(Holders(s, Streams)) /\ streamSem[s] <= MaxStreams

\* The hub closes a socket that is still open only when it refuses its key or a
\* later registration supersedes it: a stale socket's delayed close or frames
\* cannot take a fresh connection down (LinkHub.unregister's instance check).
ClosesOnlySuperseded ==
  [][\A s \in Sockets :
       panelEnd[s] = "open" /\ panelEnd'[s] = "closing"
         => auth'[s] = "refused" \/ entry' \notin {s, NoSocket}]_vars

\* The link keeps the promise of CallService: one outcome per call, told once,
\* success only for a call that ran, at most one execution, and every control
\* request settled, across reconnects, timeouts, cancels and restarts.
Ran == {c \in Calls : op[c] \in {"running", "answering", "panicked", "done"}}
Promise == INSTANCE CallService WITH outcome <- call, ran <- Ran
KeepsPromise == Promise!Spec
KeepsPromiseSafely == Promise!Init /\ [][Promise!Next]_(Promise!vars)

(***************************************************************************)
(* Why the promise is kept: the inductive invariant LinkProofs uses.        *)
(***************************************************************************)
EntryRegistered == entry # NoSocket => auth[entry] = "registered"

Issued == \A c \in Calls : op[c] # "none" => call[c] # "new"

\* A request frame still on the wire is the only one for its call, on the
\* Connection the call went out on, and nothing has run for it.
RequestsFresh ==
  \A s \in Sockets : \A i \in DOMAIN toDaemon[s] :
    toDaemon[s][i].kind = "req" =>
      LET c == toDaemon[s][i].id IN
        /\ op[c] = "none" /\ call[c] # "new" /\ via[c] = s
        /\ \A j \in DOMAIN toDaemon[s] :
             toDaemon[s][j].kind = "req" /\ toDaemon[s][j].id = c => i = j

TerminalsRan(q) == \A i \in DOMAIN q : q[i].kind \in Terminal => op[q[i].id] = "done"
AnswersRan == \A s \in Sockets : TerminalsRan(out[s]) /\ TerminalsRan(toPanel[s])

RelayAgrees ==
  \A c \in Streams :
    /\ relay[c] \in {"idle", "resolving", "abandoned"} => call[c] = "new"
    /\ relay[c] = "attached" => call[c] = "open"

\* A request runs once and before it is answered; a browser's stream is open
\* while the browser is attached (handleRequest, handleStream, console-relay.ts).
LinkInv == Issued /\ RequestsFresh /\ AnswersRan /\ RelayAgrees

(***************************************************************************)
(* Liveness.                                                                *)
(***************************************************************************)
\* A stream its browser cancelled gives its slot back for good, even when the
\* stream budget is full and the cancel sits behind other requests on the wire
\* (client.go: "a full queue can't block reads, including the cancel frames").
CancelReleasesSlot ==
  \A c \in Streams : call[c] = "cancelled" ~> [](op[c] \notin Live)

\* A goroutine ends once its session is over or its handler has returned or
\* panicked: nothing of an old session piles up across reconnects, and a full
\* `out` channel holds no answer back for good (send, serveOnce's connCtx).
Finishing(c) == home[c] # session \/ op[c] \in {"answering", "panicked"}
GoroutinesEnd ==
  \A c \in Calls : op[c] \in Live /\ Finishing(c) ~> op[c] \notin Live

(***************************************************************************)
(* What the documentation says and the code does not do; see the README.    *)
(***************************************************************************)
\* link-hub.ts:248: isConnected is "Whether a node currently has a live link":
\* the registered socket is one the close hook has not run for.
RegisteredIsLive == entry # NoSocket => panelEnd[entry] # "closed"
=============================================================================
