------------------------------ MODULE LinkHub ------------------------------
(***************************************************************************)
(* The panel half of the daemon link, for one node:                         *)
(*   - link-handler.ts: the WebSocket hooks open / message / close;         *)
(*   - link-hub.ts: the registry of live links and, per link, the           *)
(*     Connection that correlates calls with replies;                       *)
(*   - console-relay.ts: browsers that watch a console through a stream.    *)
(* The panel is one event loop: an action is what runs between two awaits.  *)
(* Nodes share nothing but the id counter, so one node is enough.           *)
(*                                                                         *)
(* An instance id (link-hub.ts:214) names the registration of one socket    *)
(* and a socket registers at most once, so the socket number stands for it. *)
(* A correlation id (link-hub.ts:74) is made once per call and is unique    *)
(* within its Connection, so the call itself stands for it.                 *)
(***************************************************************************)
EXTENDS Wire

VARIABLES
  auth,    \* [Sockets -> ...]: how far the async open hook of a peer has got
  entry,   \* the socket `conns` holds for the node, or NoSocket
  call,    \* [Calls -> CallState]: what the caller of request()/stream() was told
  via,     \* [Calls -> Sockets \cup {NoSocket}]: the Connection a call went out on
  relay    \* [Streams -> ...]: the browser peer that asked for a stream

hubVars == <<auth, entry, call, via, relay>>

CallState == {"new", "open", "ok", "failed", "cancelled"}

HubTypeOK ==
  /\ auth \in [Sockets -> {"awaiting", "registered", "refused"}]
  /\ entry \in Sockets \cup {NoSocket}
  /\ call \in [Calls -> CallState]
  /\ via \in [Calls -> Sockets \cup {NoSocket}]
  /\ relay \in [Streams -> {"idle", "resolving", "abandoned", "attached", "closed"}]

HubInit ==
  /\ auth = [s \in Sockets |-> "awaiting"]
  /\ entry = NoSocket
  /\ call = [c \in Calls |-> "new"]
  /\ via = [c \in Calls |-> NoSocket]
  /\ relay = [c \in Streams |-> "idle"]

(***************************************************************************)
(* The Connection of a socket: `pending` and `streams` are the open calls   *)
(* that went out on it.                                                     *)
(***************************************************************************)
InFlight(s) == {c \in Calls : call[c] = "open" /\ via[c] = s}

\* closeAll: fail every in-flight request and stream of s.
ClosedAllStreamsKept(s) ==
  [c \in Calls |-> IF c \in InFlight(s) \ Streams THEN "failed" ELSE call[c]]
ClosedAll(s) ==
  [c \in Calls |-> IF c \in InFlight(s) THEN "failed" ELSE call[c]]

\* The browser of a stream that was ended or failed by the hub is closed.
BrowsersClosed(S) ==
  [c \in Streams |-> IF c \in S /\ relay[c] = "attached" THEN "closed" ELSE relay[c]]

(***************************************************************************)
(* The WebSocket hooks.                                                     *)
(***************************************************************************)
\* `open` resumes after authenticateNodeKey accepted the key.  Nothing between
\* the await and register() looks at the peer, so it may be closed by now.
MayRegister(s) == panelEnd[s] # "none" /\ auth[s] = "awaiting"

Register(s) ==
  /\ MayRegister(s)
  /\ auth' = [auth EXCEPT ![s] = "registered"]
  /\ entry' = s
  /\ IF entry = NoSocket
       THEN UNCHANGED <<call, relay, panelEnd>>
       ELSE /\ call' = ClosedAll(entry)
            /\ relay' = BrowsersClosed(InFlight(entry))
            /\ panelEnd' = Closing(entry)
  /\ UNCHANGED <<via, daemonEnd, toDaemon, toPanel>>

\* `open` resumes with no node for the key (unknown, rotated or removed).
Refuse(s) ==
  /\ MayRegister(s)
  /\ auth' = [auth EXCEPT ![s] = "refused"]
  /\ panelEnd' = Closing(s)
  /\ UNCHANGED <<entry, call, via, relay, daemonEnd, toDaemon, toPanel>>

\* peer.context threads (nodeId, instanceId) back; the hub compares instances.
AnyInstance(s) == auth[s] = "registered" /\ entry # NoSocket
IsCurrent(s) == auth[s] = "registered" /\ entry = s

\* Connection.handle on one frame: chunks only feed the browser, a terminal
\* frame settles the call it is for, unless it was settled already.
HandledAgain(f) ==
  IF f.kind \in Terminal
    THEN [call EXCEPT ![f.id] = IF f.kind = "res" THEN "ok" ELSE "failed"]
    ELSE call
Handled(f) ==
  IF f.kind \in Terminal /\ f.id \in InFlight(entry)
    THEN [call EXCEPT ![f.id] = IF f.kind = "res" THEN "ok" ELSE "failed"]
    ELSE call

Message(s) ==
  /\ Readable(s)
  /\ toPanel[s] # <<>>
  /\ LET f == Head(toPanel[s]) IN
       IF IsCurrent(s)
         THEN /\ call' = Handled(f)
              /\ relay' = IF f.kind \in Terminal
                            THEN BrowsersClosed({f.id} \cap InFlight(entry))
                            ELSE relay
         ELSE UNCHANGED <<call, relay>>
  /\ toPanel' = [toPanel EXCEPT ![s] = Tail(@)]
  /\ UNCHANGED <<auth, entry, via, panelEnd, daemonEnd, toDaemon>>

\* The close hook: the peer, the network or the panel itself closed s, and
\* frames not delivered by now never are.  An unregistered peer has no context
\* yet, so the hook leaves the hub alone.
Closed(s) ==
  /\ Readable(s)
  /\ toPanel' = [toPanel EXCEPT ![s] = <<>>]
  /\ IF IsCurrent(s)
       THEN /\ call' = ClosedAll(entry)
            /\ relay' = BrowsersClosed(InFlight(entry))
            /\ entry' = NoSocket
            /\ panelEnd' = [Closing(entry) EXCEPT ![s] = "closed"]
       ELSE /\ panelEnd' = [panelEnd EXCEPT ![s] = "closed"]
            /\ UNCHANGED <<entry, call, relay>>
  /\ UNCHANGED <<auth, via, daemonEnd, toDaemon>>

(***************************************************************************)
(* Calls.  A send on a socket that is already closed is lost or throws,     *)
(* by the WebSocket library; the code is ready for both.                    *)
(***************************************************************************)
SendThrows(s) == panelEnd[s] # "open"

\* Without a live socket the caller is refused; with one, the call is registered
\* on its Connection and its frame sent.
Refused(c) ==
  /\ entry # NoSocket => SendThrows(entry)
  /\ call' = [call EXCEPT ![c] = "failed"]
  /\ UNCHANGED <<via, toDaemon>>

Sent(c) ==
  /\ entry # NoSocket
  /\ call' = [call EXCEPT ![c] = "open"]
  /\ via' = [via EXCEPT ![c] = entry]
  /\ toDaemon' = SentToDaemon(entry, [kind |-> "req", id |-> c])

Request(c) ==
  /\ c \in Unary
  /\ call[c] = "new"
  /\ Refused(c) \/ Sent(c)
  /\ UNCHANGED <<auth, entry, relay, panelEnd, daemonEnd, toPanel>>

\* The request's timer fires: the caller is told, the daemon is not.
NeverTimesOut(c) == FALSE
TimesOut(c) == c \in Unary /\ call[c] = "open"
Timeout(c) ==
  /\ TimesOut(c)
  /\ call' = [call EXCEPT ![c] = "failed"]
  /\ UNCHANGED <<auth, entry, via, relay>>
  /\ UNCHANGED wireVars

(***************************************************************************)
(* The console relay.  The browser's open hook awaits the session and the   *)
(* server row before it asks the hub for a stream; the browser may be gone  *)
(* by then, and its close hook found no cancel function to call.            *)
(***************************************************************************)
BrowserOpens(c) ==
  /\ relay[c] = "idle"
  /\ relay' = [relay EXCEPT ![c] = "resolving"]
  /\ UNCHANGED <<auth, entry, call, via>>
  /\ UNCHANGED wireVars

\* open resumes with no session, organization or server that it may watch.
BrowserDenied(c) ==
  /\ relay[c] \in {"resolving", "abandoned"}
  /\ relay' = [relay EXCEPT ![c] = "closed"]
  /\ UNCHANGED <<auth, entry, call, via>>
  /\ UNCHANGED wireVars

\* open resumes: close the browser without a link, else open the stream.
BrowserAttaches(c) ==
  /\ relay[c] \in {"resolving", "abandoned"}
  /\ \/ /\ Refused(c)
        /\ relay' = [relay EXCEPT ![c] = "closed"]
     \/ /\ Sent(c)
        /\ relay' = [relay EXCEPT ![c] = IF @ = "resolving" THEN "attached" ELSE "closed"]
  /\ UNCHANGED <<auth, entry, panelEnd, daemonEnd, toPanel>>

\* The browser leaves: its close hook cancels the stream it can name.
BrowserLeaves(c) ==
  /\ \/ /\ relay[c] = "resolving"
        /\ relay' = [relay EXCEPT ![c] = "abandoned"]
        /\ UNCHANGED <<call, toDaemon>>
     \/ /\ relay[c] = "attached"
        /\ relay' = [relay EXCEPT ![c] = "closed"]
        /\ call' = [call EXCEPT ![c] = "cancelled"]
        /\ toDaemon' = SentToDaemon(via[c], [kind |-> "cancel", id |-> c])
  /\ UNCHANGED <<auth, entry, via, panelEnd, daemonEnd, toPanel>>

HubNext ==
  \/ \E s \in Sockets : Register(s) \/ Refuse(s) \/ Message(s) \/ Closed(s)
  \/ \E c \in Unary : Request(c) \/ Timeout(c)
  \/ \E c \in Streams : BrowserOpens(c) \/ BrowserDenied(c)
                        \/ BrowserAttaches(c) \/ BrowserLeaves(c)
=============================================================================
