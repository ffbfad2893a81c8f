-------------------------------- MODULE Wire --------------------------------
(***************************************************************************)
(* The WebSocket between one box and the panel, as both ends use it.        *)
(*                                                                         *)
(* The daemon (apps/wings/internal/link) dials; the panel's crossws peer    *)
(* (apps/panel/src/server/nodes/link-handler.ts) is the other end.  Sockets *)
(* are numbered in dial order.  A socket carries two in-order streams of    *)
(* frames; each end has its own opinion of whether the socket is open, and  *)
(* what one end sent is lost when the other end goes away before reading.   *)
(* The transport itself is a library (coder/websocket, crossws), modelled   *)
(* from how the two components use it.                                      *)
(***************************************************************************)
EXTENDS Naturals, Sequences, FiniteSets

CONSTANTS
  MaxDials,   \* bound: how many sockets one behaviour may open
  Unary,      \* ids of control requests (one request / response each)
  Streams     \* ids of console streams (chunks, then a terminal frame)

ASSUME DialsAssumption == MaxDials \in Nat
ASSUME CallsAssumption == Unary \cap Streams = {}

Sockets == 1 .. MaxDials
NoSocket == 0
Calls == Unary \cup Streams

(***************************************************************************)
(* Frames, by the kinds of packages/contract/envelope.ts.  The id is the    *)
(* correlation id; payloads are not told apart.  `event` frames are absent: *)
(* the daemon configures the link without its heartbeat (cli.go:388).       *)
(***************************************************************************)
PanelFrame == [kind : {"req", "cancel"}, id : Calls]
DaemonFrame == [kind : {"chunk", "res", "err"}, id : Calls]
Terminal == {"res", "err"}

VARIABLES
  panelEnd,   \* [Sockets -> End]: the peer object in the panel
  daemonEnd,  \* [Sockets -> End]: the websocket.Conn in the daemon
  toDaemon,   \* [Sockets -> Seq(PanelFrame)]: sent by the panel, not yet read
  toPanel     \* [Sockets -> Seq(DaemonFrame)]: written by the daemon, not yet read

wireVars == <<panelEnd, daemonEnd, toDaemon, toPanel>>

End == {"none", "open", "closing", "closed"}

WireTypeOK ==
  /\ panelEnd \in [Sockets -> End]
  /\ daemonEnd \in [Sockets -> {"none", "open", "closed"}]
  /\ toDaemon \in [Sockets -> Seq(PanelFrame)]
  /\ toPanel \in [Sockets -> Seq(DaemonFrame)]

WireInit ==
  /\ panelEnd = [s \in Sockets |-> "none"]
  /\ daemonEnd = [s \in Sockets |-> "none"]
  /\ toDaemon = [s \in Sockets |-> <<>>]
  /\ toPanel = [s \in Sockets |-> <<>>]

\* crossws still raises `message` on a socket the panel has asked to close.
Readable(s) == panelEnd[s] \in {"open", "closing"}

\* toDaemon after the panel sends f on s: a frame for a dead end is lost.
SentToDaemon(s, f) ==
  IF panelEnd[s] = "open" /\ daemonEnd[s] = "open"
    THEN [toDaemon EXCEPT ![s] = Append(@, f)]
    ELSE toDaemon

\* toPanel after the daemon writes f on s.
SentToPanel(s, f) ==
  IF Readable(s) THEN [toPanel EXCEPT ![s] = Append(@, f)] ELSE toPanel

\* panelEnd after the panel calls peer.close() on s; the close hook runs later.
Closing(s) ==
  [panelEnd EXCEPT ![s] = IF @ = "open" THEN "closing" ELSE @]
=============================================================================
