----------------------------- MODULE LinkClient -----------------------------
(***************************************************************************)
(* The daemon half of the daemon link (apps/wings/internal/link): Run dials *)
(* and redials, serveOnce serves one socket, and every inbound request runs *)
(* in a goroutine of its own that takes a slot, works and answers.          *)
(*                                                                         *)
(* The goroutines of a session are cancelled when it ends, and not waited   *)
(* for: they may still be running when the next session starts.             *)
(***************************************************************************)
EXTENDS Wire

CONSTANTS
  MaxConcurrent,  \* slots for control requests, per session
  MaxStreams,     \* slots for streams, per session
  OutCap,         \* capacity of the session's `out` channel
  MinBackoff,     \* bounds of the delay before a redial
  MaxBackoff,
  MaxChunks       \* bound: chunks a stream emits in one behaviour

ASSUME ClientAssumption ==
  /\ MaxConcurrent \in Nat \ {0}
  /\ MaxStreams \in Nat \ {0}
  /\ OutCap \in Nat \ {0}
  /\ MinBackoff \in Nat \ {0}
  /\ MaxBackoff \in Nat
  /\ MinBackoff <= MaxBackoff
  /\ MaxChunks \in Nat

VARIABLES
  session,    \* the socket serveOnce is serving, or NoSocket
  dials,      \* sockets opened so far
  backoff,    \* the delay before the next dial
  op,         \* [Calls -> OpState]: the goroutine of a request
  home,       \* [Calls -> Sockets \cup {NoSocket}]: the session it belongs to
  reply,      \* [Calls -> ...]: the terminal frame it is about to send
  cancelled,  \* the live requests whose reqCtx is done
  pumping,    \* the streams whose log/stats pumps still run
  chunks,     \* [Streams -> Nat]: chunks emitted (for the bound MaxChunks)
  out,        \* [Sockets -> Seq(DaemonFrame)]: the session's `out` channel
  sem,        \* [Sockets -> Nat]: the tokens in the session's `sem` channel
  streamSem   \* [Sockets -> Nat]: the tokens in its `streamSem` channel

sems == <<sem, streamSem>>
clientVars ==
  <<session, dials, backoff, op, home, reply, cancelled, pumping, chunks, out, sems>>

OpState ==
  {"none",       \* no request frame read
   "queued",     \* waiting for a slot
   "running",    \* holds a slot, handler executing
   "answering",  \* holds a slot, blocked on `out` with its terminal frame
   "panicked",   \* slot given back by the panic, blocked on `out` with an err
   "done",       \* returned after it ran
   "dropped"}    \* returned, or died, without having run

Registered == {"queued", "running", "answering"}   \* its cancel is in `inflight`
Holding == {"running", "answering"}                \* between its token's send and receive
Live == Registered \cup {"panicked"}               \* its goroutine exists

ClientTypeOK ==
  /\ session \in Sockets \cup {NoSocket}
  /\ dials \in 0 .. MaxDials
  /\ backoff \in MinBackoff .. MaxBackoff
  /\ op \in [Calls -> OpState]
  /\ home \in [Calls -> Sockets \cup {NoSocket}]
  /\ reply \in [Calls -> Terminal \cup {"none"}]
  /\ cancelled \subseteq Calls
  /\ pumping \subseteq Streams
  /\ chunks \in [Streams -> 0 .. MaxChunks]
  /\ out \in [Sockets -> Seq(DaemonFrame)]
  /\ sem \in [Sockets -> Nat]
  /\ streamSem \in [Sockets -> Nat]

ClientInit ==
  /\ session = NoSocket
  /\ dials = 0
  /\ backoff = MinBackoff
  /\ op = [c \in Calls |-> "none"]
  /\ home = [c \in Calls |-> NoSocket]
  /\ reply = [c \in Calls |-> "none"]
  /\ cancelled = {}
  /\ pumping = {}
  /\ chunks = [c \in Streams |-> 0]
  /\ out = [s \in Sockets |-> <<>>]
  /\ sem = [s \in Sockets |-> 0]
  /\ streamSem = [s \in Sockets |-> 0]

(***************************************************************************)
(* Run and serveOnce.                                                       *)
(***************************************************************************)
Doubled(b) == IF 2 * b < MaxBackoff THEN 2 * b ELSE MaxBackoff

DialFails ==
  /\ session = NoSocket
  /\ backoff' = Doubled(backoff)
  /\ UNCHANGED <<session, dials, op, home, reply, cancelled, pumping, chunks, out, sems>>
  /\ UNCHANGED wireVars

\* The upgrade succeeds: both ends are open, and the panel's open hook starts.
\* A dial given up after the panel accepted it is a Dial, then a SessionEnds.
Dial(s) ==
  /\ session = NoSocket
  /\ s = dials + 1
  /\ session' = s
  /\ dials' = s
  /\ panelEnd' = [panelEnd EXCEPT ![s] = "open"]
  /\ daemonEnd' = [daemonEnd EXCEPT ![s] = "open"]
  /\ UNCHANGED <<backoff, op, home, reply, cancelled, pumping, chunks, out, sems>>
  /\ UNCHANGED <<toDaemon, toPanel>>

NotCancelled(s) == {}
LiveIn(s) == {c \in Calls : home[c] = s /\ op[c] \in Live}

\* What the end of a session takes with it: the connection, what was not read
\* from it, and the frames the writer had not written.
Disconnect(s) ==
  /\ session' = NoSocket
  /\ daemonEnd' = [daemonEnd EXCEPT ![s] = "closed"]
  /\ toDaemon' = [toDaemon EXCEPT ![s] = <<>>]
  /\ out' = [out EXCEPT ![s] = <<>>]
  /\ UNCHANGED <<panelEnd, toPanel>>

\* The read loop fails (peer gone, network, a write that timed out and closed
\* the connection): connCtx is cancelled under every goroutine of the session.
SessionEnds(s) ==
  /\ session = s
  /\ Disconnect(s)
  /\ cancelled' = cancelled \cup LiveIn(s)
  /\ backoff' \in {MinBackoff, Doubled(backoff)}  \* stable session or not
  /\ UNCHANGED <<dials, op, home, reply, pumping, chunks, sems>>

\* The daemon process dies and is started again: no goroutine survives.
Restart ==
  /\ IF session = NoSocket
       THEN UNCHANGED <<session, out>> /\ UNCHANGED wireVars
       ELSE Disconnect(session)
  /\ op' = [c \in Calls |-> CASE op[c] = "queued" -> "dropped"
                             [] op[c] \in Live \ {"queued"} -> "done"
                             [] OTHER -> op[c]]
  /\ reply' = [c \in Calls |-> "none"]
  /\ cancelled' = {}
  /\ pumping' = {}
  /\ backoff' = MinBackoff
  /\ sem' = [s \in Sockets |-> 0]
  /\ streamSem' = [s \in Sockets |-> 0]
  /\ UNCHANGED <<dials, home, chunks>>

(***************************************************************************)
(* The read loop: it registers a request's cancel function and starts its   *)
(* goroutine; it never waits for a slot.                                    *)
(***************************************************************************)
Slots(c) == IF c \in Streams THEN MaxStreams ELSE MaxConcurrent
\* The channel of tokens request c uses: the streams have one of their own.
Taken(c) == IF c \in Streams THEN streamSem[home[c]] ELSE sem[home[c]]
Counts(c, n) ==
  IF c \in Streams
    THEN streamSem' = [streamSem EXCEPT ![home[c]] = n] /\ UNCHANGED sem
    ELSE sem' = [sem EXCEPT ![home[c]] = n] /\ UNCHANGED streamSem

\* The slot acquired in the read loop, instead of in the goroutine.
ReadBlocksForSlot(s) ==
  /\ session = s
  /\ toDaemon[s] # <<>>
  /\ LET c == Head(toDaemon[s]).id IN
       Head(toDaemon[s]).kind = "req" =>
         (IF c \in Streams THEN streamSem[s] ELSE sem[s]) < Slots(c)
MayRead(s) == session = s /\ toDaemon[s] # <<>>

ReadFrame(s) ==
  /\ MayRead(s)
  /\ LET f == Head(toDaemon[s]) IN
       \/ /\ f.kind = "req"
          /\ op' = [op EXCEPT ![f.id] = "queued"]
          /\ home' = [home EXCEPT ![f.id] = s]
          /\ UNCHANGED cancelled
       \/ /\ f.kind = "cancel"
          /\ cancelled' = IF home[f.id] = s /\ op[f.id] \in Registered
                            THEN cancelled \cup {f.id} ELSE cancelled
          /\ UNCHANGED <<op, home>>
  /\ toDaemon' = [toDaemon EXCEPT ![s] = Tail(@)]
  /\ UNCHANGED <<session, dials, backoff, reply, pumping, chunks, out, sems>>
  /\ UNCHANGED <<panelEnd, daemonEnd, toPanel>>

(***************************************************************************)
(* handleRequest / handleStream: the goroutine of request c.                *)
(***************************************************************************)
\* `sem <- struct{}{}` waits while the channel is full, `<-sem` while it is empty.
Takes(c) == Taken(c) < Slots(c) /\ Counts(c, Taken(c) + 1)

\* The release written out after the answer, instead of deferred.
ReleasesUnlessPanic(c) ==
  IF op'[c] = "panicked" THEN UNCHANGED sems ELSE Taken(c) > 0 /\ Counts(c, Taken(c) - 1)
Releases(c) == Taken(c) > 0 /\ Counts(c, Taken(c) - 1)

\* The select picks the slot even if reqCtx is done too.
Acquire(c) ==
  /\ op[c] = "queued"
  /\ Takes(c)
  /\ op' = [op EXCEPT ![c] = "running"]
  /\ pumping' = pumping \cup ({c} \cap Streams)
  /\ UNCHANGED <<session, dials, backoff, home, reply, cancelled, chunks, out>>
  /\ UNCHANGED wireVars

\* Cancelled while waiting: return without an answer.
Drop(c) ==
  /\ op[c] = "queued"
  /\ c \in cancelled
  /\ op' = [op EXCEPT ![c] = "dropped"]
  /\ cancelled' = cancelled \ {c}
  /\ UNCHANGED <<session, dials, backoff, home, reply, pumping, chunks, out, sems>>
  /\ UNCHANGED wireVars

\* A control request: Dispatch captures whatever the handler answers as a res;
\* an err is for a payload that does not bind or an answer that does not encode.
DispatchReturns(c) ==
  /\ c \in Unary
  /\ op[c] = "running"
  /\ op' = [op EXCEPT ![c] = "answering"]
  /\ \E r \in Terminal : reply' = [reply EXCEPT ![c] = r]
  /\ UNCHANGED <<session, dials, backoff, home, cancelled, pumping, chunks, out, sems>>
  /\ UNCHANGED wireVars

\* A stream: StreamConsole returns as soon as reqCtx is done or one of its two
\* pumps ends; a cancelled stream is closed out with a res.
StreamReturns(c) ==
  /\ c \in Streams
  /\ op[c] = "running"
  /\ op' = [op EXCEPT ![c] = "answering"]
  /\ \E r \in Terminal :
       /\ c \in cancelled => r = "res"
       /\ reply' = [reply EXCEPT ![c] = r]
  /\ UNCHANGED <<session, dials, backoff, home, cancelled, pumping, chunks, out, sems>>
  /\ UNCHANGED wireVars

\* The handler panics: the deferred calls release the slot, drop the cancel
\* function and answer with an err, in that order.
Panics(c) ==
  /\ op[c] = "running"
  /\ op' = [op EXCEPT ![c] = "panicked"]
  /\ Releases(c)
  /\ reply' = [reply EXCEPT ![c] = "err"]
  /\ UNCHANGED <<session, dials, backoff, home, cancelled, pumping, chunks, out>>
  /\ UNCHANGED wireVars

\* Without the return after the error path, the goroutine answers again.
NoReturn(c) == IF reply[c] = "err" THEN op[c] ELSE "done"
AfterAnswer(c) == "done"

\* send: queue the terminal frame, or give up when the session is over; then the
\* deferred calls give the slot back (the panic has done so before it answers).
Answer(c) ==
  /\ op[c] \in {"answering", "panicked"}
  /\ IF home[c] = session
       THEN /\ Len(out[session]) < OutCap
            /\ out' = [out EXCEPT ![session] = Append(@, [kind |-> reply[c], id |-> c])]
       ELSE UNCHANGED out
  /\ op' = [op EXCEPT ![c] = AfterAnswer(c)]
  /\ IF op[c] = "answering" THEN Releases(c) ELSE UNCHANGED sems
  /\ cancelled' = cancelled \ {c}
  /\ UNCHANGED <<session, dials, backoff, home, reply, pumping, chunks>>
  /\ UNCHANGED wireVars

(***************************************************************************)
(* The pumps of a stream are goroutines of their own.  The handler returns  *)
(* when the first of them ends, so the other may still hold lines to emit;  *)
(* its select may take `out` even when reqCtx is done.                      *)
(***************************************************************************)
MayEmit(c) == c \in pumping /\ home[c] = session

EmitChunk(c) ==
  /\ MayEmit(c)
  /\ Len(out[session]) < OutCap
  /\ chunks[c] < MaxChunks
  /\ out' = [out EXCEPT ![session] = Append(@, [kind |-> "chunk", id |-> c])]
  /\ chunks' = [chunks EXCEPT ![c] = @ + 1]
  /\ UNCHANGED <<session, dials, backoff, op, home, reply, cancelled, pumping, sems>>
  /\ UNCHANGED wireVars

PumpsStop(c) ==
  /\ c \in pumping
  /\ op[c] # "running"
  /\ pumping' = pumping \ {c}
  /\ UNCHANGED <<session, dials, backoff, op, home, reply, cancelled, chunks, out, sems>>
  /\ UNCHANGED wireVars

\* writeLoop: one frame from `out` to the socket.
WriteFrame(s) ==
  /\ session = s
  /\ out[s] # <<>>
  /\ toPanel' = SentToPanel(s, Head(out[s]))
  /\ out' = [out EXCEPT ![s] = Tail(@)]
  /\ UNCHANGED <<session, dials, backoff, op, home, reply, cancelled, pumping, chunks, sems>>
  /\ UNCHANGED <<panelEnd, daemonEnd, toDaemon>>

ClientNext ==
  \/ DialFails \/ Restart
  \/ \E s \in Sockets : Dial(s) \/ SessionEnds(s) \/ ReadFrame(s) \/ WriteFrame(s)
  \/ \E c \in Calls : Acquire(c) \/ Drop(c) \/ Panics(c) \/ Answer(c)
  \/ \E c \in Unary : DispatchReturns(c)
  \/ \E c \in Streams : StreamReturns(c) \/ EmitChunk(c) \/ PumpsStop(c)
=============================================================================
