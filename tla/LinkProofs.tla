----------------------------- MODULE LinkProofs -----------------------------
(***************************************************************************)
(* Theorems about Link, for any number of sockets and any sets of calls.    *)
(***************************************************************************)
EXTENDS Link, FiniteSetTheorems, TLAPS

USE DEF Calls, Sockets, NoSocket, sems

(***************************************************************************)
(* The wire operators keep the channels well typed.                         *)
(***************************************************************************)
LEMMA SentToDaemonType ==
  ASSUME WireTypeOK, NEW s \in Sockets \cup {NoSocket}, NEW f \in PanelFrame
  PROVE  SentToDaemon(s, f) \in [Sockets -> Seq(PanelFrame)]
<1>1. CASE s \in Sockets
  BY <1>1 DEF SentToDaemon, WireTypeOK
<1>2. CASE s \notin Sockets
  BY <1>2 DEF SentToDaemon, WireTypeOK
<1> QED BY <1>1, <1>2

LEMMA SentToPanelType ==
  ASSUME WireTypeOK, NEW s \in Sockets, NEW f \in DaemonFrame
  PROVE  SentToPanel(s, f) \in [Sockets -> Seq(DaemonFrame)]
BY DEF SentToPanel, WireTypeOK

LEMMA ClosingType ==
  ASSUME WireTypeOK, NEW s \in Sockets
  PROVE  Closing(s) \in [Sockets -> End]
BY DEF Closing, WireTypeOK, End

LEMMA HubStepType ==
  ASSUME TypeOK, HubNext, UNCHANGED clientVars
  PROVE  TypeOK'
<1> USE DEF TypeOK, HubTypeOK, CallState
<1>1. ClientTypeOK'
  BY DEF ClientTypeOK, clientVars
<1>2. ASSUME NEW s \in Sockets, Register(s)  PROVE WireTypeOK' /\ HubTypeOK'
  BY <1>2, ClosingType DEF Register, WireTypeOK, ClosedAll, BrowsersClosed
<1>3. ASSUME NEW s \in Sockets, Refuse(s)  PROVE WireTypeOK' /\ HubTypeOK'
  BY <1>3, ClosingType DEF Refuse, WireTypeOK
<1>4. ASSUME NEW s \in Sockets, Message(s)  PROVE WireTypeOK' /\ HubTypeOK'
  <2>1. Head(toPanel[s]) \in DaemonFrame /\ Tail(toPanel[s]) \in Seq(DaemonFrame)
    BY <1>4 DEF Message, WireTypeOK
  <2>2. call' \in [Calls -> CallState]
    BY <1>4, <2>1 DEF Message, Handled, DaemonFrame
  <2>3. relay' \in [Streams -> {"idle", "resolving", "abandoned", "attached", "closed"}]
    BY <1>4 DEF Message, BrowsersClosed
  <2>4. WireTypeOK'
    BY <1>4, <2>1 DEF Message, WireTypeOK
  <2> QED BY <1>4, <2>2, <2>3, <2>4 DEF Message
<1>5. ASSUME NEW s \in Sockets, Closed(s)  PROVE WireTypeOK' /\ HubTypeOK'
  <2>1. panelEnd' \in [Sockets -> End]
    <3>1. CASE IsCurrent(s)
      <4>1. panelEnd' = [Closing(s) EXCEPT ![s] = "closed"]
        BY <1>5, <3>1 DEF Closed, IsCurrent
      <4> QED BY <4>1, ClosingType DEF End
    <3>2. CASE ~IsCurrent(s)
      BY <1>5, <3>2 DEF Closed, WireTypeOK, End
    <3> QED BY <3>1, <3>2
  <2>2. toPanel' \in [Sockets -> Seq(DaemonFrame)]
    <3>1. <<>> \in Seq(DaemonFrame)
      OBVIOUS
    <3> QED BY <1>5, <3>1 DEF Closed, WireTypeOK
  <2>3. WireTypeOK'
    BY <1>5, <2>1, <2>2 DEF Closed, WireTypeOK
  <2> QED BY <1>5, <2>3 DEF Closed, ClosedAll, BrowsersClosed
<1>6. ASSUME NEW c \in Calls, Refused(c)
      PROVE  call' \in [Calls -> CallState] /\ via' = via /\ toDaemon' = toDaemon
  BY <1>6 DEF Refused
<1>7. ASSUME NEW c \in Calls, Sent(c)
      PROVE  /\ call' \in [Calls -> CallState]
             /\ via' \in [Calls -> Sockets \cup {NoSocket}]
             /\ toDaemon' \in [Sockets -> Seq(PanelFrame)]
  BY <1>7, SentToDaemonType DEF Sent, PanelFrame
<1>8. ASSUME NEW c \in Unary, Request(c)  PROVE WireTypeOK' /\ HubTypeOK'
  BY <1>6, <1>7, <1>8 DEF Request, WireTypeOK
<1>9. ASSUME NEW c \in Unary, Timeout(c)  PROVE WireTypeOK' /\ HubTypeOK'
  BY <1>9 DEF Timeout, WireTypeOK, wireVars
<1>10. ASSUME NEW c \in Streams, BrowserOpens(c) \/ BrowserDenied(c)
       PROVE  WireTypeOK' /\ HubTypeOK'
  BY <1>10 DEF BrowserOpens, BrowserDenied, WireTypeOK, wireVars
<1>11. ASSUME NEW c \in Streams, BrowserAttaches(c)  PROVE WireTypeOK' /\ HubTypeOK'
  BY <1>6, <1>7, <1>11 DEF BrowserAttaches, WireTypeOK
<1>12. ASSUME NEW c \in Streams, BrowserLeaves(c)  PROVE WireTypeOK' /\ HubTypeOK'
  <2>1. via[c] \in Sockets \cup {NoSocket} /\ [kind |-> "cancel", id |-> c] \in PanelFrame
    BY DEF PanelFrame
  <2>2. toDaemon' \in [Sockets -> Seq(PanelFrame)]
    <3>1. CASE UNCHANGED toDaemon
      BY <3>1 DEF WireTypeOK
    <3>2. CASE toDaemon' = SentToDaemon(via[c], [kind |-> "cancel", id |-> c])
      BY <3>2, <2>1, SentToDaemonType
    <3> QED BY <1>12, <3>1, <3>2 DEF BrowserLeaves
  <2> QED BY <1>12, <2>2 DEF BrowserLeaves, WireTypeOK
<1> QED
  BY <1>1, <1>2, <1>3, <1>4, <1>5, <1>8, <1>9, <1>10, <1>11, <1>12 DEF HubNext

(***************************************************************************)
(* The daemon's half.  TypeOK alone is not inductive: an answer is typed   *)
(* only because the goroutine set its reply on the way (ReplyReady).        *)
(***************************************************************************)
LEMMA DoubledType ==
  ASSUME NEW b \in MinBackoff .. MaxBackoff
  PROVE  Doubled(b) \in MinBackoff .. MaxBackoff
BY ClientAssumption DEF Doubled

LEMMA DisconnectType ==
  ASSUME TypeOK, NEW s \in Sockets, Disconnect(s)
  PROVE  /\ WireTypeOK'
         /\ session' \in Sockets \cup {NoSocket}
         /\ out' \in [Sockets -> Seq(DaemonFrame)]
<1>1. <<>> \in Seq(DaemonFrame) /\ <<>> \in Seq(PanelFrame)
  OBVIOUS
<1> QED BY <1>1 DEF Disconnect, TypeOK, WireTypeOK, ClientTypeOK

LEMMA QueuedType ==
  ASSUME ClientTypeOK, NEW f \in DaemonFrame
  PROVE  [out EXCEPT ![session] = Append(@, f)] \in [Sockets -> Seq(DaemonFrame)]
<1>0. out \in [Sockets -> Seq(DaemonFrame)]
  BY DEF ClientTypeOK
<1>1. CASE session \in Sockets
  BY <1>0, <1>1
<1>2. CASE session \notin Sockets
  BY <1>0, <1>2
<1> QED BY <1>1, <1>2

\* Taking a token and giving one back keep the two channels' counts natural.
LEMMA CountsType ==
  ASSUME ClientTypeOK, NEW c \in Calls, Takes(c) \/ Releases(c) \/ UNCHANGED sems
  PROVE  sem' \in [Sockets -> Nat] /\ streamSem' \in [Sockets -> Nat]
<1> USE DEF ClientTypeOK
<1>1. CASE UNCHANGED sems
  BY <1>1
<1>2. CASE home[c] \in Sockets
  <2>1. sem[home[c]] \in Nat /\ streamSem[home[c]] \in Nat /\ Taken(c) \in Nat
    BY <1>2 DEF Taken
  <2>2. ASSUME NEW n \in Nat
        PROVE  /\ [sem EXCEPT ![home[c]] = n] \in [Sockets -> Nat]
               /\ [streamSem EXCEPT ![home[c]] = n] \in [Sockets -> Nat]
    OBVIOUS
  <2>3. ASSUME NEW n \in Nat, Counts(c, n)
        PROVE  sem' \in [Sockets -> Nat] /\ streamSem' \in [Sockets -> Nat]
    BY <2>2, <2>3 DEF Counts
  <2>4. Taken(c) + 1 \in Nat /\ (Taken(c) > 0 => Taken(c) - 1 \in Nat)
    BY <2>1
  <2> QED BY <1>1, <2>3, <2>4 DEF Takes, Releases
<1>3. CASE home[c] \notin Sockets
  <2>1. ASSUME NEW n  PROVE [sem EXCEPT ![home[c]] = n] = sem /\ [streamSem EXCEPT ![home[c]] = n] = streamSem
    BY <1>3
  <2>2. ASSUME NEW n, Counts(c, n)  PROVE UNCHANGED sems
    BY <2>1, <2>2 DEF Counts
  <2>3. UNCHANGED sems
    BY <2>2 DEF Takes, Releases
  <2> QED BY <1>1, <2>3
<1> QED BY <1>2, <1>3

LEMMA ClientStepType ==
  ASSUME TypeOK, ReplyReady, ClientNext, UNCHANGED hubVars
  PROVE  TypeOK'
<1> USE DEF TypeOK, ClientTypeOK
<1>1. HubTypeOK'
  BY DEF HubTypeOK, hubVars
<1>2. CASE DialFails
  BY <1>1, <1>2, DoubledType DEF DialFails, WireTypeOK, wireVars
<1>3. CASE Restart
  <2>1. WireTypeOK' /\ session' \in Sockets \cup {NoSocket} /\ out' \in [Sockets -> Seq(DaemonFrame)]
    <3>1. CASE session = NoSocket
      BY <1>3, <3>1 DEF Restart, WireTypeOK, wireVars
    <3>2. CASE session # NoSocket
      BY <1>3, <3>2, DisconnectType DEF Restart
    <3> QED BY <3>1, <3>2
  <2>2. op' \in [Calls -> OpState]
    BY <1>3 DEF Restart, OpState, Live, Registered
  <2>3. backoff' \in MinBackoff .. MaxBackoff
    BY <1>3, ClientAssumption DEF Restart
  <2> QED BY <1>1, <1>3, <2>1, <2>2, <2>3 DEF Restart
<1>4. ASSUME NEW s \in Sockets, Dial(s)  PROVE WireTypeOK' /\ ClientTypeOK'
  <2>1. WireTypeOK'
    BY <1>4 DEF Dial, WireTypeOK, End
  <2>2. session' \in Sockets /\ dials' \in 0 .. MaxDials
    BY <1>4, DialsAssumption DEF Dial
  <2> QED BY <1>4, <2>1, <2>2 DEF Dial
<1>5. ASSUME NEW s \in Sockets, SessionEnds(s)  PROVE WireTypeOK' /\ ClientTypeOK'
  <2>1. backoff' \in MinBackoff .. MaxBackoff
    BY <1>5, DoubledType, ClientAssumption DEF SessionEnds
  <2>2. cancelled' \subseteq Calls
    BY <1>5 DEF SessionEnds, LiveIn
  <2> QED BY <1>5, <2>1, <2>2, DisconnectType DEF SessionEnds
<1>6. ASSUME NEW s \in Sockets, ReadFrame(s)  PROVE WireTypeOK' /\ ClientTypeOK'
  <2>1. Head(toDaemon[s]) \in PanelFrame /\ Tail(toDaemon[s]) \in Seq(PanelFrame)
    BY <1>6 DEF ReadFrame, MayRead, WireTypeOK
  <2>2. WireTypeOK'
    BY <1>6, <2>1 DEF ReadFrame, WireTypeOK
  <2>3. Head(toDaemon[s]).id \in Calls
    BY <2>1 DEF PanelFrame
  <2> HIDE DEF TypeOK, ClientTypeOK
  <2>4. op \in [Calls -> OpState] /\ home \in [Calls -> Sockets \cup {NoSocket}] /\ cancelled \subseteq Calls
    BY DEF TypeOK, ClientTypeOK
  <2>5. op' \in [Calls -> OpState] /\ home' \in [Calls -> Sockets \cup {NoSocket}] /\ cancelled' \subseteq Calls
    BY <1>6, <2>3, <2>4 DEF ReadFrame, OpState
  <2> QED BY <1>6, <2>2, <2>5 DEF ReadFrame, TypeOK, ClientTypeOK
<1>7. ASSUME NEW s \in Sockets, WriteFrame(s)  PROVE WireTypeOK' /\ ClientTypeOK'
  <2>1. Head(out[s]) \in DaemonFrame /\ Tail(out[s]) \in Seq(DaemonFrame)
    BY <1>7 DEF WriteFrame
  <2>2. toPanel' \in [Sockets -> Seq(DaemonFrame)]
    BY <1>7, <2>1, SentToPanelType DEF WriteFrame
  <2> QED BY <1>7, <2>1, <2>2 DEF WriteFrame, WireTypeOK
<1>8. ASSUME NEW c \in Calls, Acquire(c)  PROVE WireTypeOK' /\ ClientTypeOK'
  BY <1>8, CountsType DEF Acquire, OpState, WireTypeOK, wireVars
<1>9. ASSUME NEW c \in Calls, Drop(c)  PROVE WireTypeOK' /\ ClientTypeOK'
  BY <1>9 DEF Drop, OpState, WireTypeOK, wireVars
<1>10. ASSUME NEW c \in Calls, Panics(c)  PROVE WireTypeOK' /\ ClientTypeOK'
  BY <1>10, CountsType DEF Panics, OpState, Terminal, WireTypeOK, wireVars
<1>11. ASSUME NEW c \in Calls, Answer(c)  PROVE WireTypeOK' /\ ClientTypeOK'
  <2>1. op' \in [Calls -> OpState]
    BY <1>11 DEF Answer, AfterAnswer, OpState
  <2>2. out' \in [Sockets -> Seq(DaemonFrame)]
    <3>1. [kind |-> reply[c], id |-> c] \in DaemonFrame
      BY <1>11 DEF ReplyReady, Answer, Terminal, DaemonFrame
    <3> QED BY <1>11, <3>1, QueuedType DEF Answer
  <2>3. sem' \in [Sockets -> Nat] /\ streamSem' \in [Sockets -> Nat]
    BY <1>11, CountsType DEF Answer
  <2> QED BY <1>11, <2>1, <2>2, <2>3 DEF Answer, WireTypeOK, wireVars
<1>12. ASSUME NEW c \in Unary, DispatchReturns(c)  PROVE WireTypeOK' /\ ClientTypeOK'
  BY <1>12 DEF DispatchReturns, OpState, WireTypeOK, wireVars
<1>13. ASSUME NEW c \in Streams, StreamReturns(c)  PROVE WireTypeOK' /\ ClientTypeOK'
  BY <1>13 DEF StreamReturns, OpState, WireTypeOK, wireVars
<1>14. ASSUME NEW c \in Streams, EmitChunk(c)  PROVE WireTypeOK' /\ ClientTypeOK'
  <2>1. chunks' \in [Streams -> 0 .. MaxChunks]
    BY <1>14, ClientAssumption DEF EmitChunk
  <2>2. [kind |-> "chunk", id |-> c] \in DaemonFrame
    BY DEF DaemonFrame
  <2>3. out' \in [Sockets -> Seq(DaemonFrame)]
    BY <1>14, <2>2, QueuedType DEF EmitChunk
  <2> QED BY <1>14, <2>1, <2>3 DEF EmitChunk, WireTypeOK, wireVars
<1>15. ASSUME NEW c \in Streams, PumpsStop(c)  PROVE WireTypeOK' /\ ClientTypeOK'
  BY <1>15 DEF PumpsStop, WireTypeOK, wireVars
<1> QED
  BY <1>1, <1>2, <1>3, <1>4, <1>5, <1>6, <1>7, <1>8, <1>9, <1>10, <1>11, <1>12,
     <1>13, <1>14, <1>15 DEF ClientNext

LEMMA ReplyReadyStep ==
  ASSUME TypeOK, ReplyReady, [Next]_vars
  PROVE  ReplyReady'
<1> SUFFICES ASSUME NEW c \in Calls, op'[c] \in {"answering", "panicked"}
             PROVE  reply'[c] \in Terminal
  BY DEF ReplyReady
<1> USE DEF TypeOK, ClientTypeOK, ReplyReady, Terminal
<1>1. CASE HubNext /\ UNCHANGED clientVars
  BY <1>1 DEF clientVars
<1>2. CASE UNCHANGED vars
  BY <1>2 DEF vars, clientVars
<1>3. CASE ClientNext
  <2>1. CASE DialFails
    BY <2>1 DEF DialFails
  <2>2. CASE Restart
    BY <2>2 DEF Restart, Live, Registered
  <2>3. ASSUME NEW s \in Sockets, Dial(s) \/ SessionEnds(s) \/ WriteFrame(s)
        PROVE  UNCHANGED <<op, reply>>
    BY <2>3 DEF Dial, SessionEnds, WriteFrame
  <2>4. ASSUME NEW s \in Sockets, ReadFrame(s)  PROVE reply'[c] \in Terminal
    BY <2>4 DEF ReadFrame
  <2>5. ASSUME NEW d \in Calls, Acquire(d) \/ Drop(d)  PROVE reply'[c] \in Terminal
    BY <2>5 DEF Acquire, Drop
  <2>6. ASSUME NEW d \in Calls, Panics(d) \/ Answer(d)  PROVE reply'[c] \in Terminal
    BY <2>6 DEF Panics, Answer, AfterAnswer
  <2>7. ASSUME NEW d \in Unary, DispatchReturns(d)  PROVE reply'[c] \in Terminal
    BY <2>7 DEF DispatchReturns
  <2>8. ASSUME NEW d \in Streams, StreamReturns(d)  PROVE reply'[c] \in Terminal
    BY <2>8 DEF StreamReturns
  <2>9. ASSUME NEW d \in Streams, EmitChunk(d) \/ PumpsStop(d)  PROVE UNCHANGED <<op, reply>>
    BY <2>9 DEF EmitChunk, PumpsStop
  <2> QED
    BY <1>3, <2>1, <2>2, <2>3, <2>4, <2>5, <2>6, <2>7, <2>8, <2>9 DEF ClientNext
<1> QED BY <1>1, <1>2, <1>3 DEF Next

LEMMA TypeInit == Init => TypeOK /\ ReplyReady
<1> SUFFICES ASSUME Init PROVE TypeOK /\ ReplyReady
  OBVIOUS
<1>1. <<>> \in Seq(PanelFrame) /\ <<>> \in Seq(DaemonFrame)
  OBVIOUS
<1>2. WireTypeOK
  BY <1>1 DEF Init, WireInit, WireTypeOK, End
<1>3. HubTypeOK
  BY DEF Init, HubInit, HubTypeOK, CallState
<1>4. ClientTypeOK
  BY <1>1, DialsAssumption, ClientAssumption DEF Init, ClientInit, ClientTypeOK, OpState
<1>5. ReplyReady
  BY DEF Init, ClientInit, ReplyReady
<1> QED BY <1>2, <1>3, <1>4, <1>5 DEF TypeOK

LEMMA TypeStep ==
  ASSUME TypeOK, ReplyReady, [Next]_vars
  PROVE  TypeOK' /\ ReplyReady'
<1>1. CASE UNCHANGED vars
  BY <1>1 DEF vars, wireVars, hubVars, clientVars, TypeOK, WireTypeOK, HubTypeOK,
     ClientTypeOK, ReplyReady
<1>2. TypeOK'
  BY <1>1, HubStepType, ClientStepType DEF Next
<1> QED BY <1>2, ReplyReadyStep

\* Every reachable state of the link is well typed: frames on the wire are for
\* calls that exist, and no goroutine answers before it has an answer.
THEOREM TypeCorrect == Spec => [](TypeOK /\ ReplyReady)
BY TypeInit, TypeStep, PTL DEF Spec

(***************************************************************************)
(* The registry.  Only registered sockets are current, so what Closing      *)
(* touches in Register is a socket that is superseded by another one.       *)
(***************************************************************************)
LEMMA EntryRegisteredStep ==
  ASSUME TypeOK, EntryRegistered, [Next]_vars
  PROVE  EntryRegistered'
<1> USE DEF EntryRegistered, TypeOK, HubTypeOK
<1>1. ASSUME NEW s \in Sockets, Register(s)  PROVE EntryRegistered'
  BY <1>1 DEF Register
<1>2. ASSUME NEW s \in Sockets, Refuse(s)  PROVE EntryRegistered'
  BY <1>2 DEF Refuse, MayRegister
<1>3. ASSUME NEW s \in Sockets, Message(s) \/ Closed(s)  PROVE EntryRegistered'
  BY <1>3 DEF Message, Closed
<1>4. ASSUME NEW c \in Unary, Request(c) \/ Timeout(c)  PROVE UNCHANGED <<entry, auth>>
  BY <1>4 DEF Request, Timeout
<1>5. ASSUME NEW c \in Streams, BrowserOpens(c) \/ BrowserDenied(c) \/ BrowserAttaches(c) \/ BrowserLeaves(c)
      PROVE  UNCHANGED <<entry, auth>>
  BY <1>5 DEF BrowserOpens, BrowserDenied, BrowserAttaches, BrowserLeaves
<1>6. CASE UNCHANGED hubVars
  BY <1>6 DEF hubVars
<1> QED BY <1>1, <1>2, <1>3, <1>4, <1>5, <1>6 DEF Next, HubNext, vars

LEMMA NoOrphanStep ==
  ASSUME TypeOK, NoOrphanCalls, [Next]_vars
  PROVE  NoOrphanCalls'
<1> SUFFICES ASSUME NEW c \in Calls, call'[c] = "open"
             PROVE  entry' # NoSocket /\ via'[c] = entry'
  BY DEF NoOrphanCalls
<1> USE DEF NoOrphanCalls, TypeOK, HubTypeOK
<1>1. ASSUME NEW s \in Sockets, Register(s)  PROVE FALSE
  BY <1>1 DEF Register, ClosedAll, InFlight
<1>2. ASSUME NEW s \in Sockets, Refuse(s)  PROVE UNCHANGED <<call, via, entry>>
  BY <1>2 DEF Refuse
<1>3. ASSUME NEW s \in Sockets, Message(s)
      PROVE  call[c] = "open" /\ UNCHANGED <<via, entry>>
  BY <1>3 DEF Message, Handled, InFlight
<1>4. ASSUME NEW s \in Sockets, Closed(s)
      PROVE  call[c] = "open" /\ UNCHANGED <<via, entry>>
  BY <1>4 DEF Closed, ClosedAll, InFlight
<1>5. ASSUME NEW d \in Calls, Refused(d), UNCHANGED entry
      PROVE  call[c] = "open" /\ UNCHANGED <<via, entry>>
  BY <1>5 DEF Refused
<1>6. ASSUME NEW d \in Calls, Sent(d), UNCHANGED entry
      PROVE  entry' # NoSocket /\ via'[c] = entry'
  BY <1>6 DEF Sent
<1>7. ASSUME NEW d \in Unary, Request(d)  PROVE entry' # NoSocket /\ via'[c] = entry'
  BY <1>5, <1>6, <1>7 DEF Request
<1>8. ASSUME NEW d \in Unary, Timeout(d)
      PROVE  call[c] = "open" /\ UNCHANGED <<via, entry>>
  BY <1>8 DEF Timeout
<1>9. ASSUME NEW d \in Streams, BrowserOpens(d) \/ BrowserDenied(d)  PROVE UNCHANGED <<call, via, entry>>
  BY <1>9 DEF BrowserOpens, BrowserDenied
<1>10. ASSUME NEW d \in Streams, BrowserAttaches(d)
       PROVE  entry' # NoSocket /\ via'[c] = entry'
  BY <1>5, <1>6, <1>10 DEF BrowserAttaches
<1>11. ASSUME NEW d \in Streams, BrowserLeaves(d)
       PROVE  call[c] = "open" /\ UNCHANGED <<via, entry>>
  BY <1>11 DEF BrowserLeaves
<1>12. CASE UNCHANGED hubVars
  BY <1>12 DEF hubVars
<1> QED
  BY <1>1, <1>2, <1>3, <1>4, <1>7, <1>8, <1>9, <1>10, <1>11, <1>12 DEF Next, HubNext, vars

\* No caller waits on a Connection the hub no longer routes frames to: every
\* path that drops or replaces the hub's entry fails the calls in flight on it.
THEOREM NoOrphan == Spec => []NoOrphanCalls
<1>1. Init => NoOrphanCalls
  BY DEF Init, HubInit, NoOrphanCalls
<1>2. TypeOK /\ NoOrphanCalls /\ [Next]_vars => NoOrphanCalls'
  BY NoOrphanStep
<1> QED BY <1>1, <1>2, TypeCorrect, PTL DEF Spec

LEMMA ClosesOnlySupersededStep ==
  ASSUME TypeOK, EntryRegistered, [Next]_vars, NEW s \in Sockets,
         panelEnd[s] = "open", panelEnd'[s] = "closing"
  PROVE  auth'[s] = "refused" \/ entry' \notin {s, NoSocket}
<1> USE DEF TypeOK, WireTypeOK, HubTypeOK
<1>1. ASSUME NEW r \in Sockets, Register(r)
      PROVE  entry' \notin {s, NoSocket}
  <2>1. entry = s /\ entry' = r
    BY <1>1 DEF Register, Closing
  <2> QED BY <1>1, <2>1 DEF Register, MayRegister, EntryRegistered
<1>2. ASSUME NEW r \in Sockets, Refuse(r)  PROVE auth'[s] = "refused"
  BY <1>2 DEF Refuse, Closing
<1>3. ASSUME NEW r \in Sockets, Closed(r)  PROVE FALSE
  BY <1>3 DEF Closed, Closing, IsCurrent
<1>4. ASSUME NEW r \in Sockets, Dial(r)  PROVE FALSE
  BY <1>4 DEF Dial
<1>5. CASE UNCHANGED panelEnd
  BY <1>5
<1>6. ASSUME HubNext
      PROVE  \/ UNCHANGED panelEnd
             \/ \E r \in Sockets : Register(r) \/ Refuse(r) \/ Closed(r)
  BY <1>6 DEF HubNext, Message, Request, Timeout, BrowserOpens, BrowserDenied, BrowserAttaches,
     BrowserLeaves, wireVars
<1>7. ASSUME ClientNext
      PROVE  UNCHANGED panelEnd \/ \E r \in Sockets : Dial(r)
  BY <1>7 DEF ClientNext, DialFails, Restart, SessionEnds, Disconnect, ReadFrame,
     WriteFrame, Acquire, Drop, Panics, Answer, DispatchReturns, StreamReturns,
     EmitChunk, PumpsStop, wireVars
<1> QED BY <1>1, <1>2, <1>3, <1>4, <1>5, <1>6, <1>7 DEF Next, vars, wireVars

\* The hub closes an open socket only when it refused its key or another socket
\* has registered in its place, however late closes and frames arrive.
THEOREM OnlySupersededClosed == Spec => ClosesOnlySuperseded
<1>1. Init => EntryRegistered
  BY DEF Init, HubInit, EntryRegistered
<1>2. TypeOK /\ EntryRegistered /\ [Next]_vars
        => EntryRegistered' /\ [\A s \in Sockets :
             panelEnd[s] = "open" /\ panelEnd'[s] = "closing"
               => auth'[s] = "refused" \/ entry' \notin {s, NoSocket}]_vars
  BY EntryRegisteredStep, ClosesOnlySupersededStep
<1> QED BY <1>1, <1>2, TypeCorrect, PTL DEF Spec, ClosesOnlySuperseded

(***************************************************************************)
(* The frames of a channel after it is appended to or read from.            *)
(***************************************************************************)
In(f, q) == \E j \in DOMAIN q : q[j] = f

LEMMA AppendIn ==
  ASSUME NEW T, NEW q \in Seq(T), NEW e \in T, NEW f, In(f, Append(q, e))
  PROVE  In(f, q) \/ f = e
BY DEF In

LEMMA TailIn ==
  ASSUME NEW T, NEW q \in Seq(T), q # <<>>, NEW f, In(f, Tail(q))
  PROVE  In(f, q)
<1>1. PICK i \in DOMAIN Tail(q) : Tail(q)[i] = f
  BY DEF In
<1>2. i + 1 \in DOMAIN q /\ q[i + 1] = f
  BY <1>1
<1> QED BY <1>2 DEF In

LEMMA HeadIn ==
  ASSUME NEW T, NEW q \in Seq(T), q # <<>>
  PROVE  In(Head(q), q)
<1>1. 1 \in DOMAIN q /\ q[1] = Head(q)
  OBVIOUS
<1> QED BY <1>1 DEF In

(***************************************************************************)
(* What the steps of the link do to a call and to the goroutine behind it.  *)
(***************************************************************************)
\* RequestsFresh for the frame about to be read.
LEMMA HeadFresh ==
  ASSUME TypeOK, RequestsFresh, NEW s \in Sockets, ReadFrame(s),
         Head(toDaemon[s]).kind = "req"
  PROVE  LET c == Head(toDaemon[s]).id IN
           c \in Calls /\ op[c] = "none" /\ call[c] # "new" /\ via[c] = s
<1>1. toDaemon[s] \in Seq(PanelFrame) /\ toDaemon[s] # <<>>
  BY DEF TypeOK, WireTypeOK, ReadFrame, MayRead
<1>2. 1 \in DOMAIN toDaemon[s] /\ Head(toDaemon[s]) = toDaemon[s][1]
  BY <1>1
<1>3. Head(toDaemon[s]) \in PanelFrame
  BY <1>1
<1>4. Head(toDaemon[s]).id \in Calls
  BY <1>3 DEF PanelFrame
<1> QED BY <1>2, <1>4 DEF RequestsFresh

LEMMA CallStaysIssued ==
  ASSUME TypeOK, [Next]_vars, NEW c \in Calls, call[c] # "new"
  PROVE  call'[c] # "new"
<1> USE DEF TypeOK, HubTypeOK
<1>1. ASSUME NEW s \in Sockets, Register(s) \/ Refuse(s) \/ Message(s) \/ Closed(s)
      PROVE  call'[c] # "new"
  BY <1>1 DEF Register, Refuse, Message, Closed, ClosedAll, Handled
<1>2. ASSUME NEW d \in Unary, Request(d) \/ Timeout(d)  PROVE call'[c] # "new"
  BY <1>2 DEF Request, Timeout, Refused, Sent
<1>3. ASSUME NEW d \in Streams, BrowserOpens(d) \/ BrowserDenied(d) \/ BrowserAttaches(d) \/ BrowserLeaves(d)
      PROVE  call'[c] # "new"
  BY <1>3 DEF BrowserOpens, BrowserDenied, BrowserAttaches, BrowserLeaves, Refused, Sent
<1> QED BY <1>1, <1>2, <1>3 DEF Next, HubNext, vars, hubVars

\* Only ReadFrame starts a goroutine.
LEMMA OnlyReadStarts ==
  ASSUME TypeOK, [Next]_vars, NEW c \in Calls, op[c] = "none", op'[c] # "none"
  PROVE  \E s \in Sockets :
           ReadFrame(s) /\ Head(toDaemon[s]).kind = "req" /\ Head(toDaemon[s]).id = c
<1> USE DEF TypeOK, ClientTypeOK
<1>1. CASE UNCHANGED op
  BY <1>1
<1>2. CASE Restart
  BY <1>2 DEF Restart, Live, Registered
<1>3. ASSUME NEW s \in Sockets, ReadFrame(s)
      PROVE  Head(toDaemon[s]).kind = "req" /\ Head(toDaemon[s]).id = c
  BY <1>3 DEF ReadFrame
<1>4. ASSUME NEW d \in Calls, Acquire(d) \/ Drop(d) \/ Panics(d) \/ Answer(d)  PROVE FALSE
  BY <1>4 DEF Acquire, Drop, Panics, Answer
<1>5. ASSUME NEW d \in Calls, DispatchReturns(d) \/ StreamReturns(d)  PROVE FALSE
  BY <1>5 DEF DispatchReturns, StreamReturns
<1>6. ASSUME NEW s \in Sockets, Dial(s) \/ SessionEnds(s) \/ WriteFrame(s)  PROVE UNCHANGED op
  BY <1>6 DEF Dial, SessionEnds, WriteFrame
<1>7. ASSUME NEW d \in Streams, EmitChunk(d) \/ PumpsStop(d)  PROVE UNCHANGED op
  BY <1>7 DEF EmitChunk, PumpsStop
<1>8. CASE DialFails
  BY <1>8 DEF DialFails
<1>9. CASE UNCHANGED clientVars
  BY <1>9 DEF clientVars
<1> QED
  BY <1>1, <1>2, <1>3, <1>4, <1>5, <1>6, <1>7, <1>8, <1>9 DEF Next, ClientNext, vars

\* A goroutine that has started never starts over, and one that is done stays
\* done; apart from Acquire, no step begins or forgets an execution.
LEMMA Started ==
  ASSUME TypeOK, RequestsFresh, [Next]_vars, NEW c \in Calls
  PROVE  /\ op[c] # "none" => op'[c] # "none"
         /\ op[c] = "done" => op'[c] = "done"
         /\ (c \in Ran' <=> c \in Ran) \/ Acquire(c)
<1> DEFINE Goal == /\ op[c] # "none" => op'[c] # "none"
                   /\ op[c] = "done" => op'[c] = "done"
                   /\ (c \in Ran' <=> c \in Ran) \/ Acquire(c)
<1> SUFFICES Goal
  OBVIOUS
<1> USE DEF TypeOK, ClientTypeOK, Ran
<1>1. CASE UNCHANGED op
  BY <1>1
<1>2. CASE Restart
  BY <1>2 DEF Restart, Live, Registered, OpState
<1>3. ASSUME NEW s \in Sockets, ReadFrame(s)  PROVE Goal
  <2>1. CASE op' = [op EXCEPT ![Head(toDaemon[s]).id] = "queued"] /\ Head(toDaemon[s]).kind = "req"
    <3>1. Head(toDaemon[s]).id \in Calls /\ op[Head(toDaemon[s]).id] = "none"
      BY <1>3, <2>1, HeadFresh
    <3> QED BY <2>1, <3>1
  <2> QED BY <1>3, <1>1, <2>1 DEF ReadFrame
<1>4. ASSUME NEW d \in Calls, Acquire(d) \/ Drop(d)  PROVE Goal
  BY <1>4 DEF Acquire, Drop
<1>5. ASSUME NEW d \in Calls, Panics(d) \/ Answer(d)  PROVE Goal
  BY <1>5 DEF Panics, Answer, AfterAnswer
<1>6. ASSUME NEW d \in Calls, DispatchReturns(d) \/ StreamReturns(d)  PROVE Goal
  BY <1>6 DEF DispatchReturns, StreamReturns
<1>7. ASSUME NEW s \in Sockets, Dial(s) \/ SessionEnds(s) \/ WriteFrame(s)  PROVE UNCHANGED op
  BY <1>7 DEF Dial, SessionEnds, WriteFrame
<1>8. ASSUME NEW d \in Streams, EmitChunk(d) \/ PumpsStop(d)  PROVE UNCHANGED op
  BY <1>8 DEF EmitChunk, PumpsStop
<1>9. CASE DialFails
  BY <1>1, <1>9 DEF DialFails
<1>10. CASE UNCHANGED clientVars
  BY <1>1, <1>10 DEF clientVars
<1> QED
  BY <1>1, <1>2, <1>3, <1>4, <1>5, <1>6, <1>7, <1>8, <1>9, <1>10 DEF Next, ClientNext, vars

(***************************************************************************)
(* The inductive invariant, part by part.                                   *)
(***************************************************************************)
LEMMA IssuedStep ==
  ASSUME TypeOK, LinkInv, [Next]_vars
  PROVE  Issued'
<1> SUFFICES ASSUME NEW c \in Calls, op'[c] # "none"  PROVE call'[c] # "new"
  BY DEF Issued
<1>1. CASE op[c] # "none"
  BY <1>1, CallStaysIssued DEF LinkInv, Issued
<1>2. CASE op[c] = "none"
  BY <1>2, OnlyReadStarts, HeadFresh, CallStaysIssued DEF LinkInv
<1> QED BY <1>1, <1>2

\* A step that only loses frames on the wire keeps RequestsFresh.
LEMMA FreshWhenLost ==
  ASSUME TypeOK, LinkInv, [Next]_vars, UNCHANGED via,
         \A s \in Sockets : toDaemon'[s] = toDaemon[s] \/ toDaemon'[s] = <<>>,
         \A c \in Calls : op[c] = "none" => op'[c] = "none"
  PROVE  RequestsFresh'
<1> SUFFICES ASSUME NEW s \in Sockets, NEW i \in DOMAIN toDaemon'[s],
                    toDaemon'[s][i].kind = "req"
             PROVE  LET c == toDaemon'[s][i].id IN
                      /\ op'[c] = "none" /\ call'[c] # "new" /\ via'[c] = s
                      /\ \A j \in DOMAIN toDaemon'[s] :
                           toDaemon'[s][j].kind = "req" /\ toDaemon'[s][j].id = c => i = j
  BY DEF RequestsFresh
<1>1. toDaemon'[s] = toDaemon[s]
  OBVIOUS
<1>2. toDaemon[s][i] \in PanelFrame
  BY <1>1 DEF TypeOK, WireTypeOK
<1>3. toDaemon[s][i].id \in Calls
  BY <1>2 DEF PanelFrame
<1> QED BY <1>1, <1>3, CallStaysIssued DEF LinkInv, RequestsFresh

\* The panel sends a frame: the request of a call it is just issuing, or a cancel.
LEMMA FreshWhenSent ==
  ASSUME TypeOK, LinkInv, [Next]_vars, UNCHANGED op,
         NEW r \in Sockets \cup {NoSocket}, NEW f \in PanelFrame,
         toDaemon' = SentToDaemon(r, f),
         f.kind = "req" => call[f.id] = "new" /\ call'[f.id] # "new"
                             /\ via' = [via EXCEPT ![f.id] = r],
         f.kind = "cancel" => UNCHANGED via
  PROVE  RequestsFresh'
<1> SUFFICES ASSUME NEW s \in Sockets, NEW i \in DOMAIN toDaemon'[s],
                    toDaemon'[s][i].kind = "req"
             PROVE  LET c == toDaemon'[s][i].id IN
                      /\ op'[c] = "none" /\ call'[c] # "new" /\ via'[c] = s
                      /\ \A j \in DOMAIN toDaemon'[s] :
                           toDaemon'[s][j].kind = "req" /\ toDaemon'[s][j].id = c => i = j
  BY DEF RequestsFresh
<1> DEFINE q == toDaemon[s]
           c == toDaemon'[s][i].id
<1>1. q \in Seq(PanelFrame) /\ f.id \in Calls
  BY DEF TypeOK, WireTypeOK, PanelFrame
<1>2. toDaemon'[s] = q \/ (s = r /\ toDaemon'[s] = Append(q, f))
  BY DEF SentToDaemon, TypeOK, WireTypeOK
<1>3. ASSUME NEW j \in DOMAIN q, q[j].kind = "req"
      PROVE  /\ q[j].id \in Calls /\ op[q[j].id] = "none" /\ call[q[j].id] # "new"
             /\ via[q[j].id] = s
             /\ f.kind = "req" => q[j].id # f.id
  <2>1. q[j] \in PanelFrame
    BY <1>1
  <2>2. q[j].id \in Calls
    BY <2>1 DEF PanelFrame
  <2> QED BY <1>3, <2>2 DEF LinkInv, RequestsFresh
<1>4. ASSUME NEW j \in DOMAIN q, q[j].kind = "req"
      PROVE  op'[q[j].id] = "none" /\ call'[q[j].id] # "new" /\ via'[q[j].id] = s
  <2>1. via'[q[j].id] = via[q[j].id]
    BY <1>1, <1>3, <1>4 DEF PanelFrame, TypeOK, HubTypeOK
  <2> QED BY <1>3, <1>4, <2>1, CallStaysIssued
<1>5. CASE toDaemon'[s] = q
  BY <1>4, <1>5 DEF LinkInv, RequestsFresh
<1>6. CASE s = r /\ toDaemon'[s] = Append(q, f)
  <2>1. ASSUME NEW j \in DOMAIN Append(q, f)
        PROVE  \/ j \in DOMAIN q /\ Append(q, f)[j] = q[j]
               \/ j = Len(q) + 1 /\ Append(q, f)[j] = f
    BY <1>1
  <2>2. CASE i \in DOMAIN q /\ toDaemon'[s][i] = q[i]
    <3>1. op'[c] = "none" /\ call'[c] # "new" /\ via'[c] = s
      BY <1>4, <2>2
    <3>2. ASSUME NEW j \in DOMAIN toDaemon'[s], toDaemon'[s][j].kind = "req",
                 toDaemon'[s][j].id = c
          PROVE  i = j
      BY <1>3, <1>6, <2>1, <2>2, <3>2 DEF LinkInv, RequestsFresh
    <3> QED BY <3>1, <3>2
  <2>3. CASE i = Len(q) + 1 /\ toDaemon'[s][i] = f
    <3>1. op[f.id] = "none"
      BY <1>1, <2>3 DEF LinkInv, Issued
    <3>2. op'[c] = "none" /\ call'[c] # "new" /\ via'[c] = s
      BY <1>1, <1>6, <2>3, <3>1 DEF TypeOK, HubTypeOK
    <3>3. ASSUME NEW j \in DOMAIN toDaemon'[s], toDaemon'[s][j].kind = "req",
                 toDaemon'[s][j].id = c
          PROVE  i = j
      BY <1>3, <1>6, <2>1, <2>3, <3>3
    <3> QED BY <3>2, <3>3
  <2> QED BY <1>6, <2>1, <2>2, <2>3
<1> QED BY <1>2, <1>5, <1>6

LEMMA FreshWhenRead ==
  ASSUME TypeOK, LinkInv, [Next]_vars, NEW r \in Sockets, ReadFrame(r), UNCHANGED via
  PROVE  RequestsFresh'
<1> SUFFICES ASSUME NEW s \in Sockets, NEW i \in DOMAIN toDaemon'[s],
                    toDaemon'[s][i].kind = "req"
             PROVE  LET c == toDaemon'[s][i].id IN
                      /\ op'[c] = "none" /\ call'[c] # "new" /\ via'[c] = s
                      /\ \A j \in DOMAIN toDaemon'[s] :
                           toDaemon'[s][j].kind = "req" /\ toDaemon'[s][j].id = c => i = j
  BY DEF RequestsFresh
<1> DEFINE q == toDaemon[s]
           g == Head(toDaemon[r])
           k == IF s = r THEN 1 ELSE 0
<1>1. q \in Seq(PanelFrame) /\ toDaemon[r] \in Seq(PanelFrame) /\ toDaemon[r] # <<>>
  BY DEF TypeOK, WireTypeOK, ReadFrame, MayRead
<1>2. toDaemon'[s] = IF s = r THEN Tail(q) ELSE q
  BY DEF ReadFrame, TypeOK, WireTypeOK
<1>3. ASSUME NEW j \in DOMAIN toDaemon'[s]
      PROVE  j + k \in DOMAIN q /\ toDaemon'[s][j] = q[j + k] /\ (s = r => j + k # 1)
  BY <1>1, <1>2
<1>4. 1 \in DOMAIN toDaemon[r] /\ g = toDaemon[r][1]
  BY <1>1
<1>5. ASSUME NEW j \in DOMAIN q, q[j].kind = "req"
      PROVE  /\ q[j].id \in Calls /\ op[q[j].id] = "none" /\ call[q[j].id] # "new"
             /\ via[q[j].id] = s
  <2>1. q[j] \in PanelFrame
    BY <1>1
  <2>2. q[j].id \in Calls
    BY <2>1 DEF PanelFrame
  <2> QED BY <1>5, <2>2 DEF LinkInv, RequestsFresh
<1>6. g \in PanelFrame
  BY <1>1
<1>7. ASSUME NEW j \in DOMAIN q, q[j].kind = "req", s = r => j # 1
      PROVE  op'[q[j].id] = "none"
  <2>1. g.kind = "req" => via[g.id] = r /\ g.id \in Calls
    BY HeadFresh DEF LinkInv
  <2>2. g.kind = "req" => q[j].id # g.id
    BY <1>4, <1>5, <1>7, <2>1 DEF LinkInv, RequestsFresh
  <2> QED BY <1>5, <1>6, <1>7, <2>2 DEF ReadFrame, TypeOK, ClientTypeOK
<1>8. i + k \in DOMAIN q /\ q[i + k].kind = "req" /\ toDaemon'[s][i] = q[i + k] /\ (s = r => i + k # 1)
  BY <1>3
<1>9. op'[q[i + k].id] = "none" /\ call'[q[i + k].id] # "new" /\ via'[q[i + k].id] = s
  BY <1>5, <1>7, <1>8, CallStaysIssued
<1>10. ASSUME NEW j \in DOMAIN toDaemon'[s], toDaemon'[s][j].kind = "req",
              toDaemon'[s][j].id = q[i + k].id
       PROVE  i = j
  <2>1. i + k = j + k
    BY <1>3, <1>8, <1>10 DEF LinkInv, RequestsFresh
  <2>2. i \in Nat /\ j \in Nat
    BY <1>1, <1>2
  <2> QED BY <2>1, <2>2
<1> QED BY <1>8, <1>9, <1>10

LEMMA RequestsFreshStep ==
  ASSUME TypeOK, LinkInv, [Next]_vars
  PROVE  RequestsFresh'
<1>1. ASSUME UNCHANGED <<toDaemon, via>>, \A c \in Calls : op[c] = "none" => op'[c] = "none"
      PROVE  RequestsFresh'
  BY <1>1, FreshWhenLost
<1>2. CASE HubNext /\ UNCHANGED clientVars
  <2> USE <1>2 DEF clientVars
  <2>1. ASSUME NEW s \in Sockets, Register(s) \/ Refuse(s) \/ Message(s) \/ Closed(s)
        PROVE  UNCHANGED <<toDaemon, via>>
    BY <2>1 DEF Register, Refuse, Message, Closed
  <2>2. ASSUME NEW c \in Calls, Refused(c)  PROVE UNCHANGED <<toDaemon, via>>
    BY <2>2 DEF Refused
  <2>3. ASSUME NEW c \in Calls, Sent(c), call[c] = "new"  PROVE RequestsFresh'
    <3>1. [kind |-> "req", id |-> c] \in PanelFrame /\ entry \in Sockets \cup {NoSocket}
      BY DEF PanelFrame, TypeOK, HubTypeOK
    <3>2. call'[c] # "new"
      BY <2>3 DEF Sent, TypeOK, HubTypeOK
    <3> QED BY <2>3, <3>1, <3>2, FreshWhenSent DEF Sent
  <2>4. ASSUME NEW c \in Unary, Request(c)  PROVE RequestsFresh'
    BY <1>1, <2>2, <2>3, <2>4 DEF Request
  <2>5. ASSUME NEW c \in Unary, Timeout(c)  PROVE UNCHANGED <<toDaemon, via>>
    BY <2>5 DEF Timeout, wireVars
  <2>6. ASSUME NEW c \in Streams, BrowserOpens(c) \/ BrowserDenied(c)  PROVE UNCHANGED <<toDaemon, via>>
    BY <2>6 DEF BrowserOpens, BrowserDenied, wireVars
  <2>7. ASSUME NEW c \in Streams, BrowserAttaches(c)  PROVE RequestsFresh'
    <3>1. call[c] = "new"
      BY <2>7 DEF BrowserAttaches, LinkInv, RelayAgrees
    <3> QED BY <1>1, <2>2, <2>3, <2>7, <3>1 DEF BrowserAttaches
  <2>8. ASSUME NEW c \in Streams, BrowserLeaves(c)  PROVE RequestsFresh'
    <3>1. CASE UNCHANGED toDaemon
      BY <1>1, <2>8, <3>1 DEF BrowserLeaves
    <3>2. CASE toDaemon' = SentToDaemon(via[c], [kind |-> "cancel", id |-> c])
      <4>1. via[c] \in Sockets \cup {NoSocket} /\ [kind |-> "cancel", id |-> c] \in PanelFrame
        BY DEF PanelFrame, TypeOK, HubTypeOK
      <4> QED BY <2>8, <3>2, <4>1, FreshWhenSent DEF BrowserLeaves
    <3> QED BY <2>8, <3>1, <3>2 DEF BrowserLeaves
  <2> QED BY <1>1, <2>1, <2>4, <2>5, <2>6, <2>7, <2>8 DEF HubNext
<1>3. CASE ClientNext /\ UNCHANGED hubVars
  <2>1. CASE \E s \in Sockets : ReadFrame(s)
    BY <1>3, <2>1, FreshWhenRead DEF hubVars
  <2>2. CASE ~ \E s \in Sockets : ReadFrame(s)
    <3>1. \A c \in Calls : op[c] = "none" => op'[c] = "none"
      BY <2>2, OnlyReadStarts
    <3>2. ASSUME NEW r \in Sockets, Disconnect(r)
          PROVE  \A s \in Sockets : toDaemon'[s] = toDaemon[s] \/ toDaemon'[s] = <<>>
      BY <3>2 DEF Disconnect, TypeOK, WireTypeOK
    <3>3. CASE Restart \/ \E s \in Sockets : SessionEnds(s)
      <4>1. \A s \in Sockets : toDaemon'[s] = toDaemon[s] \/ toDaemon'[s] = <<>>
        BY <3>2, <3>3 DEF Restart, SessionEnds, wireVars, TypeOK, ClientTypeOK
      <4> QED BY <1>3, <3>1, <4>1, FreshWhenLost DEF hubVars
    <3>4. CASE UNCHANGED toDaemon
      BY <1>1, <1>3, <3>1, <3>4 DEF hubVars
    <3>5. ASSUME NEW s \in Sockets, Dial(s) \/ WriteFrame(s)  PROVE UNCHANGED toDaemon
      BY <3>5 DEF Dial, WriteFrame
    <3>6. ASSUME NEW c \in Calls, Acquire(c) \/ Drop(c) \/ Panics(c) \/ Answer(c)
          PROVE  UNCHANGED toDaemon
      BY <3>6 DEF Acquire, Drop, Panics, Answer, wireVars
    <3>7. ASSUME NEW c \in Calls,
                 DispatchReturns(c) \/ StreamReturns(c) \/ EmitChunk(c) \/ PumpsStop(c)
          PROVE  UNCHANGED toDaemon
      BY <3>7 DEF DispatchReturns, StreamReturns, EmitChunk, PumpsStop, wireVars
    <3>8. CASE DialFails
      BY <3>4, <3>8 DEF DialFails, wireVars
    <3> QED BY <1>3, <2>2, <3>3, <3>4, <3>5, <3>6, <3>7, <3>8 DEF ClientNext
  <2> QED BY <2>1, <2>2
<1>4. CASE UNCHANGED vars
  BY <1>1, <1>4 DEF vars, wireVars, hubVars, clientVars
<1> QED BY <1>2, <1>3, <1>4 DEF Next

\* AnswersRan, frame by frame instead of index by index.
LEMMA RanFrames ==
  ASSUME NEW q
  PROVE  TerminalsRan(q) <=> \A f : In(f, q) /\ f.kind \in Terminal => op[f.id] = "done"
BY DEF TerminalsRan, In

LEMMA AnswersRanStep ==
  ASSUME TypeOK, ReplyReady, LinkInv, [Next]_vars
  PROVE  AnswersRan'
<1> DEFINE Old(f) == f.kind \in Terminal => \E s \in Sockets : In(f, out[s]) \/ In(f, toPanel[s])
           New(f) == f.kind \in Terminal => f.id \in Calls /\ op'[f.id] = "done"
           Goal == \A s \in Sockets : \A f :
                     In(f, out'[s]) \/ In(f, toPanel'[s]) => Old(f) \/ New(f)
<1> USE DEF TypeOK, WireTypeOK, ClientTypeOK
<1>1. SUFFICES Goal
  <2>1. ASSUME NEW s \in Sockets, NEW f, In(f, out[s]) \/ In(f, toPanel[s]), f.kind \in Terminal
        PROVE  f.id \in Calls /\ op[f.id] = "done"
    <3>1. f \in DaemonFrame
      BY <2>1 DEF In
    <3>2. f.id \in Calls
      BY <3>1 DEF DaemonFrame
    <3> QED BY <2>1, <3>2, RanFrames DEF LinkInv, AnswersRan
  <2>2. \A f : (Old(f) \/ New(f)) /\ f.kind \in Terminal => op'[f.id] = "done"
    BY <2>1, Started DEF LinkInv
  <2> QED BY <2>2 DEF AnswersRan, TerminalsRan, In
<1>2. ASSUME NEW f  PROVE ~In(f, <<>>)
  BY DEF In
<1>3. CASE UNCHANGED <<out, toPanel>>
  BY <1>3
<1>4. ASSUME NEW s \in Sockets, Message(s), UNCHANGED out  PROVE Goal
  BY <1>4, TailIn DEF Message
<1>5. ASSUME NEW s \in Sockets, Closed(s), UNCHANGED out  PROVE Goal
  BY <1>2, <1>5 DEF Closed
<1>6. ASSUME NEW s \in Sockets, Disconnect(s)  PROVE Goal
  BY <1>2, <1>6 DEF Disconnect
<1>7. ASSUME NEW g \in DaemonFrame, New(g), UNCHANGED toPanel,
             out' = [out EXCEPT ![session] = Append(@, g)]
      PROVE  Goal
  <2>1. ASSUME NEW s \in Sockets, NEW f, In(f, out'[s])  PROVE In(f, out[s]) \/ f = g
    BY <1>7, <2>1, AppendIn
  <2> QED BY <1>7, <2>1
<1>8. ASSUME NEW s \in Sockets, WriteFrame(s)  PROVE Goal
  <2>0. out[s] \in Seq(DaemonFrame) /\ out[s] # <<>>
    BY <1>8 DEF WriteFrame
  <2>1. out[s] \in Seq(DaemonFrame) /\ out[s] # <<>> /\ Head(out[s]) \in DaemonFrame
    BY <2>0
  <2>2. ASSUME NEW r \in Sockets, NEW f, In(f, out'[r])  PROVE In(f, out[r])
    BY <1>8, <2>1, <2>2, TailIn DEF WriteFrame
  <2>3. ASSUME NEW r \in Sockets, NEW f, In(f, toPanel'[r])
        PROVE  In(f, toPanel[r]) \/ f = Head(out[s])
    BY <1>8, <2>1, <2>3, AppendIn DEF WriteFrame, SentToPanel
  <2>4. In(Head(out[s]), out[s])
    BY <2>1, HeadIn
  <2> QED BY <2>2, <2>3, <2>4
<1>9. ASSUME NEW c \in Calls, Answer(c)  PROVE Goal
  <2>1. [kind |-> reply[c], id |-> c] \in DaemonFrame
    BY <1>9 DEF ReplyReady, Answer, Terminal, DaemonFrame
  <2>2. op'[c] = "done"
    BY <1>9 DEF Answer, AfterAnswer
  <2> QED BY <1>3, <1>7, <1>9, <2>1, <2>2 DEF Answer, wireVars
<1>10. ASSUME NEW c \in Streams, EmitChunk(c)  PROVE Goal
  <2>1. [kind |-> "chunk", id |-> c] \in DaemonFrame
    BY DEF DaemonFrame
  <2> QED BY <1>7, <1>10, <2>1 DEF EmitChunk, Terminal, wireVars
<1>11. ASSUME HubNext
       PROVE  UNCHANGED toPanel \/ \E s \in Sockets : Message(s) \/ Closed(s)
  BY <1>11 DEF HubNext, Register, Refuse, Request, Timeout, BrowserOpens, BrowserDenied, BrowserAttaches,
     BrowserLeaves, wireVars
<1>12. ASSUME ClientNext
       PROVE  \/ UNCHANGED <<out, toPanel>>
              \/ \E s \in Sockets : Disconnect(s) \/ WriteFrame(s)
              \/ \E c \in Calls : Answer(c)
              \/ \E c \in Streams : EmitChunk(c)
  <2>1. CASE DialFails \/ \E s \in Sockets : Dial(s) \/ ReadFrame(s)
    BY <2>1 DEF DialFails, Dial, ReadFrame, wireVars
  <2>2. CASE Restart
    BY <2>2 DEF Restart, wireVars
  <2>3. CASE \E s \in Sockets : SessionEnds(s)
    BY <2>3 DEF SessionEnds
  <2>4. CASE \E c \in Calls : Acquire(c) \/ Drop(c) \/ Panics(c)
    BY <2>4 DEF Acquire, Drop, Panics, wireVars
  <2>5. CASE \E c \in Calls : DispatchReturns(c) \/ StreamReturns(c) \/ PumpsStop(c)
    BY <2>5 DEF DispatchReturns, StreamReturns, PumpsStop, wireVars
  <2> QED BY <1>12, <2>1, <2>2, <2>3, <2>4, <2>5 DEF ClientNext
<1>13. CASE HubNext /\ UNCHANGED clientVars
  BY <1>3, <1>4, <1>5, <1>11, <1>13 DEF clientVars
<1>14. CASE ClientNext
  BY <1>3, <1>6, <1>8, <1>9, <1>10, <1>12, <1>14
<1>15. CASE UNCHANGED vars
  BY <1>3, <1>15 DEF vars, wireVars, clientVars
<1> QED BY <1>13, <1>14, <1>15 DEF Next

LEMMA RelayAgreesStep ==
  ASSUME TypeOK, LinkInv, [Next]_vars
  PROVE  RelayAgrees'
<1> SUFFICES ASSUME NEW c \in Streams
             PROVE  /\ relay'[c] \in {"idle", "resolving", "abandoned"} => call'[c] = "new"
                    /\ relay'[c] = "attached" => call'[c] = "open"
  BY DEF RelayAgrees
<1> DEFINE Goal == /\ relay'[c] \in {"idle", "resolving", "abandoned"} => call'[c] = "new"
                   /\ relay'[c] = "attached" => call'[c] = "open"
<1> USE CallsAssumption DEF TypeOK, HubTypeOK, LinkInv, RelayAgrees
<1>1. ASSUME NEW s \in Sockets, Register(s)  PROVE Goal
  BY <1>1 DEF Register, ClosedAll, BrowsersClosed, InFlight
<1>2. ASSUME NEW s \in Sockets, Refuse(s)  PROVE Goal
  BY <1>2 DEF Refuse
<1>3. ASSUME NEW s \in Sockets, Message(s)  PROVE Goal
  BY <1>3 DEF Message, Handled, BrowsersClosed, InFlight
<1>4. ASSUME NEW s \in Sockets, Closed(s)  PROVE Goal
  BY <1>4 DEF Closed, ClosedAll, BrowsersClosed, InFlight
<1>5. ASSUME NEW d \in Unary, Request(d) \/ Timeout(d)  PROVE Goal
  BY <1>5 DEF Request, Timeout, Refused, Sent
<1>6. ASSUME NEW d \in Streams, BrowserOpens(d) \/ BrowserDenied(d)  PROVE Goal
  BY <1>6 DEF BrowserOpens, BrowserDenied
<1>7. ASSUME NEW d \in Streams, BrowserAttaches(d)  PROVE Goal
  BY <1>7 DEF BrowserAttaches, Refused, Sent
<1>8. ASSUME NEW d \in Streams, BrowserLeaves(d)  PROVE Goal
  BY <1>8 DEF BrowserLeaves
<1>9. CASE UNCHANGED hubVars
  BY <1>9 DEF hubVars
<1> QED
  BY <1>1, <1>2, <1>3, <1>4, <1>5, <1>6, <1>7, <1>8, <1>9 DEF Next, HubNext, vars

LEMMA LinkInvInit == Init => LinkInv
<1> SUFFICES ASSUME Init PROVE LinkInv
  OBVIOUS
<1> USE DEF Init, WireInit, HubInit, ClientInit
<1>1. Issued /\ RelayAgrees
  BY DEF Issued, RelayAgrees
<1>2. RequestsFresh
  BY DEF RequestsFresh
<1>3. AnswersRan
  BY DEF AnswersRan, TerminalsRan
<1> QED BY <1>1, <1>2, <1>3 DEF LinkInv

\* A call runs once and before it is answered, whatever the sockets do.
THEOREM LinkInvariant == Spec => []LinkInv
<1>1. TypeOK /\ ReplyReady /\ LinkInv /\ [Next]_vars => LinkInv'
  BY IssuedStep, RequestsFreshStep, AnswersRanStep, RelayAgreesStep DEF LinkInv
<1> QED BY <1>1, LinkInvInit, TypeCorrect, PTL DEF Spec

(***************************************************************************)
(* The slots.  Only Acquire takes a token, only the end of a goroutine that  *)
(* holds one gives it back, and no other step moves a goroutine in or out    *)
(* of the part of its code between the two.                                  *)
(***************************************************************************)
GivesBack(d) ==
  /\ op[d] \in Holding /\ home' = home /\ Releases(d)
  /\ \E x \in {"panicked", "done"} : op' = [op EXCEPT ![d] = x]

HoldersKept == \A c \in Calls, s \in Sockets :
  home'[c] = s /\ op'[c] \in Holding <=> home[c] = s /\ op[c] \in Holding

LEMMA TokenSteps ==
  ASSUME TypeOK, LinkInv, [Next]_vars
  PROVE  \/ Restart
         \/ \E d \in Calls : Acquire(d) \/ GivesBack(d)
         \/ UNCHANGED sems /\ HoldersKept
<1> DEFINE Goal == \/ \E d \in Calls : Acquire(d) \/ GivesBack(d)
                   \/ UNCHANGED sems /\ HoldersKept
<1> USE DEF TypeOK, ClientTypeOK
<1>1. ASSUME UNCHANGED <<op, home, sems>>  PROVE Goal
  BY <1>1 DEF HoldersKept
<1>2. ASSUME NEW s \in Sockets, ReadFrame(s)  PROVE Goal
  <2> DEFINE f == Head(toDaemon[s])
  <2>1. f \in PanelFrame /\ In(f, toDaemon[s])
    BY <1>2, HeadIn DEF ReadFrame, MayRead, WireTypeOK
  <2>2. f.id \in Calls
    BY <2>1 DEF PanelFrame
  <2>3. CASE f.kind = "req"
    <3>0. PICK i \in DOMAIN toDaemon[s] : toDaemon[s][i] = f
      BY <2>1 DEF In
    <3>1. op[f.id] = "none"
      BY <2>3, <3>0 DEF LinkInv, RequestsFresh
    <3>2. op' = [op EXCEPT ![f.id] = "queued"] /\ home' = [home EXCEPT ![f.id] = s]
      BY <1>2, <2>3 DEF ReadFrame
    <3> HIDE DEF f
    <3>3. HoldersKept
      BY <2>2, <3>1, <3>2 DEF HoldersKept, Holding
    <3> QED BY <1>2, <3>3 DEF ReadFrame
  <2>4. CASE f.kind # "req"
    BY <1>1, <1>2, <2>4 DEF ReadFrame
  <2> QED BY <2>3, <2>4
<1>3. ASSUME NEW d \in Calls, Drop(d)  PROVE Goal
  BY <1>3 DEF Drop, HoldersKept, Holding
<1>4. ASSUME NEW d \in Calls, Panics(d)  PROVE Goal
  BY <1>4 DEF Panics, GivesBack, Holding
<1>5. ASSUME NEW d \in Calls, Answer(d)  PROVE Goal
  <2>1. CASE op[d] = "answering"
    BY <1>5, <2>1 DEF Answer, AfterAnswer, GivesBack, Holding
  <2>2. CASE op[d] = "panicked"
    BY <1>5, <2>2 DEF Answer, AfterAnswer, HoldersKept, Holding
  <2> QED BY <1>5, <2>1, <2>2 DEF Answer
<1>6. ASSUME NEW d \in Calls, DispatchReturns(d) \/ StreamReturns(d)  PROVE Goal
  BY <1>6 DEF DispatchReturns, StreamReturns, HoldersKept, Holding
<1>7. ASSUME NEW s \in Sockets, Dial(s) \/ SessionEnds(s) \/ WriteFrame(s)  PROVE Goal
  BY <1>1, <1>7 DEF Dial, SessionEnds, WriteFrame
<1>8. ASSUME NEW d \in Streams, EmitChunk(d) \/ PumpsStop(d)  PROVE Goal
  BY <1>1, <1>8 DEF EmitChunk, PumpsStop
<1>9. DialFails \/ UNCHANGED clientVars => Goal
  BY <1>1 DEF DialFails, clientVars
<1> QED
  BY <1>2, <1>3, <1>4, <1>5, <1>6, <1>7, <1>8, <1>9 DEF Next, ClientNext, vars

\* What the tokens of a session are, with the finiteness a count needs.
Accounted(n, S, max) == IsFiniteSet(S) /\ n = Cardinality(S) /\ n <= max
SlotsInv ==
  \A s \in Sockets : /\ Accounted(sem[s], Holders(s, Unary), MaxConcurrent)
                     /\ Accounted(streamSem[s], Holders(s, Streams), MaxStreams)

LEMMA OneMore ==
  ASSUME NEW n, NEW S, NEW max \in Nat, Accounted(n, S, max), n < max, NEW d, d \notin S
  PROVE  Accounted(n + 1, S \cup {d}, max)
BY FS_AddElement, FS_CardinalityType DEF Accounted

LEMMA OneLess ==
  ASSUME NEW n, NEW S, NEW max \in Nat, Accounted(n, S, max), NEW d \in S
  PROVE  Accounted(n - 1, S \ {d}, max)
<1>1. n \in Nat /\ n <= max
  BY FS_CardinalityType DEF Accounted
<1>2. IsFiniteSet(S \ {d}) /\ Cardinality(S \ {d}) = n - 1
  BY FS_RemoveElement DEF Accounted
<1> QED BY <1>1, <1>2 DEF Accounted

LEMMA SlotsStep ==
  ASSUME TypeOK, LinkInv, SlotsInv, [Next]_vars
  PROVE  SlotsInv'
<1> SUFFICES ASSUME NEW s \in Sockets
             PROVE  /\ Accounted(sem'[s], Holders(s, Unary)', MaxConcurrent)
                    /\ Accounted(streamSem'[s], Holders(s, Streams)', MaxStreams)
  BY DEF SlotsInv, Accounted
<1> USE DEF TypeOK, ClientTypeOK
<1>1. /\ Accounted(sem[s], Holders(s, Unary), MaxConcurrent)
      /\ Accounted(streamSem[s], Holders(s, Streams), MaxStreams)
      /\ MaxConcurrent \in Nat /\ MaxStreams \in Nat
  BY ClientAssumption DEF SlotsInv
<1>2. CASE Restart
  <2>1. Holders(s, Unary)' = {} /\ Holders(s, Streams)' = {}
    BY <1>2 DEF Restart, Holders, Holding, Live, Registered
  <2> QED BY <1>1, <1>2, <2>1, FS_EmptySet DEF Restart, Accounted
<1>3. ASSUME NEW d \in Calls, Acquire(d), home[d] = s
      PROVE  /\ Accounted(sem'[s], Holders(s, Unary)', MaxConcurrent)
             /\ Accounted(streamSem'[s], Holders(s, Streams)', MaxStreams)
  <2>1. ASSUME NEW P \in {Unary, Streams}
        PROVE  Holders(s, P)' = (IF d \in P THEN Holders(s, P) \cup {d} ELSE Holders(s, P))
               /\ d \notin Holders(s, P)
    BY <1>3 DEF Acquire, Holders, Holding
  <2>2. CASE d \in Unary
    <3>1. sem[s] < MaxConcurrent /\ sem'[s] = sem[s] + 1 /\ streamSem' = streamSem /\ d \notin Streams
      BY <1>3, <2>2, CallsAssumption DEF Acquire, Takes, Taken, Counts, Slots
    <3> QED BY <1>1, <2>1, <2>2, <3>1, OneMore
  <2>3. CASE d \in Streams
    <3>1. streamSem[s] < MaxStreams /\ streamSem'[s] = streamSem[s] + 1 /\ sem' = sem /\ d \notin Unary
      BY <1>3, <2>3, CallsAssumption DEF Acquire, Takes, Taken, Counts, Slots
    <3> QED BY <1>1, <2>1, <2>3, <3>1, OneMore
  <2> QED BY <2>2, <2>3
<1>4. ASSUME NEW d \in Calls, GivesBack(d), home[d] = s
      PROVE  /\ Accounted(sem'[s], Holders(s, Unary)', MaxConcurrent)
             /\ Accounted(streamSem'[s], Holders(s, Streams)', MaxStreams)
  <2>1. ASSUME NEW P \in {Unary, Streams}
        PROVE  /\ Holders(s, P)' = (IF d \in P THEN Holders(s, P) \ {d} ELSE Holders(s, P))
               /\ d \in P => d \in Holders(s, P)
    BY <1>4 DEF GivesBack, Holders, Holding
  <2>2. CASE d \in Unary
    <3>1. sem'[s] = sem[s] - 1 /\ streamSem' = streamSem /\ d \notin Streams
      BY <1>4, <2>2, CallsAssumption DEF GivesBack, Releases, Taken, Counts
    <3> QED BY <1>1, <2>1, <2>2, <3>1, OneLess
  <2>3. CASE d \in Streams
    <3>1. streamSem'[s] = streamSem[s] - 1 /\ sem' = sem /\ d \notin Unary
      BY <1>4, <2>3, CallsAssumption DEF GivesBack, Releases, Taken, Counts
    <3> QED BY <1>1, <2>1, <2>3, <3>1, OneLess
  <2> QED BY <2>2, <2>3
<1>5. ASSUME NEW d \in Calls, Acquire(d) \/ GivesBack(d), home[d] # s
      PROVE  /\ sem'[s] = sem[s] /\ streamSem'[s] = streamSem[s]
             /\ Holders(s, Unary)' = Holders(s, Unary) /\ Holders(s, Streams)' = Holders(s, Streams)
  <2>1. sem'[s] = sem[s] /\ streamSem'[s] = streamSem[s]
    BY <1>5 DEF Acquire, GivesBack, Takes, Releases, Counts
  <2>2. ASSUME NEW c \in Calls
        PROVE  home'[c] = s /\ op'[c] \in Holding <=> home[c] = s /\ op[c] \in Holding
    BY <1>5 DEF Acquire, GivesBack
  <2> QED BY <2>1, <2>2 DEF Holders
<1>6. CASE UNCHANGED sems /\ HoldersKept
  <2>1. Holders(s, Unary)' = Holders(s, Unary) /\ Holders(s, Streams)' = Holders(s, Streams)
    BY <1>6 DEF HoldersKept, Holders
  <2> QED BY <1>1, <1>6, <2>1
<1> QED BY <1>1, <1>2, <1>3, <1>4, <1>5, <1>6, TokenSteps

\* No slot of a session is lost or given back twice, whatever panics, is
\* cancelled, dropped or cut off, so the two budgets never shrink and are never
\* overcommitted, and requests and streams cannot take each other's.
THEOREM SlotsCorrect == Spec => []SlotsAccounted
<1>1. Init => SlotsInv
  <2> SUFFICES ASSUME Init, NEW s \in Sockets
               PROVE  /\ Accounted(sem[s], Holders(s, Unary), MaxConcurrent)
                      /\ Accounted(streamSem[s], Holders(s, Streams), MaxStreams)
    BY DEF SlotsInv
  <2>1. Holders(s, Unary) = {} /\ Holders(s, Streams) = {}
    BY DEF Init, ClientInit, Holders, Holding
  <2> QED BY <2>1, FS_EmptySet, ClientAssumption DEF Init, ClientInit, Accounted
<1>2. TypeOK /\ LinkInv /\ SlotsInv /\ [Next]_vars => SlotsInv'
  BY SlotsStep
<1>3. SlotsInv => SlotsAccounted
  BY DEF SlotsInv, SlotsAccounted, Accounted
<1> QED BY <1>1, <1>2, <1>3, TypeCorrect, LinkInvariant, PTL DEF Spec

(***************************************************************************)
(* One answer for a call.                                                   *)
(***************************************************************************)
AtMostOne(S) == \A i, j \in S : i = j
\* The answer for c is in the channel or on the wire, not in both, nor twice.
OneAnswer ==
  \A s \in Sockets, c \in Calls :
    /\ AtMostOne(TerminalsFor(c, out[s])) /\ AtMostOne(TerminalsFor(c, toPanel[s]))
    /\ TerminalsFor(c, out[s]) = {} \/ TerminalsFor(c, toPanel[s]) = {}

LEMMA AppendTerminals ==
  ASSUME NEW q \in Seq(DaemonFrame), NEW f \in DaemonFrame, NEW c
  PROVE  /\ TerminalsFor(c, Append(q, f)) \subseteq TerminalsFor(c, q) \cup {Len(q) + 1}
         /\ ~(f.id = c /\ f.kind \in Terminal) => TerminalsFor(c, Append(q, f)) = TerminalsFor(c, q)
BY DEF TerminalsFor

LEMMA TailTerminals ==
  ASSUME NEW q \in Seq(DaemonFrame), q # <<>>, NEW c
  PROVE  /\ \A i \in TerminalsFor(c, Tail(q)) : i \in Int /\ i + 1 \in TerminalsFor(c, q)  /\ i + 1 # 1
         /\ Head(q).id = c /\ Head(q).kind \in Terminal => 1 \in TerminalsFor(c, q)
BY DEF TerminalsFor

LEMMA AfterTail ==
  ASSUME NEW q \in Seq(DaemonFrame), q # <<>>, NEW c, AtMostOne(TerminalsFor(c, q))
  PROVE  /\ AtMostOne(TerminalsFor(c, Tail(q)))
         /\ TerminalsFor(c, q) = {} => TerminalsFor(c, Tail(q)) = {}
         /\ Head(q).id = c /\ Head(q).kind \in Terminal => TerminalsFor(c, Tail(q)) = {} /\ TerminalsFor(c, q) # {}
BY TailTerminals DEF AtMostOne

LEMMA NoTerminals == ASSUME NEW c PROVE TerminalsFor(c, <<>>) = {}
BY DEF TerminalsFor

\* The steps that touch `out` or what is on its way to the panel.
LEMMA ChannelSteps ==
  ASSUME TypeOK, [Next]_vars
  PROVE  \/ UNCHANGED <<out, toPanel>>
         \/ \E s \in Sockets : (Message(s) \/ Closed(s)) /\ UNCHANGED out
         \/ \E s \in Sockets : Disconnect(s) \/ WriteFrame(s)
         \/ \E c \in Calls : Answer(c)
         \/ \E c \in Streams : EmitChunk(c)
<1>1. ASSUME HubNext
      PROVE  UNCHANGED toPanel \/ \E s \in Sockets : Message(s) \/ Closed(s)
  BY <1>1 DEF HubNext, Register, Refuse, Request, Timeout, BrowserOpens, BrowserDenied, BrowserAttaches,
     BrowserLeaves, wireVars
<1>2. ASSUME ClientNext
      PROVE  \/ UNCHANGED <<out, toPanel>>
             \/ \E s \in Sockets : Disconnect(s) \/ WriteFrame(s)
             \/ \E c \in Calls : Answer(c)
             \/ \E c \in Streams : EmitChunk(c)
  <2>1. CASE DialFails \/ \E s \in Sockets : Dial(s) \/ ReadFrame(s)
    BY <2>1 DEF DialFails, Dial, ReadFrame, wireVars
  <2>2. CASE Restart
    <3>1. CASE session = NoSocket
      BY <2>2, <3>1 DEF Restart, wireVars
    <3>2. CASE session # NoSocket
      BY <2>2, <3>2 DEF Restart, TypeOK, ClientTypeOK
    <3> QED BY <3>1, <3>2
  <2>3. CASE \E s \in Sockets : SessionEnds(s)
    BY <2>3 DEF SessionEnds
  <2>4. CASE \E c \in Calls : Acquire(c) \/ Drop(c) \/ Panics(c)
    BY <2>4 DEF Acquire, Drop, Panics, wireVars
  <2>5. CASE \E c \in Calls : DispatchReturns(c) \/ StreamReturns(c) \/ PumpsStop(c)
    BY <2>5 DEF DispatchReturns, StreamReturns, PumpsStop, wireVars
  <2> QED BY <1>2, <2>1, <2>2, <2>3, <2>4, <2>5 DEF ClientNext
<1>3. UNCHANGED vars => UNCHANGED <<out, toPanel>>
  BY DEF vars, wireVars, clientVars
<1> QED BY <1>1, <1>2, <1>3 DEF Next, clientVars

LEMMA OneAnswerStep ==
  ASSUME TypeOK, ReplyReady, LinkInv, OneAnswer, [Next]_vars
  PROVE  OneAnswer'
<1> USE DEF TypeOK, WireTypeOK, ClientTypeOK
<1>1. CASE UNCHANGED <<out, toPanel>>
  BY <1>1 DEF OneAnswer
<1>2. ASSUME NEW s \in Sockets, Message(s), UNCHANGED out  PROVE OneAnswer'
  <2>1. toPanel[s] \in Seq(DaemonFrame) /\ toPanel[s] # <<>> /\ toPanel' = [toPanel EXCEPT ![s] = Tail(@)]
    BY <1>2 DEF Message
  <2>2. ASSUME NEW r \in Sockets, NEW c \in Calls
        PROVE  /\ AtMostOne(TerminalsFor(c, toPanel'[r]))
               /\ TerminalsFor(c, toPanel[r]) = {} => TerminalsFor(c, toPanel'[r]) = {}
    <3>1. AtMostOne(TerminalsFor(c, toPanel[r]))
      BY DEF OneAnswer
    <3>2. CASE r # s
      BY <2>1, <3>1, <3>2
    <3>3. CASE r = s
      <4>1. toPanel'[s] = Tail(toPanel[s])
        BY <2>1
      <4> QED BY <2>1, <3>1, <3>3, <4>1, AfterTail
    <3> QED BY <3>2, <3>3
  <2> QED BY <1>2, <2>2 DEF OneAnswer
<1>3. ASSUME \A s \in Sockets : out'[s] \in {out[s], <<>>} /\ toPanel'[s] \in {toPanel[s], <<>>}
      PROVE  OneAnswer'
  BY <1>3, NoTerminals DEF OneAnswer, AtMostOne
<1>4. ASSUME NEW g \in DaemonFrame, UNCHANGED toPanel,
             out' = [out EXCEPT ![session] = Append(@, g)],
             g.kind \in Terminal => op[g.id] # "done"
      PROVE  OneAnswer'
  <2> SUFFICES ASSUME NEW s \in Sockets, NEW c \in Calls
               PROVE  /\ AtMostOne(TerminalsFor(c, out'[s])) /\ AtMostOne(TerminalsFor(c, toPanel'[s]))
                      /\ TerminalsFor(c, out'[s]) = {} \/ TerminalsFor(c, toPanel'[s]) = {}
    BY DEF OneAnswer
  <2>1. out'[s] = out[s] \/ out'[s] = Append(out[s], g)
    BY <1>4
  <2>2. CASE out'[s] = out[s] \/ ~(g.id = c /\ g.kind \in Terminal)
    <3>1. TerminalsFor(c, out'[s]) = TerminalsFor(c, out[s])
      BY <2>1, <2>2, AppendTerminals
    <3> QED BY <1>4, <3>1 DEF OneAnswer
  <2>3. CASE out'[s] = Append(out[s], g) /\ g.id = c /\ g.kind \in Terminal
    <3>1. TerminalsFor(c, out[s]) = {} /\ TerminalsFor(c, toPanel[s]) = {}
      BY <1>4, <2>3 DEF LinkInv, AnswersRan, TerminalsRan, TerminalsFor
    <3>2. TerminalsFor(c, out'[s]) \subseteq {Len(out[s]) + 1}
      BY <2>3, <3>1, AppendTerminals
    <3> QED BY <1>4, <3>1, <3>2 DEF AtMostOne
  <2> QED BY <2>1, <2>2, <2>3
<1>5. ASSUME NEW r \in Sockets, WriteFrame(r)  PROVE OneAnswer'
  <2> DEFINE g == Head(out[r])
  <2>0. out[r] \in Seq(DaemonFrame) /\ out[r] # <<>>
    BY <1>5 DEF WriteFrame
  <2>1. out[r] \in Seq(DaemonFrame) /\ out[r] # <<>> /\ g \in DaemonFrame
    BY <2>0
  <2>2. out' = [out EXCEPT ![r] = Tail(@)] /\ toPanel' = SentToPanel(r, g)
    BY <1>5 DEF WriteFrame
  <2> HIDE DEF g
  <2> SUFFICES ASSUME NEW s \in Sockets, NEW c \in Calls
               PROVE  /\ AtMostOne(TerminalsFor(c, out'[s])) /\ AtMostOne(TerminalsFor(c, toPanel'[s]))
                      /\ TerminalsFor(c, out'[s]) = {} \/ TerminalsFor(c, toPanel'[s]) = {}
    BY DEF OneAnswer
  <2>3. CASE s # r
    <3>1. out'[s] = out[s] /\ toPanel'[s] = toPanel[s]
      BY <2>2, <2>3 DEF SentToPanel
    <3> QED BY <3>1 DEF OneAnswer
  <2>4. CASE s = r
    <3>1. out'[s] = Tail(out[s]) /\ (toPanel'[s] = toPanel[s] \/ toPanel'[s] = Append(toPanel[s], g))
      BY <2>2, <2>4 DEF SentToPanel
    <3>2. /\ AtMostOne(TerminalsFor(c, out'[s]))
          /\ TerminalsFor(c, out[s]) = {} => TerminalsFor(c, out'[s]) = {}
          /\ g.id = c /\ g.kind \in Terminal => TerminalsFor(c, out'[s]) = {} /\ TerminalsFor(c, out[s]) # {}
      BY <2>1, <2>4, <3>1, AfterTail DEF OneAnswer, g
    <3>3. CASE toPanel'[s] = toPanel[s] \/ ~(g.id = c /\ g.kind \in Terminal)
      <4>1. TerminalsFor(c, toPanel'[s]) = TerminalsFor(c, toPanel[s])
        <5>1. toPanel[s] \in Seq(DaemonFrame) /\ g \in DaemonFrame
          BY <2>1
        <5>2. ~(g.id = c /\ g.kind \in Terminal)
                => TerminalsFor(c, Append(toPanel[s], g)) = TerminalsFor(c, toPanel[s])
          BY <5>1, AppendTerminals
        <5> QED BY <3>1, <3>3, <5>2
      <4> QED BY <3>2, <4>1 DEF OneAnswer
    <3>4. CASE toPanel'[s] = Append(toPanel[s], g) /\ g.id = c /\ g.kind \in Terminal
      <4>1. TerminalsFor(c, toPanel[s]) = {}
        BY <3>2, <3>4 DEF OneAnswer
      <4>2. TerminalsFor(c, toPanel'[s]) \subseteq {Len(toPanel[s]) + 1}
        BY <2>1, <3>4, <4>1, AppendTerminals
      <4> QED BY <3>2, <3>4, <4>2 DEF AtMostOne
    <3> QED BY <3>1, <3>3, <3>4
  <2> QED BY <2>3, <2>4
<1>6. ASSUME NEW c \in Calls, Answer(c)  PROVE OneAnswer'
  <2>1. [kind |-> reply[c], id |-> c] \in DaemonFrame /\ op[c] # "done"
    BY <1>6 DEF ReplyReady, Answer, Terminal, DaemonFrame
  <2> QED BY <1>1, <1>4, <1>6, <2>1 DEF Answer, wireVars
<1>7. ASSUME NEW c \in Streams, EmitChunk(c)  PROVE OneAnswer'
  <2>1. [kind |-> "chunk", id |-> c] \in DaemonFrame
    BY DEF DaemonFrame
  <2> QED BY <1>4, <1>7, <2>1 DEF EmitChunk, Terminal, wireVars
<1>8. ASSUME NEW s \in Sockets, Disconnect(s) \/ (Closed(s) /\ UNCHANGED out)  PROVE OneAnswer'
  BY <1>3, <1>8 DEF Disconnect, Closed
<1> QED
  BY <1>1, <1>2, <1>5, <1>6, <1>7, <1>8, ChannelSteps

\* A call is answered at most once, by a goroutine that is done, on every socket:
\* nothing is sent twice, whichever path the goroutine left by.
THEOREM OneTerminalCorrect == Spec => []OneTerminal
<1>1. Init => OneAnswer
  BY NoTerminals DEF Init, WireInit, ClientInit, OneAnswer, AtMostOne
<1>2. TypeOK /\ ReplyReady /\ LinkInv /\ OneAnswer /\ [Next]_vars => OneAnswer'
  BY OneAnswerStep
<1>3. TypeOK /\ LinkInv /\ OneAnswer => OneTerminal
  <2> SUFFICES ASSUME TypeOK, LinkInv, OneAnswer, NEW s \in Sockets, NEW c \in Calls
               PROVE  LET n == Cardinality(TerminalsFor(c, toPanel[s])) + Cardinality(TerminalsFor(c, out[s]))
                      IN n <= 1 /\ (n = 1 => op[c] = "done")
    BY DEF OneTerminal
  <2>1. ASSUME NEW S, AtMostOne(S)  PROVE Cardinality(S) \in {0, 1} /\ (Cardinality(S) = 0 <=> S = {})
    <3>1. CASE S = {}
      BY <3>1, FS_EmptySet
    <3>2. CASE S # {}
      <4>1. PICK x : S = {x}
        BY <2>1, <3>2 DEF AtMostOne
      <4> QED BY <4>1, FS_Singleton
    <3> QED BY <3>1, <3>2
  <2>2. TerminalsFor(c, toPanel[s]) # {} \/ TerminalsFor(c, out[s]) # {} => op[c] = "done"
    BY DEF LinkInv, AnswersRan, TerminalsRan, TerminalsFor
  <2>3. /\ AtMostOne(TerminalsFor(c, out[s])) /\ AtMostOne(TerminalsFor(c, toPanel[s]))
        /\ TerminalsFor(c, out[s]) = {} \/ TerminalsFor(c, toPanel[s]) = {}
    BY DEF OneAnswer
  <2>4. /\ Cardinality(TerminalsFor(c, out[s])) \in {0, 1}
        /\ Cardinality(TerminalsFor(c, toPanel[s])) \in {0, 1}
        /\ Cardinality(TerminalsFor(c, out[s])) = 0 \/ Cardinality(TerminalsFor(c, toPanel[s])) = 0
        /\ Cardinality(TerminalsFor(c, out[s])) = 1 => op[c] = "done"
        /\ Cardinality(TerminalsFor(c, toPanel[s])) = 1 => op[c] = "done"
    BY <2>1, <2>2, <2>3
  <2> QED BY <2>4
<1> QED BY <1>1, <1>2, <1>3, TypeCorrect, LinkInvariant, PTL DEF Spec

(***************************************************************************)
(* Refinement: a step of the link is a step of CallService or a stutter.    *)
(***************************************************************************)
LEMMA HubRefines ==
  ASSUME TypeOK, LinkInv, HubNext, UNCHANGED clientVars
  PROVE  [Promise!Next]_(Promise!vars)
<1> USE DEF TypeOK, HubTypeOK
<1>0. UNCHANGED Ran
  BY DEF clientVars, Ran
<1>1. ASSUME NEW S \in SUBSET Calls, \A c \in S : call[c] = "open",
             call' = [c \in Calls |-> IF c \in S THEN "failed" ELSE call[c]]
      PROVE  Promise!Next
  <2>1. Promise!Fail(S)
    BY <1>0, <1>1 DEF Promise!Fail, Promise!Open, Promise!Calls
  <2> QED BY <2>1 DEF Promise!Next, Promise!Calls
<1>2. ASSUME NEW c \in Calls, call[c] = "open", call' = [call EXCEPT ![c] = "failed"]
       PROVE  Promise!Next
  <2>1. call' = [d \in Calls |-> IF d \in {c} THEN "failed" ELSE call[d]]
    BY <1>2
  <2>2. {c} \in SUBSET Calls /\ \A d \in {c} : call[d] = "open"
    BY <1>2
  <2> QED BY <1>1, <2>1, <2>2
<1>3. ASSUME UNCHANGED call  PROVE UNCHANGED Promise!vars
  BY <1>0, <1>3 DEF Promise!vars
<1>4. ASSUME NEW c \in Calls, call[c] = "new", Refused(c) \/ Sent(c)  PROVE Promise!Next
  <2>1. \E o \in {"open", "failed"} : call' = [call EXCEPT ![c] = o]
    BY <1>4 DEF Refused, Sent
  <2>2. Promise!Issue(c)
    BY <1>0, <1>4, <2>1 DEF Promise!Issue
  <2> QED BY <2>2 DEF Promise!Next, Promise!Calls
<1>5. ASSUME NEW s \in Sockets, Register(s)  PROVE Promise!Next \/ UNCHANGED Promise!vars
  <2>1. InFlight(entry) \in SUBSET Calls /\ \A c \in InFlight(entry) : call[c] = "open"
    BY DEF InFlight
  <2> QED BY <1>1, <1>3, <1>5, <2>1 DEF Register, ClosedAll
<1>6. ASSUME NEW s \in Sockets, Closed(s)  PROVE Promise!Next \/ UNCHANGED Promise!vars
  <2>1. InFlight(entry) \in SUBSET Calls /\ \A c \in InFlight(entry) : call[c] = "open"
    BY DEF InFlight
  <2> QED BY <1>1, <1>3, <1>6, <2>1 DEF Closed, ClosedAll
<1>7. ASSUME NEW s \in Sockets, Message(s)  PROVE Promise!Next \/ UNCHANGED Promise!vars
  <2> DEFINE f == Head(toPanel[s])
  <2>1. f \in DaemonFrame /\ In(f, toPanel[s])
    BY <1>7, HeadIn DEF Message, WireTypeOK
  <2>2. f.id \in Calls
    BY <2>1 DEF DaemonFrame
  <2>3. f.kind \in Terminal => op[f.id] = "done"
    BY <2>1, RanFrames DEF LinkInv, AnswersRan
  <2>4. CASE UNCHANGED call
    BY <1>3, <2>4
  <2>5. CASE f.kind = "res" /\ f.id \in InFlight(entry) /\ call' = [call EXCEPT ![f.id] = "ok"]
    <3>1. Promise!Succeed(f.id)
      BY <1>0, <2>2, <2>3, <2>5 DEF Promise!Succeed, InFlight, Ran, Terminal
    <3> QED BY <2>2, <3>1 DEF Promise!Next, Promise!Calls
  <2>6. CASE f.id \in InFlight(entry) /\ call' = [call EXCEPT ![f.id] = "failed"]
    BY <1>2, <2>2, <2>6 DEF InFlight
  <2> QED BY <1>7, <2>4, <2>5, <2>6 DEF Message, Handled
<1>8. ASSUME NEW c \in Unary, Request(c)  PROVE Promise!Next
  BY <1>4, <1>8 DEF Request
<1>9. ASSUME NEW c \in Unary, Timeout(c)  PROVE Promise!Next
  BY <1>2, <1>9 DEF Timeout, TimesOut
<1>10. ASSUME NEW c \in Streams, BrowserAttaches(c)  PROVE Promise!Next
  BY <1>4, <1>10 DEF BrowserAttaches, LinkInv, RelayAgrees
<1>11. ASSUME NEW c \in Streams, BrowserLeaves(c)  PROVE Promise!Next \/ UNCHANGED Promise!vars
  <2>1. CASE relay[c] = "attached"
    <3>1. Promise!Cancel(c)
      BY <1>0, <1>11, <2>1 DEF BrowserLeaves, Promise!Cancel, LinkInv, RelayAgrees
    <3> QED BY <3>1 DEF Promise!Next, Promise!Calls
  <2> QED BY <1>3, <1>11, <2>1 DEF BrowserLeaves
<1>12. ASSUME NEW s \in Sockets, Refuse(s)  PROVE UNCHANGED call
  BY <1>12 DEF Refuse
<1>13. ASSUME NEW c \in Streams, BrowserOpens(c) \/ BrowserDenied(c)  PROVE UNCHANGED call
  BY <1>13 DEF BrowserOpens, BrowserDenied
<1> QED
  BY <1>3, <1>5, <1>6, <1>7, <1>8, <1>9, <1>10, <1>11, <1>12, <1>13 DEF HubNext

LEMMA ClientRefines ==
  ASSUME TypeOK, LinkInv, ClientNext, UNCHANGED hubVars
  PROVE  [Promise!Next]_(Promise!vars)
<1> USE DEF TypeOK, ClientTypeOK
<1>0. [Next]_vars /\ UNCHANGED call
  BY DEF Next, hubVars
<1>1. CASE \A c \in Calls : ~Acquire(c)
  <2>1. Ran' = Ran
    BY <1>0, <1>1, Started DEF LinkInv, Ran
  <2> QED BY <1>0, <2>1 DEF Promise!vars
<1>2. ASSUME NEW c \in Calls, Acquire(c)  PROVE Promise!Next
  <2>1. c \notin Ran /\ Ran' = Ran \cup {c}
    BY <1>2 DEF Acquire, Ran
  <2>2. call[c] # "new"
    BY <1>2 DEF Acquire, LinkInv, Issued
  <2>3. Promise!Run(c)
    BY <1>0, <2>1, <2>2 DEF Promise!Run
  <2> QED BY <2>3 DEF Promise!Next, Promise!Calls
<1> QED BY <1>1, <1>2

\* Across reconnects, superseded sockets, timeouts, cancels and restarts of the
\* daemon, the link keeps the safety part of the promise CallService states.
THEOREM Refines == Spec => KeepsPromiseSafely
<1>1. Init => Promise!Init
  <2>1. Init => Ran = {}
    BY DEF Init, ClientInit, Ran
  <2>2. Init => call = [c \in Calls |-> "new"]
    BY DEF Init, HubInit
  <2> QED BY <2>1, <2>2 DEF Promise!Init, Promise!Calls
<1>2. TypeOK /\ LinkInv /\ [Next]_vars => [Promise!Next]_(Promise!vars)
  <2>1. UNCHANGED vars => UNCHANGED Promise!vars
    BY DEF vars, hubVars, clientVars, Promise!vars, Ran
  <2> QED BY <2>1, HubRefines, ClientRefines DEF Next
<1> QED BY <1>1, <1>2, TypeCorrect, LinkInvariant, PTL DEF Spec, KeepsPromiseSafely
=============================================================================
