------------------------------- MODULE Ports -------------------------------
(***************************************************************************)
(* The ports of one node: the panel's allocations                           *)
(* (apps/panel/src/server/allocations, and the calls of servers/index.ts    *)
(* that reserve and release them), and the box's firewall that follows them *)
(* (apps/wings/internal/firewall).  A call to the daemon may fail, or time  *)
(* out in the panel and still be carried out; the panel goes on either way. *)
(* The daemon serves its calls concurrently, each command of a backend a    *)
(* step of its own.                                                         *)
(***************************************************************************)
EXTENDS Naturals, Sequences, FiniteSets

CONSTANTS
  Slots,      \* ids of allocation rows: each is minted once
  PortSet,    \* ports that may be allocated
  Protected,  \* ports the daemon opens at boot and refuses to close
  ByHand,     \* ports the operator has opened himself
  GameServers,
  Askers,     \* requests of the panel that may be under way at once
  Nobody      \* null

ASSUME PortsAssumption ==
  /\ IsFiniteSet(Protected)
  /\ IsFiniteSet(ByHand) /\ ByHand \subseteq PortSet \ Protected
  /\ Nobody \notin Slots \cup PortSet \cup Protected \cup GameServers \cup Askers

VARIABLES
  slot,        \* [Slots -> Slot]: the allocation rows
  server,      \* [GameServers -> "unborn" | "live" | "gone"]: the registry rows
  ask,         \* [Askers -> Ask]: the panel's handlers
  call,        \* [Askers -> [PortSet -> Call]]: calls a handler waits for
  late,        \* {<<port, Call>>}: calls that the panel has given up
  backend,     \* "ufw", "iptables" or "unsupported": what the box has
  rules,       \* Seq(Rule): the box's rules, in their order
  crossed,     \* history: ports where requests met, or a call failed or was late
  renumbered   \* history: a ufw delete whose number was out of date

portsVars == <<slot, server, ask, call, late, backend, rules, crossed, renumbered>>

Slot == [is : {"unborn", "live", "gone"}, port : PortSet \cup {Nobody},
         server : GameServers \cup {Nobody}]
Ask == [does : {"none", "reserve", "release", "create", "remove"},
        at : {"idle", "insert", "send", "list", "wait"},
        port : PortSet \cup {Nobody}, slot : Slots \cup {Nobody},
        server : GameServers \cup {Nobody}]
Call == [does : {"none", "open", "close"}, at : {"sent", "checked", "found"}, number : Nat]
Rule == [port : PortSet \cup Protected \cup {Nobody}, ours : BOOLEAN]

NoSlot == [is |-> "unborn", port |-> Nobody, server |-> Nobody]
NoAsk == [does |-> "none", at |-> "idle", port |-> Nobody, slot |-> Nobody, server |-> Nobody]
NoCall == [does |-> "none", at |-> "sent", number |-> 0]
Sent(what) == [NoCall EXCEPT !.does = what]

\* Rules of the operator's, one of them about no port of the panel's, and the
\* ports the daemon opens for itself at boot.
Others == [port |-> Nobody, ours |-> FALSE]
Theirs(p) == [port |-> p, ours |-> FALSE]
Ours(p) == [port |-> p, ours |-> TRUE]
AtBoot == {Others} \cup {Theirs(p) : p \in ByHand} \cup {Ours(p) : p \in Protected}

PortsInit ==
  /\ slot = [s \in Slots |-> NoSlot]
  /\ server = [v \in GameServers |-> "unborn"]
  /\ ask = [r \in Askers |-> NoAsk]
  /\ call = [r \in Askers |-> [p \in PortSet |-> NoCall]]
  /\ late = {}
  /\ backend \in {"ufw", "iptables", "unsupported"}
  /\ \E order \in [1..Cardinality(AtBoot) -> AtBoot] :
       AtBoot = {order[i] : i \in DOMAIN order} /\ rules = order
  /\ crossed = {}
  /\ renumbered = FALSE

LiveSlot(s) == slot[s].is = "live"
SlotsAt(p) == {s \in Slots : LiveSlot(s) /\ slot[s].port = p}
SlotsOf(v) == {s \in Slots : LiveSlot(s) /\ slot[s].server = v}
PortsOf(v) == {slot[s].port : s \in SlotsOf(v)}

(***************************************************************************)
(* The firewall.  A close looks for the daemon's own rule: ufw by its       *)
(* number, which a second command deletes; iptables by its whole spec.      *)
(***************************************************************************)
MatchesPort(p) == {i \in DOMAIN rules : rules[i].port = p}   \* mutation: by the port, whoever wrote the rule
Matches(p) == {i \in DOMAIN rules : rules[i] = Ours(p)}
First(i, p) == i \in Matches(p) /\ \A k \in Matches(p) : i <= k
Without(i) == SubSeq(rules, 1, i - 1) \o SubSeq(rules, i + 1, Len(rules))

\* `ufw allow`: a rule of the same spec is there already, and gets the daemon's
\* comment, or one is added.
TheirsAt(p) == {i \in DOMAIN rules : rules[i] = Theirs(p)}
Allows(p) ==
  \/ TheirsAt(p) = {} /\ rules' = Append(rules, Ours(p))
  \/ \E i \in TheirsAt(p) : rules' = [rules EXCEPT ![i] = Ours(p)]

\* A command of a call on port p: the call goes on as c2, or is over (NoCall).
Opens(p, c, c2) ==
  /\ c.does = "open"
  /\ backend # "unsupported"
  /\ UNCHANGED renumbered
  /\ \/ c.at = "sent" /\ Matches(p) # {} /\ c2 = NoCall /\ UNCHANGED rules
     \/ /\ c.at = "sent" /\ Matches(p) = {}
        /\ backend = "ufw" /\ c2 = NoCall /\ Allows(p)
     \/ /\ c.at = "sent" /\ Matches(p) = {}
        /\ backend = "iptables" /\ c2 = [c EXCEPT !.at = "checked"] /\ UNCHANGED rules
     \/ c.at = "checked" /\ c2 = NoCall /\ rules' = Append(rules, Ours(p))

Guarded(p) == p \in Protected

FindsNumber(p, c, c2) ==
  /\ c.does = "close" /\ ~Guarded(p)
  /\ backend = "ufw" /\ c.at = "sent"
  /\ \/ Matches(p) = {} /\ c2 = NoCall
     \/ \E i \in DOMAIN rules : First(i, p) /\ c2 = [c EXCEPT !.at = "found", !.number = i]
  /\ UNCHANGED <<rules, renumbered>>

DeletesNumber(p, c, c2) ==
  /\ c.does = "close" /\ c.at = "found"
  /\ c2 = NoCall
  /\ rules' = IF c.number <= Len(rules) THEN Without(c.number) ELSE rules
  /\ renumbered' = (renumbered \/ c.number \notin Matches(p))

DeletesSpec(p, c, c2) ==
  /\ c.does = "close" /\ ~Guarded(p)
  /\ backend = "iptables"
  /\ c2 = NoCall
  /\ \/ Matches(p) = {} /\ UNCHANGED rules
     \/ \E i \in DOMAIN rules : First(i, p) /\ rules' = Without(i)
  /\ UNCHANGED renumbered

Refuses(p, c, c2) ==
  /\ c.does # "none" /\ c2 = NoCall
  /\ backend = "unsupported" \/ (c.does = "close" /\ Guarded(p))
  /\ UNCHANGED <<rules, renumbered>>

Runs(p, c, c2) ==
  \/ Opens(p, c, c2) \/ FindsNumber(p, c, c2) \/ DeletesNumber(p, c, c2)
  \/ DeletesSpec(p, c, c2) \/ Refuses(p, c, c2)

\* What may become of a call at its next command.
After(c) == {NoCall, [c EXCEPT !.at = "checked"]}
  \cup {[c EXCEPT !.at = "found", !.number = i] : i \in DOMAIN rules}

Serve(r, p) ==
  /\ \E c2 \in After(call[r][p]) :
       Runs(p, call[r][p], c2) /\ call' = [call EXCEPT ![r][p] = c2]
  /\ UNCHANGED <<slot, server, ask, late, backend, crossed>>

ServeLate(p, c) ==
  /\ <<p, c>> \in late
  /\ \E c2 \in After(c) :
       /\ Runs(p, c, c2)
       /\ late' = (late \ {<<p, c>>}) \cup (IF c2 = NoCall THEN {} ELSE {<<p, c2>>})
  /\ UNCHANGED <<slot, server, ask, call, backend, crossed>>

\* The link is down, the call is refused, or a command fails.
CallFails(r, p) ==
  /\ call[r][p] # NoCall
  /\ call' = [call EXCEPT ![r][p] = NoCall]
  /\ crossed' = crossed \cup {p}
  /\ UNCHANGED <<slot, server, ask, late, backend, rules, renumbered>>

\* The panel's timeout: closeFirewall and openFirewall swallow it.
CallTimesOut(r, p) ==
  /\ call[r][p] # NoCall
  /\ call' = [call EXCEPT ![r][p] = NoCall]
  /\ late' = late \cup {<<p, call[r][p]>>}
  /\ crossed' = crossed \cup {p}
  /\ UNCHANGED <<slot, server, ask, backend, rules, renumbered>>

(***************************************************************************)
(* The panel's handlers.  A request is on the port it names, or on the      *)
(* ports of its server; a port where two of them meet is crossed.           *)
(***************************************************************************)
On(r, p) ==
  \/ ask[r].port = p
  \/ ask[r].does = "remove" /\ (p \in PortsOf(ask[r].server) \/ call[r][p] # NoCall)
Busy(p) == (\E r \in Askers : On(r, p)) \/ \E l \in late : l[1] = p

Meets(P) == crossed' = crossed \cup {p \in P : Busy(p)}

Asks(r, a) == ask[r] = NoAsk /\ ask' = [ask EXCEPT ![r] = a]
Then(r, at) == ask' = [ask EXCEPT ![r].at = at]
Over(r) == ask' = [ask EXCEPT ![r] = NoAsk]

CreateAllocation(r, p) ==
  /\ Asks(r, [NoAsk EXCEPT !.does = "reserve", !.at = "insert", !.port = p])
  /\ Meets({p})
  /\ UNCHANGED <<slot, server, call, late, backend, rules, renumbered>>

\* The registry row lands first; the port is claimed after it.
DeployServer(r, v, p) ==
  /\ server[v] = "unborn"
  /\ server' = [server EXCEPT ![v] = "live"]
  /\ Asks(r, [NoAsk EXCEPT !.does = "create", !.at = "insert", !.port = p, !.server = v])
  /\ Meets({p})
  /\ UNCHANGED <<slot, call, late, backend, rules, renumbered>>

ReservableTwice(r) == ask[r].server # Nobody => server[ask[r].server] = "live"   \* mutation: no unique index

\* reserveAllocation: the row, unless the unique index or the server refuses it.
Reservable(r) ==
  /\ SlotsAt(ask[r].port) = {}
  /\ ask[r].server # Nobody => server[ask[r].server] = "live"

InsertSlot(r, s) ==
  /\ ask[r].at = "insert" /\ slot[s].is = "unborn"
  /\ IF Reservable(r)
       THEN /\ slot' = [slot EXCEPT ![s] = [is |-> "live", port |-> ask[r].port, server |-> ask[r].server]]
            /\ ask' = [ask EXCEPT ![r].at = "send", ![r].slot = s]
       ELSE Over(r) /\ UNCHANGED slot
  /\ UNCHANGED <<server, call, late, backend, rules, crossed, renumbered>>

\* removeAllocation: not while a server has the slot.
RemoveAllocation(r, s) ==
  /\ LiveSlot(s) /\ slot[s].server = Nobody
  /\ Asks(r, [NoAsk EXCEPT !.does = "release", !.at = "send", !.port = slot[s].port, !.slot = s])
  /\ Meets({slot[s].port})
  /\ UNCHANGED <<slot, server, call, late, backend, rules, renumbered>>

\* setFirewallPort, of the one port the request is about.
Send(r) ==
  /\ ask[r].at = "send"
  /\ Then(r, "wait")
  /\ call' = [call EXCEPT ![r][ask[r].port] = Sent(IF ask[r].does = "release" THEN "close" ELSE "open")]
  /\ UNCHANGED <<slot, server, late, backend, rules, crossed, renumbered>>

\* Ports that a deploy is still claiming for a server.
Claimed(v) == {p \in PortSet : \E q \in Askers : ask[q].server = v /\ ask[q].port = p}

RemoveServer(r, v) ==
  /\ server[v] = "live"
  /\ Asks(r, [NoAsk EXCEPT !.does = "remove", !.at = "list", !.server = v])
  /\ Meets(PortsOf(v) \cup Claimed(v))
  /\ UNCHANGED <<slot, server, call, late, backend, rules, renumbered>>

\* releaseServerFirewall: every port of the server at once.
ReleasePorts(r) ==
  /\ ask[r].at = "list"
  /\ Then(r, "wait")
  /\ call' = [call EXCEPT ![r] =
       [p \in PortSet |-> IF p \in PortsOf(ask[r].server) THEN Sent("close") ELSE NoCall]]
  /\ UNCHANGED <<slot, server, late, backend, rules, crossed, renumbered>>

Answered(r) == ask[r].at = "wait" /\ \A p \in PortSet : call[r][p] = NoCall

Gone(S) == slot' = [s \in Slots |-> IF s \in S THEN [slot[s] EXCEPT !.is = "gone"] ELSE slot[s]]

\* The rows go after the calls: a slot's, or a server's with its slots.
Conclude(r) ==
  /\ Answered(r)
  /\ Over(r)
  /\ CASE ask[r].does = "release" -> Gone({ask[r].slot} \cap {s \in Slots : LiveSlot(s)}) /\ UNCHANGED server
       [] ask[r].does = "remove"  -> /\ Gone(SlotsOf(ask[r].server))
                                     /\ server' = [server EXCEPT ![ask[r].server] = "gone"]
       [] OTHER -> UNCHANGED <<slot, server>>
  /\ UNCHANGED <<call, late, backend, rules, crossed, renumbered>>

PortsNext ==
  \/ \E r \in Askers :
       \/ Send(r) \/ ReleasePorts(r) \/ Conclude(r)
       \/ \E p \in PortSet : \/ CreateAllocation(r, p) \/ Serve(r, p)
                             \/ CallFails(r, p) \/ CallTimesOut(r, p)
                             \/ \E v \in GameServers : DeployServer(r, v, p)
       \/ \E s \in Slots : InsertSlot(r, s) \/ RemoveAllocation(r, s)
       \/ \E v \in GameServers : RemoveServer(r, v)
  \/ \E l \in late : ServeLate(l[1], l[2])

PortsSpec == PortsInit /\ [][PortsNext]_portsVars

PortsTypeOK ==
  /\ slot \in [Slots -> Slot]
  /\ server \in [GameServers -> {"unborn", "live", "gone"}]
  /\ ask \in [Askers -> Ask]
  /\ call \in [Askers -> [PortSet -> Call]]
  /\ late \subseteq PortSet \X Call
  /\ backend \in {"ufw", "iptables", "unsupported"}
  /\ rules \in Seq(Rule)
  /\ crossed \subseteq PortSet
  /\ renumbered \in BOOLEAN

(***************************************************************************)
(* The rules that were there at boot stay whatever is reserved and released *)
(* (firewall.go:6-9), the operator's own rule for a port of the panel's and  *)
(* the guarded ports among them, unless a ufw number had moved: but for the *)
(* one that ufw takes for the daemon's, the operator's rule of a port the    *)
(* panel has had a row for.                                                 *)
(***************************************************************************)
Reserved(p) == \E s \in Slots : slot[s].is # "unborn" /\ slot[s].port = p
TakenOver(q) == backend = "ufw" /\ \E p \in ByHand : q = Theirs(p) /\ Reserved(p)
OthersKept ==
  renumbered \/ \A q \in AtBoot : TakenOver(q) \/ \E i \in DOMAIN rules : rules[i] = q

(***************************************************************************)
(* Firewall and allocations in lockstep (allocations/service.ts:10-12): a    *)
(* port on which no two requests met and no call failed or was late is open *)
(* exactly while a row holds it, once nothing is under way on it.           *)
(***************************************************************************)
Lockstep ==
  \A p \in PortSet \ (crossed \cup Protected) :
    ~renumbered /\ backend # "unsupported" /\ ~Busy(p) =>
      (Matches(p) # {} <=> SlotsAt(p) # {})

(***************************************************************************)
(* What the comments say and the code does not do; see the README.          *)
(***************************************************************************)
\* firewall.go:7-8: "the daemon never touches the operator's own rules": what
\* he has opened stays open.
OperatorsStayOpen == \A p \in ByHand : \E i \in DOMAIN rules : rules[i].port = p
=============================================================================
