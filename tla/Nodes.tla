------------------------------- MODULE Nodes -------------------------------
(***************************************************************************)
(* The nodes of the panel: the server functions of                          *)
(* apps/panel/src/server/nodes/index.ts (createNode, updateNode,            *)
(* removeNode), the enrollment and the heartbeat of a box                   *)
(* (nodes/enrollment.ts), over the rows of NodeRequests, the record of      *)
(* NodeDns and the plan of NodeBilling.                                     *)
(***************************************************************************)
EXTENDS NodeDns, NodeBilling

VARIABLE address   \* [Nodes -> Ips or null]: where the panel sees a box call from

vars == <<row, job, held, dnsVars, billingVars, address>>

NodesTypeOK ==
  /\ row \in [Nodes -> Row]
  /\ job \in [Requests -> Job]
  /\ held \subseteq Nodes \X Requests
  /\ dns \in [Records -> [host : Hosts \cup {Nothing}, ip : Ips \cup {Nothing}]]
  /\ troubled \subseteq Hosts
  /\ address \in [Nodes -> Ips \cup {Nothing}]
  /\ configured \in BOOLEAN
  /\ entitlement \in [Orgs -> Entitlement]
  /\ polar \in [Orgs -> Subscription]
  /\ cart \in [Orgs -> Nat]
  /\ events \in [Orgs -> Seq(Subscription)]
  /\ shaken \subseteq Orgs /\ exact \subseteq Orgs
  /\ alone \subseteq Requests

Init ==
  /\ RowsInit
  /\ DnsInit
  /\ BillingInit
  /\ address \in [Nodes -> Ips \cup {Nothing}]

(***************************************************************************)
(* createNode.  The name of a managed node is its hostname; it is checked   *)
(* within the organization only.                                            *)
(***************************************************************************)
CreateNode(r, o, h, managed) ==
  /\ Begin(r, [Idle EXCEPT !.does = "create", !.org = o, !.host = h, !.managed = managed,
                           !.at = IF configured THEN "count" ELSE "unique"])
  /\ Meets(r, o)
  /\ UNCHANGED <<rowVars, dnsVars, address, configured, entitlement, polar, cart, events, shaken, exact>>

FqdnExists(o, h) == \E n \in NodesOf(o) : row[n].host = h

CheckUnique(r) ==
  /\ At(r, "unique")
  /\ IF FqdnExists(job[r].org, job[r].host) THEN Ends(r) ELSE Goes(r, "insert")
  /\ UNCHANGED <<rowVars, dnsVars, billingVars, address>>

Shared(h) == \E n \in Nodes : Managed(n) /\ row[n].host = h

\* The row and its bootstrap credential, in one transaction.
Insert(r, n) ==
  /\ At(r, "insert")
  /\ row[n].is = "unborn"
  /\ row' = [row EXCEPT ![n] = [Unborn EXCEPT !.is = "live", !.org = job[r].org,
               !.host = job[r].host, !.managed = job[r].managed, !.token = "minted"]]
  /\ job' = [job EXCEPT ![r].at = "trial", ![r].node = n]
  /\ Trouble(IF job[r].managed /\ Shared(job[r].host) THEN {job[r].host} ELSE {})
  /\ exact' = exact \ {job[r].org}
  /\ UNCHANGED <<held, dns, address, configured, entitlement, polar, cart, events, shaken, alone>>

UpdateNode(n, h) ==
  /\ Live(n)
  /\ row' = [row EXCEPT ![n].host = h]
  /\ Trouble(IF row[n].managed THEN {row[n].host, h} ELSE {})
  /\ UNCHANGED <<job, held, dns, billingVars, address>>

\* The credential goes with the row.
RemoveNode(r, n) ==
  /\ Live(n)
  /\ Begin(r, [Idle EXCEPT !.does = "remove", !.org = row[n].org, !.node = n,
               !.host = row[n].host, !.managed = row[n].managed,
               !.at = IF row[n].managed THEN "list" ELSE "trial"])
  /\ row' = [row EXCEPT ![n] = [Unborn EXCEPT !.is = "removed"]]
  /\ Trouble(IF row[n].managed THEN Overlapped(r) ELSE {})
  /\ Meets(r, row[n].org)
  /\ exact' = exact \ {row[n].org}
  /\ UNCHANGED <<held, dns, address, configured, entitlement, polar, cart, events, shaken>>

(***************************************************************************)
(* activateNode: a look at the credential, the compare-and-set that burns   *)
(* the token, the record, and the answer that carries the key.              *)
(***************************************************************************)
Activate(r, n) ==
  /\ Live(n) /\ row[n].token = "given"
  /\ Begin(r, [Idle EXCEPT !.does = "activate", !.at = "burn", !.node = n,
               !.host = row[n].host, !.managed = row[n].managed, !.ip = address[n]])
  /\ UNCHANGED <<rowVars, dnsVars, billingVars, address>>

BurnableAgain(n) == Live(n)   \* mutation: the token is not compared
Burnable(n) == row[n].token \in {"minted", "given"}

AfterBurn(r) == IF job[r].managed /\ job[r].ip # Nothing THEN "list" ELSE "answer"

Burn(r) ==
  /\ At(r, "burn")
  /\ LET n == job[r].node IN
     IF Burnable(n)
       THEN /\ row' = [row EXCEPT ![n].key = r, ![n].token = "burned"]
            /\ Goes(r, AfterBurn(r))
            /\ Trouble(IF AfterBurn(r) = "list" THEN Overlapped(r) ELSE {})
       ELSE Ends(r) /\ UNCHANGED <<row, troubled>>
  /\ UNCHANGED <<held, dns, billingVars, address>>

\* What the answer carries reaches its reader, or does not.
Answer(r) ==
  /\ At(r, "answer")
  /\ Ends(r)
  /\ LET n == job[r].node IN
     CASE job[r].does = "create" ->
            row' = (IF row[n].token = "minted" THEN [row EXCEPT ![n].token = "given"] ELSE row)
              /\ UNCHANGED held
       [] job[r].does = "activate" -> held' = held \cup {<<n, r>>} /\ UNCHANGED row
       [] OTHER -> UNCHANGED rowVars
  /\ UNCHANGED <<dnsVars, billingVars, address>>

AnswerLost(r) ==
  /\ At(r, "answer")
  /\ Ends(r)
  /\ UNCHANGED <<rowVars, dnsVars, billingVars, address>>

(***************************************************************************)
(* recordHeartbeat, of a box whose address is not the one that was synced.  *)
(* Any other beat changes nothing that is modelled.                         *)
(***************************************************************************)
NeverSynced(n) == address[n] # Nothing /\ row[n].dnsSyncedIp = Nothing   \* mutation: only the first
Stale(n) == address[n] # Nothing /\ address[n] # row[n].dnsSyncedIp

Beat(r, n) ==
  /\ <<n, row[n].key>> \in held
  /\ Managed(n) /\ Stale(n)
  /\ Begin(r, [Idle EXCEPT !.does = "beat", !.at = "list", !.node = n,
               !.host = row[n].host, !.managed = TRUE, !.ip = address[n]])
  /\ Trouble(Overlapped(r))
  /\ UNCHANGED <<rowVars, dns, billingVars, address>>

Moves(n, ip) ==
  /\ address' = [address EXCEPT ![n] = ip]
  /\ UNCHANGED <<row, job, held, dnsVars, billingVars>>

\* The panel dies and is started again.
PanelRestarts ==
  /\ job' = [r \in Requests |-> Idle]
  /\ Trouble({job[r].host : r \in {q \in Requests : Reconciling(q)}})
  /\ alone' = {}
  /\ UNCHANGED <<rowVars, dns, address, configured, entitlement, polar, cart, events, shaken, exact>>

Works(r) ==
  \/ DnsStep(r) /\ UNCHANGED <<billingVars, address>>
  \/ BillingStep(r) /\ UNCHANGED <<dnsVars, address>>
  \/ CheckUnique(r) \/ Burn(r) \/ Answer(r) \/ AnswerLost(r)
  \/ \E n \in Nodes : Insert(r, n)

Asks(r) ==
  \/ \E o \in Orgs, h \in Hosts, m \in BOOLEAN : CreateNode(r, o, h, m)
  \/ \E n \in Nodes : RemoveNode(r, n) \/ Activate(r, n) \/ Beat(r, n)

Next ==
  \/ \E r \in Requests : Works(r) \/ Asks(r)
  \/ \E o \in Orgs : PlanNext(o) /\ UNCHANGED <<dnsVars, address>>
  \/ \E n \in Nodes : \/ \E h \in Hosts : UpdateNode(n, h)
                      \/ \E ip \in Ips \cup {Nothing} : Moves(n, ip)
  \/ PanelRestarts

(***************************************************************************)
(* Fairness.  A handler goes on until it answers.  A box keeps sending      *)
(* heartbeats (cli.go's loop), so that one finds the panel free again and   *)
(* again; and calls to Cloudflare that are retried for ever do not all      *)
(* fail.  Nothing is assumed of users, boxes that move, or Polar.           *)
(***************************************************************************)
Fairness ==
  /\ \A r \in Requests : WF_vars(Works(r))
  /\ \A n \in Nodes : SF_vars(\E r \in Requests : Beat(r, n))
  /\ SF_vars(\E r \in Requests : List(r) /\ UNCHANGED <<billingVars, address>>)
  /\ SF_vars(\E r \in Requests : Write(r) /\ UNCHANGED <<billingVars, address>>)

Spec == Init /\ [][Next]_vars /\ Fairness

(***************************************************************************)
(* Enrollment (enrollment.ts:41-45, repository.ts:177-179: "a token can't   *)
(* mint two node keys"): whatever activations of a node interleave, a key   *)
(* that a box has received is the one the panel knows the node by.          *)
(***************************************************************************)
HeldKeysWork == \A n \in Nodes, k \in Requests : <<n, k>> \in held /\ Live(n) => row[n].key = k

(***************************************************************************)
(* The record (dns.ts:11-15): on a hostname that nothing troubled, and      *)
(* with no reconcile of it under way, the A records are just what the row   *)
(* of its managed node says was synced, and none without such a node.       *)
(***************************************************************************)
Synchronized(h) ==
  {row[n].dnsSyncedIp : n \in {m \in Nodes : Managed(m) /\ row[m].host = h}} \ {Nothing}

RecordAgrees ==
  \A h \in Hosts \ troubled :
    (\A r \in Requests : Reconciling(r) => job[r].host # h) => Resolves(h) = Synchronized(h)

(***************************************************************************)
(* The heartbeat heals the record (dns.ts:12-15): a managed node that keeps  *)
(* calling from one address resolves to it in the end, unless it is in      *)
(* trouble or is removed.                                                   *)
(***************************************************************************)
Unhealed(n) ==
  /\ Managed(n) /\ <<n, row[n].key>> \in held
  /\ address[n] # Nothing
  /\ row[n].host \notin troubled
  /\ Resolves(row[n].host) # {address[n]}

DnsHeals ==
  \A n \in Nodes : []<>~Unhealed(n) \/ []<><<address'[n] # address[n]>>_vars

(***************************************************************************)
(* Seats (node-sync.ts:67-73): after a creation or a removal that ran alone *)
(* and pushed, Polar charges for the nodes there are, less the free one,    *)
(* until the nodes, the window or the subscription change.                  *)
(***************************************************************************)
SeatsExact ==
  \A o \in exact : polar[o].seats = Larger(1, RequiredSeats(o, TRUE))

(***************************************************************************)
(* The cache (reconcile.ts:6-10: the rows "converge on whatever Polar last   *)
(* reported"): once the events are in, and if they came in order, the       *)
(* cached plan is Polar's, whatever cancellations and resumptions went on.  *)
(***************************************************************************)
CacheConverges ==
  \A o \in Orgs \ shaken :
    events[o] = <<>> /\ Reflecting(o) = {} /\ polar[o] # NoSubscription =>
      /\ entitlement[o].status = ToBillingStatus(polar[o].status)
      /\ entitlement[o].cancel = polar[o].cancel
=============================================================================
