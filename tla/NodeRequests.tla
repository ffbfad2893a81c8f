---------------------------- MODULE NodeRequests ----------------------------
(***************************************************************************)
(* What the panel's node handlers share: the node rows with their           *)
(* credentials (apps/panel/src/server/nodes/repository.ts) and the requests  *)
(* that are under way.  A request stands between two awaits of its handler;  *)
(* NodeDns and NodeBilling say what the helpers do, Nodes what the handlers  *)
(* do with them.                                                            *)
(***************************************************************************)
EXTENDS Naturals, FiniteSets

CONSTANTS
  Orgs,      \* organizations
  Nodes,     \* node ids: each is minted once
  Hosts,     \* addresses; a managed node's is <slug of its name>.<NODES_DOMAIN>
  Ips,       \* public addresses a box may be seen at
  Records,   \* ids of Cloudflare's A records
  Requests,  \* handlers that may be under way at once
  Nothing    \* null

ASSUME NothingAssumption ==
  Nothing \notin Orgs \cup Nodes \cup Hosts \cup Ips \cup Records \cup Requests
ASSUME NodesAssumption == IsFiniteSet(Nodes)   \* there is a number of them to count

VARIABLES
  row,       \* [Nodes -> Row]
  job,       \* [Requests -> Job]
  held       \* {<<node, key>>}: keys a daemon has received

rowVars == <<row, held>>

Row == [is : {"unborn", "live", "removed"}, org : Orgs \cup {Nothing},
        host : Hosts \cup {Nothing}, managed : BOOLEAN,
        \* the bootstrap token: minted, handed to the operator, burned
        token : {"none", "minted", "given", "burned"},
        key : Requests \cup {Nothing},          \* nodeKeyHash, by who minted it
        dnsSyncedIp : Ips \cup {Nothing}]

Unborn == [is |-> "unborn", org |-> Nothing, host |-> Nothing, managed |-> FALSE,
           token |-> "none", key |-> Nothing, dnsSyncedIp |-> Nothing]

DnsSteps == {"list", "write", "mark"}
SyncSteps == {"trial", "grant", "subscription", "seats", "push"}
Steps == DnsSteps \cup SyncSteps \cup
  {"idle", "count", "entitled", "unique", "insert", "burn", "answer", "polar", "reflect"}

Job == [does : {"none", "create", "remove", "activate", "beat", "cancel", "resume", "checkout"},
        at : Steps, org : Orgs \cup {Nothing}, node : Nodes \cup {Nothing},
        host : Hosts \cup {Nothing}, managed : BOOLEAN,
        ip : Ips \cup {Nothing},                \* observedIp; Nothing tears down
        found : Records \cup {Nothing},         \* the A record that was listed
        trial : BOOLEAN, seats : Nat]           \* what the billing sync has read

Idle == [does |-> "none", at |-> "idle", org |-> Nothing, node |-> Nothing,
         host |-> Nothing, managed |-> FALSE, ip |-> Nothing, found |-> Nothing,
         trial |-> FALSE, seats |-> 0]

RowsInit ==
  /\ row = [n \in Nodes |-> Unborn]
  /\ job = [r \in Requests |-> Idle]
  /\ held = {}

Live(n) == row[n].is = "live"
NodesOf(o) == {n \in Nodes : Live(n) /\ row[n].org = o}
Managed(n) == Live(n) /\ row[n].managed

At(r, step) == job[r].at = step
Begin(r, j) == At(r, "idle") /\ job' = [job EXCEPT ![r] = j]
Goes(r, step) == job' = [job EXCEPT ![r].at = step]
Ends(r) == job' = [job EXCEPT ![r] = Idle]

\* Whose request is about the organization's billing at all.
Working(o) == {r \in Requests : job[r].org = o}
=============================================================================
