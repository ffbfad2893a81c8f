------------------------------ MODULE MCNodes ------------------------------
(***************************************************************************)
(* A small instance of Nodes for TLC.  A behaviour follows one plan: the     *)
(* hostname of managed nodes with billing off; the seats of an organization *)
(* that creates, pays for and removes nodes; or its plan, cancelled and     *)
(* resumed while Polar has changes of its own.  It is cut off where its     *)
(* properties have nothing left to say: a hostname in trouble, a shaken     *)
(* cache.  The ids of nodes and the slots of requests are used in order.    *)
(***************************************************************************)
EXTENDS Nodes

CONSTANTS n1, h1, r1

VARIABLE plan

InOrder ==
  /\ row'[n1].is = "unborn" => \A n \in Nodes : row'[n].is = "unborn"
  /\ \A r \in Requests : At(r, "idle") /\ job'[r] # Idle => r = r1 \/ ~At(r1, "idle")

\* The first node's box moves; a second node has the hostname after it.
DnsPlan ==
  /\ h1 \notin troubled
  /\ \A n \in Nodes : address'[n] # address[n] => n = n1 /\ Live(n) /\ address'[n] \in Ips
  /\ \A r \in Requests : job'[r].does = "create" => job'[r].managed /\ job'[r].host = h1

Unmanaged ==
  /\ shaken = {}
  /\ \A n \in Nodes : ~row'[n].managed /\ row'[n].token # "given"
  /\ \A n \in Nodes : Live(n) => row'[n].host \in {row[n].host, Nothing}
  /\ \A r \in Requests : ~job'[r].managed
  /\ address' = address

\* Every creation has an address of its own; Polar reports the payment only.
Taken(h) == (\E n \in Nodes : Live(n) /\ row[n].host = h) \/ \E q \in Requests : job[q].host = h
SeatsPlan ==
  /\ Unmanaged /\ ~PanelRestarts
  /\ \A r \in Requests : job'[r].does \notin {"cancel", "resume"}
  /\ \A r \in Requests : At(r, "idle") /\ job'[r].does = "create" =>
        ~Taken(job'[r].host) /\ (job'[r].host = h1 \/ Taken(h1))
  /\ \A o \in Orgs : Len(events'[o]) > Len(events[o]) => polar[o] = NoSubscription
  /\ \A r \in Requests : At(r, "idle") /\ job'[r].does = "checkout" =>
        polar = [o \in Orgs |-> NoSubscription] /\ cart = [o \in Orgs |-> 0]

CachePlan == Unmanaged /\ row' = row /\ \A r \in Requests : job'[r].does # "create"

InPlan ==
  CASE plan = "dns"   -> DnsPlan
    [] plan = "seats" -> SeatsPlan
    [] plan = "cache" -> CachePlan

MCInit ==
  /\ Init
  /\ plan \in {"dns", "seats", "cache"} /\ (configured <=> plan # "dns")
  /\ \A n \in Nodes : address[n] \in {CHOOSE ip \in Ips : TRUE} \cup (IF n = n1 /\ plan = "dns" THEN {Nothing} ELSE {})
MCNext == Next /\ InOrder /\ InPlan /\ UNCHANGED plan
MCSpec == MCInit /\ [][MCNext]_<<vars, plan>> /\ Fairness
=============================================================================
