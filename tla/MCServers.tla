----------------------------- MODULE MCServers -----------------------------
(***************************************************************************)
(* Small instances of Servers for TLC.  A behaviour follows one plan, which *)
(* says what each of two users may ask, so that one run covers every ask of *)
(* one user and the pairs that race on the daemon without their product.    *)
(* Calls that outlive their caller are left to the plan of one user.        *)
(***************************************************************************)
EXTENDS Servers, TLC

CONSTANTS u1, u2

VARIABLE plan

Plan(a, b, n) == [asks |-> (u1 :> a) @@ (u2 :> b), late |-> n]
Plans ==
  {Plan({"get", "delete"} \cup Power, {}, MaxLate),
   Plan({"delete"}, {"delete"}, 0),
   Plan({"delete"}, {"start"}, 0)}

InPlan ==
  /\ \A u \in Users : \A q \in request'[u] : q.ask \in plan.asks[u]
  /\ Cardinality(late') <= plan.late

MCInit == Init /\ plan \in Plans
MCNext == Next /\ InPlan /\ UNCHANGED plan
MCSpec == MCInit /\ [][MCNext]_<<vars, plan>> /\ Fairness
=============================================================================
