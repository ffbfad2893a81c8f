---------------------------- MODULE NodeBilling ----------------------------
(***************************************************************************)
(* An organization's node plan: apps/panel/src/server/billing.  Polar keeps *)
(* the subscription; the panel caches what its webhooks say in              *)
(* org_entitlement, grants the first node a free window of its own, gates   *)
(* the creation of a node and pushes the seat count after one is created or *)
(* removed.  The webhook events of Polar are external: they may arrive late *)
(* and out of order.                                                        *)
(***************************************************************************)
EXTENDS NodeRequests, Sequences

CONSTANTS
  FreeNodeGrant,   \* nodes the free window covers: 1
  PolarStatus,     \* the statuses of a subscription that Polar may report
  MaxEvents        \* bound: webhook events under way, per organization

ASSUME BillingAssumption ==
  FreeNodeGrant \in Nat /\ MaxEvents \in Nat /\ "active" \in PolarStatus

VARIABLES
  configured,   \* billingConfigured(): the environment of this panel
  entitlement,  \* [Orgs -> Entitlement]: org_entitlement
  polar,        \* [Orgs -> Subscription]: Polar's own
  cart,         \* [Orgs -> Nat]: seats of a checkout page that is open, or 0
  events,       \* [Orgs -> Seq(Subscription)]: webhook events under way
  shaken,       \* history: orgs whose cache was written out of order
  alone,        \* history: requests that no other request of their org met
  exact         \* history: orgs whose last change ended in a push by one alone

billingVars == <<configured, entitlement, polar, cart, events, shaken, alone, exact>>

\* The BillingStatus values; "none" is also the row that does not exist.
Status == {"none", "active", "trialing", "past_due", "canceled"}
Subscription == [status : PolarStatus \cup {"none"}, seats : Nat, cancel : BOOLEAN]
Entitlement == [exists : BOOLEAN, status : Status, subscription : BOOLEAN,
                cancel : BOOLEAN, trialEndsAt : {"none", "ahead", "past"}]

ToBillingStatus(s) ==
  CASE s \in {"active", "trialing", "past_due"} -> s
    [] s \in {"canceled", "unpaid"}             -> "canceled"
    [] OTHER                                    -> "none"

NoSubscription == [status |-> "none", seats |-> 0, cancel |-> FALSE]
NoEntitlement == [exists |-> FALSE, status |-> "none", subscription |-> FALSE,
                  cancel |-> FALSE, trialEndsAt |-> "none"]

BillingInit ==
  /\ configured \in BOOLEAN
  /\ entitlement = [o \in Orgs |-> NoEntitlement]
  /\ polar = [o \in Orgs |-> NoSubscription]
  /\ cart = [o \in Orgs |-> 0]
  /\ events = [o \in Orgs |-> <<>>]
  /\ shaken = {}
  /\ alone = {}
  /\ exact = {}

Larger(a, b) == IF a < b THEN b ELSE a
Less(a, b) == IF a < b THEN 0 ELSE a - b

AllowsNewUsage(o) == entitlement[o].status \in {"active", "trialing"}

\* requiredSeats, with the window of an entitlement that was read before.
RequiredSeats(o, trial) ==
  Less(Cardinality(NodesOf(o)),
       IF trial /\ entitlement[o].trialEndsAt = "ahead" THEN FreeNodeGrant ELSE 0)

(***************************************************************************)
(* Who was alone: a request that begins meets the others of its org, and    *)
(* whatever else moves the count, the window or the subscription ends that. *)
(***************************************************************************)
Meets(r, o) ==
  alone' = (alone \ (Working(o) \cup {r})) \cup (IF Working(o) = {} THEN {r} ELSE {})

Disturbs(o) ==
  /\ alone' = alone \ Working(o)
  /\ exact' = exact \ {o}

(***************************************************************************)
(* The helpers of the node handlers: assertCanAddNode, one await at a time, *)
(* and syncNodeBilling with its ensureNodeTrial and requiredSeats.          *)
(***************************************************************************)
CountNodes(r) ==
  /\ At(r, "count")
  /\ Goes(r, IF Cardinality(NodesOf(job[r].org)) < FreeNodeGrant THEN "unique" ELSE "entitled")
  /\ UNCHANGED <<rowVars, billingVars>>

\* A refusal is a NodeBillingError.
CheckEntitlement(r) ==
  /\ At(r, "entitled")
  /\ IF AllowsNewUsage(job[r].org) THEN Goes(r, "unique") ELSE Ends(r)
  /\ UNCHANGED <<rowVars, billingVars>>

\* The sync is over; a creation has its token to answer.
Synced(r) == IF job[r].does = "create" THEN Goes(r, "answer") ELSE Ends(r)

ReadTrial(r) ==
  /\ At(r, "trial")
  /\ IF ~configured THEN Synced(r)
     ELSE Goes(r, IF entitlement[job[r].org].exists THEN "subscription" ELSE "grant")
  /\ UNCHANGED <<rowVars, billingVars>>

\* The upsert sets the status whatever has been written since the read.
GrantTrial(r) ==
  /\ At(r, "grant")
  /\ Goes(r, "subscription")
  /\ LET o == job[r].org IN
     /\ entitlement' = [entitlement EXCEPT ![o] =
                          [@ EXCEPT !.exists = TRUE, !.status = "trialing", !.trialEndsAt = "ahead"]]
     /\ shaken' = IF entitlement[o].exists THEN shaken \cup {o} ELSE shaken
  /\ UNCHANGED <<rowVars, configured, polar, cart, events, alone, exact>>

ReadSubscription(r) ==
  /\ At(r, "subscription")
  /\ IF entitlement[job[r].org].subscription
       THEN job' = [job EXCEPT ![r].at = "seats",
                               ![r].trial = entitlement[job[r].org].trialEndsAt # "none"]
       ELSE Synced(r)
  /\ UNCHANGED <<rowVars, billingVars>>

Unwindowed(r) == RequiredSeats(job[r].org, FALSE)   \* mutation: the free node is charged
SeatsOf(r) == RequiredSeats(job[r].org, job[r].trial)

CountSeats(r) ==
  /\ At(r, "seats")
  /\ IF SeatsOf(r) > 0
       THEN job' = [job EXCEPT ![r].at = "push", ![r].seats = SeatsOf(r)]
       ELSE Synced(r)
  /\ UNCHANGED <<rowVars, billingVars>>

\* updateSubscriptionSeats.
PushSeats(r) ==
  /\ At(r, "push")
  /\ Synced(r)
  /\ LET o == job[r].org IN
     /\ polar' = [polar EXCEPT ![o].seats = Larger(1, job[r].seats)]
     /\ exact' = IF r \in alone THEN exact \cup {o} ELSE exact \ {o}
  /\ UNCHANGED <<rowVars, configured, entitlement, cart, events, shaken, alone>>

\* It throws, and so does the handler: nobody is handed the token.
PushFails(r) ==
  /\ At(r, "push")
  /\ Ends(r)
  /\ UNCHANGED <<rowVars, billingVars>>

(***************************************************************************)
(* The billing page: startNodeCheckout, cancelNodePlan, resumeNodePlan.     *)
(***************************************************************************)
StartCheckout(r, o) ==
  /\ Begin(r, [Idle EXCEPT !.does = "checkout", !.org = o, !.at = "polar",
                           !.seats = RequiredSeats(o, TRUE)])
  /\ configured
  /\ Meets(r, o)
  /\ UNCHANGED <<rowVars, configured, entitlement, polar, cart, events, shaken, exact>>

OpenCheckout(r) ==
  /\ At(r, "polar") /\ job[r].does = "checkout"
  /\ cart' = [cart EXCEPT ![job[r].org] = Larger(1, job[r].seats)]
  /\ Ends(r)
  /\ UNCHANGED <<rowVars, configured, entitlement, polar, events, shaken, alone, exact>>

\* Without a subscription there is nothing to cancel or to resume.
ChangePlan(r, o, what) ==
  /\ what \in {"cancel", "resume"}
  /\ configured /\ entitlement[o].subscription
  /\ Begin(r, [Idle EXCEPT !.does = what, !.org = o, !.at = "polar"])
  /\ Meets(r, o)
  /\ UNCHANGED <<rowVars, configured, entitlement, polar, cart, events, shaken, exact>>

Says(r) == job[r].does = "cancel"

\* Polar reports every change of a subscription.
Reports(o, s) ==
  /\ Len(events[o]) < MaxEvents
  /\ polar' = [polar EXCEPT ![o] = s]
  /\ events' = [events EXCEPT ![o] = Append(@, s)]

Reflecting(o) == {r \in Working(o) : At(r, "reflect")}

\* setSubscriptionCancel.
TellPolar(r) ==
  /\ At(r, "polar") /\ job[r].does # "checkout"
  /\ LET o == job[r].org IN
     /\ Reports(o, [polar[o] EXCEPT !.cancel = Says(r)])
     /\ shaken' = IF Reflecting(o) = {} THEN shaken ELSE shaken \cup {o}
  /\ Goes(r, "reflect")
  /\ UNCHANGED <<rowVars, configured, entitlement, cart, alone, exact>>

PolarFails(r) ==
  /\ At(r, "polar")
  /\ Ends(r)
  /\ UNCHANGED <<rowVars, billingVars>>

Reflect(r) ==
  /\ At(r, "reflect")
  /\ entitlement' = [entitlement EXCEPT ![job[r].org].cancel = Says(r)]
  /\ Ends(r)
  /\ UNCHANGED <<rowVars, configured, polar, cart, events, shaken, alone, exact>>

(***************************************************************************)
(* Polar, the clock, and the webhook.                                       *)
(***************************************************************************)
Pays(o) ==
  /\ cart[o] > 0 /\ polar[o] = NoSubscription
  /\ Reports(o, [status |-> "active", seats |-> cart[o], cancel |-> FALSE])
  /\ cart' = [cart EXCEPT ![o] = 0]
  /\ Disturbs(o)
  /\ UNCHANGED <<job, rowVars, configured, entitlement, shaken>>

\* A payment fails or is made up for, a period ends, the customer portal.
PolarChanges(o) ==
  /\ polar[o] # NoSubscription
  /\ \E status \in PolarStatus, cancel \in BOOLEAN :
       Reports(o, [polar[o] EXCEPT !.status = status, !.cancel = cancel])
  /\ shaken' = IF Reflecting(o) = {} THEN shaken ELSE shaken \cup {o}
  /\ UNCHANGED <<job, rowVars, configured, entitlement, cart, alone, exact>>

WindowCloses(o) ==
  /\ entitlement[o].trialEndsAt = "ahead"
  /\ entitlement' = [entitlement EXCEPT ![o].trialEndsAt = "past"]
  /\ Disturbs(o)
  /\ UNCHANGED <<job, rowVars, configured, polar, cart, events, shaken>>

\* What the row becomes of an event.
StatusOnly(o, s) ==   \* mutation: cancel_at_period_end is not cached
  [entitlement[o] EXCEPT !.exists = TRUE, !.status = ToBillingStatus(s.status), !.subscription = TRUE]
Reconcile(o, s) ==
  [entitlement[o] EXCEPT !.exists = TRUE, !.status = ToBillingStatus(s.status),
                         !.subscription = TRUE, !.cancel = s.cancel]

\* reconcileFromSubscription: events come in any order, and more than once.
Webhook(o) ==
  \E i \in DOMAIN events[o], again \in BOOLEAN :
    LET s == events[o][i] IN
    /\ entitlement' = [entitlement EXCEPT ![o] = Reconcile(o, s)]
    /\ events' = IF again THEN events ELSE [events EXCEPT ![o] = SubSeq(@, 1, i - 1) \o SubSeq(@, i + 1, Len(@))]
    /\ shaken' = IF i = 1 THEN shaken ELSE shaken \cup {o}
    /\ UNCHANGED <<job, rowVars, configured, polar, cart, alone, exact>>

BillingStep(r) ==
  \/ CountNodes(r) \/ CheckEntitlement(r) \/ ReadTrial(r) \/ GrantTrial(r)
  \/ ReadSubscription(r) \/ CountSeats(r) \/ PushSeats(r) \/ PushFails(r)
  \/ OpenCheckout(r) \/ TellPolar(r) \/ PolarFails(r) \/ Reflect(r)

PlanNext(o) ==
  \/ \E r \in Requests : StartCheckout(r, o) \/ \E what \in {"cancel", "resume"} : ChangePlan(r, o, what)
  \/ Pays(o) \/ PolarChanges(o) \/ WindowCloses(o) \/ Webhook(o)
=============================================================================
