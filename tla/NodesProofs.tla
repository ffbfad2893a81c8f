----------------------------- MODULE NodesProofs -----------------------------
(***************************************************************************)
(* Theorems about Nodes, for any organizations, nodes, hostnames, addresses *)
(* and requests: the types, the keys that boxes hold, the A records, the   *)
(* cached plan and the seats that were pushed.                             *)
(***************************************************************************)
EXTENDS Nodes, FiniteSetTheorems, SequenceTheorems, TLAPS

(***************************************************************************)
(* What a row is, and what a request carries at each of its steps.          *)
(***************************************************************************)
RowsFormed ==
  \A n \in Nodes :
    /\ row[n].is # "live" => row[n].token = "none"
    /\ Live(n) => row[n].org \in Orgs /\ row[n].host \in Hosts

\* At a step, which the request is at or goes to.
Carries(j, at) ==
  /\ at \in DnsSteps =>
       /\ j.does \in {"activate", "beat", "remove"}
       /\ j.host \in Hosts /\ j.node \in Nodes
       /\ j.does = "remove" <=> j.ip = Nothing
       /\ j.does = "remove" => at # "mark" /\ j.org \in Orgs
       /\ at = "write" /\ j.ip = Nothing => j.found # Nothing
  /\ at = "burn" => j.does = "activate" /\ j.node \in Nodes /\ j.host \in Hosts
  /\ at = "answer" => j.does \in {"create", "activate", "beat"} /\ j.node \in Nodes
  /\ at \in {"count", "entitled", "unique", "insert"} =>
       j.does = "create" /\ j.org \in Orgs /\ j.host \in Hosts /\ j.node = Nothing
  /\ at \in SyncSteps => j.does \in {"create", "remove"} /\ j.org \in Orgs /\ j.node \in Nodes
  /\ at \in {"polar", "reflect"} =>
       j.does \in {"cancel", "resume", "checkout"} /\ j.org \in Orgs /\ j.node = Nothing

RowsOK == row \in [Nodes -> Row] /\ held \subseteq Nodes \X Requests /\ RowsFormed

JobsOK == job \in [Requests -> Job] /\ \A r \in Requests : Carries(job[r], job[r].at)

RecordsOK ==
  /\ dns \in [Records -> [host : Hosts \cup {Nothing}, ip : Ips \cup {Nothing}]]
  /\ troubled \subseteq Hosts
  /\ address \in [Nodes -> Ips \cup {Nothing}]

PlansOK ==
  /\ configured \in BOOLEAN
  /\ entitlement \in [Orgs -> Entitlement]
  /\ polar \in [Orgs -> Subscription]
  /\ cart \in [Orgs -> Nat]
  /\ events \in [Orgs -> Seq(Subscription)]
  /\ shaken \subseteq Orgs /\ exact \subseteq Orgs
  /\ alone \subseteq Requests

Formed == RowsOK /\ JobsOK /\ RecordsOK /\ PlansOK

USE NothingAssumption, NodesAssumption, BillingAssumption
    DEF NothingAssumption, BillingAssumption

(***************************************************************************)
(* Types, part by part.                                                     *)
(***************************************************************************)
LEMMA FormedIsTyped == Formed => NodesTypeOK
BY DEF Formed, RowsOK, JobsOK, RecordsOK, PlansOK, NodesTypeOK

LEMMA IdleOK == Idle \in Job /\ Carries(Idle, "idle")
BY DEF Idle, Job, Steps, DnsSteps, SyncSteps, Carries

LEMMA JobSet ==
  ASSUME JobsOK, NEW r \in Requests, NEW j \in Job, Carries(j, j.at), job' = [job EXCEPT ![r] = j]
  PROVE  JobsOK'
BY DEF JobsOK

LEMMA JobEnds ==
  ASSUME JobsOK, NEW r \in Requests, Ends(r)
  PROVE  JobsOK'
<1>1. Idle.at = "idle"
  BY DEF Idle
<1> QED BY <1>1, IdleOK, JobSet DEF Ends

LEMMA JobGoes ==
  ASSUME JobsOK, NEW r \in Requests, NEW step \in Steps, Carries(job[r], step), Goes(r, step)
  PROVE  JobsOK'
<1> DEFINE j == [job[r] EXCEPT !.at = step]
<1>1. job[r] \in Job
  BY DEF JobsOK
<1>2. /\ j \in Job /\ j.at = step /\ j.does = job[r].does /\ j.org = job[r].org
      /\ j.node = job[r].node /\ j.host = job[r].host /\ j.ip = job[r].ip /\ j.found = job[r].found
  BY <1>1 DEF Job
<1>3. job' = [job EXCEPT ![r] = j]
  BY DEF JobsOK, Goes
<1> HIDE DEF j
<1>4. Carries(j, j.at)
  BY <1>2 DEF Carries
<1> QED BY <1>2, <1>3, <1>4, JobSet

LEMMA SeatsTyped == ASSUME NEW o \in Orgs, NEW trial \in BOOLEAN PROVE RequiredSeats(o, trial) \in Nat
<1>1. IsFiniteSet(NodesOf(o))
  BY FS_Subset DEF NodesOf
<1>2. Cardinality(NodesOf(o)) \in Nat
  BY <1>1, FS_CardinalityType
<1> QED BY <1>2 DEF RequiredSeats, Less

LEMMA SyncedOK ==
  ASSUME JobsOK, NEW r \in Requests, job[r].at \in SyncSteps, Synced(r)
  PROVE  JobsOK'
<1>1. job[r].does = "create" => Carries(job[r], "answer")
  BY DEF JobsOK, Carries, DnsSteps, SyncSteps
<1> QED BY <1>1, JobEnds, JobGoes DEF Synced, Steps

LEMMA PlansSame == ASSUME PlansOK, UNCHANGED billingVars PROVE PlansOK'
BY DEF PlansOK, billingVars

LEMMA RowsSame == ASSUME RowsOK, UNCHANGED rowVars PROVE RowsOK'
BY DEF RowsOK, RowsFormed, Live, rowVars

LEMMA RecordsSame == ASSUME RecordsOK, UNCHANGED <<dnsVars, address>> PROVE RecordsOK'
BY DEF RecordsOK, dnsVars

LEMMA SubscriptionEdit ==
  ASSUME NEW s \in Subscription, NEW n \in Nat, NEW c \in BOOLEAN, NEW st \in PolarStatus
  PROVE  /\ [s EXCEPT !.seats = n] \in Subscription
         /\ [s EXCEPT !.cancel = c] \in Subscription
         /\ [s EXCEPT !.status = st, !.cancel = c] \in Subscription
BY DEF Subscription

LEMMA EntitlementEdit ==
  ASSUME NEW x \in Entitlement, NEW st \in Status, NEW c \in BOOLEAN, NEW t \in {"none", "ahead", "past"}
  PROVE  /\ [x EXCEPT !.exists = TRUE, !.status = st, !.trialEndsAt = t] \in Entitlement
         /\ [x EXCEPT !.cancel = c] \in Entitlement
         /\ [x EXCEPT !.trialEndsAt = t] \in Entitlement
         /\ [x EXCEPT !.exists = TRUE, !.status = st, !.subscription = TRUE, !.cancel = c] \in Entitlement
BY DEF Entitlement

LEMMA BillingTyped ==
  ASSUME Formed, NEW r \in Requests, BillingStep(r)
  PROVE  JobsOK' /\ PlansOK'
<1> USE DEF Formed
<1>0. job[r] \in Job /\ Carries(job[r], job[r].at)
  BY DEF JobsOK
<1>1. CASE CountNodes(r)
  <2>1. Carries(job[r], "unique") /\ Carries(job[r], "entitled")
    BY <1>0, <1>1 DEF CountNodes, At, Carries, DnsSteps, SyncSteps
  <2> QED BY <1>1, <2>1, JobGoes, PlansSame DEF CountNodes, Steps
<1>2. CASE CheckEntitlement(r)
  <2>1. Carries(job[r], "unique")
    BY <1>0, <1>2 DEF CheckEntitlement, At, Carries, DnsSteps, SyncSteps
  <2> QED BY <1>2, <2>1, JobGoes, JobEnds, PlansSame DEF CheckEntitlement, Steps
<1>3. CASE ReadTrial(r)
  <2>1. job[r].at \in SyncSteps /\ Carries(job[r], "subscription") /\ Carries(job[r], "grant")
    BY <1>0, <1>3 DEF ReadTrial, At, Carries, DnsSteps, SyncSteps
  <2> QED BY <1>3, <2>1, JobGoes, SyncedOK, PlansSame DEF ReadTrial, Steps, SyncSteps
<1>4. CASE GrantTrial(r)
  <2>1. job[r].org \in Orgs /\ Carries(job[r], "subscription")
    BY <1>0, <1>4 DEF GrantTrial, At, Carries, DnsSteps, SyncSteps
  <2>2. JobsOK'
    BY <1>4, <2>1, JobGoes DEF GrantTrial, Steps, SyncSteps
  <2> DEFINE old == entitlement[job[r].org]
  <2>3. [old EXCEPT !.exists = TRUE, !.status = "trialing", !.trialEndsAt = "ahead"] \in Entitlement
    <3>1. old \in Entitlement
      BY <2>1 DEF PlansOK
    <3> HIDE DEF old
    <3> QED BY <3>1, EntitlementEdit DEF Status
  <2>4. entitlement' \in [Orgs -> Entitlement]
    BY <1>4, <2>1, <2>3 DEF GrantTrial, PlansOK
  <2> QED BY <1>4, <2>1, <2>2, <2>4 DEF GrantTrial, PlansOK
<1>5. CASE ReadSubscription(r)
  <2>1. job[r].at \in SyncSteps /\ Carries(job[r], "seats")
    BY <1>0, <1>5 DEF ReadSubscription, At, Carries, DnsSteps, SyncSteps
  <2>2. CASE entitlement[job[r].org].subscription
    <3> DEFINE trial == entitlement[job[r].org].trialEndsAt # "none"
               j == [job[r] EXCEPT !.at = "seats", !.trial = trial]
    <3>0. trial \in BOOLEAN
      OBVIOUS
    <3> HIDE DEF trial
    <3>1. /\ j \in Job /\ j.at = "seats" /\ j.does = job[r].does /\ j.org = job[r].org
          /\ j.node = job[r].node /\ j.host = job[r].host /\ j.ip = job[r].ip /\ j.found = job[r].found
      BY <1>0, <3>0 DEF Job, Steps, SyncSteps
    <3>2. job' = [job EXCEPT ![r] = j]
      BY <1>5, <2>2 DEF ReadSubscription, JobsOK, trial
    <3> HIDE DEF j
    <3>3. Carries(j, j.at)
      BY <2>1, <3>1 DEF Carries
    <3> QED BY <1>5, <3>1, <3>2, <3>3, JobSet, PlansSame DEF ReadSubscription
  <2>3. CASE ~entitlement[job[r].org].subscription
    BY <1>5, <2>1, <2>3, SyncedOK, PlansSame DEF ReadSubscription
  <2> QED BY <2>2, <2>3
<1>6. CASE CountSeats(r)
  <2>1. job[r].at \in SyncSteps /\ Carries(job[r], "push") /\ SeatsOf(r) \in Nat
    BY <1>0, <1>6, SeatsTyped DEF CountSeats, At, Carries, DnsSteps, SyncSteps, SeatsOf, Job
  <2>2. CASE SeatsOf(r) > 0
    <3> DEFINE j == [job[r] EXCEPT !.at = "push", !.seats = SeatsOf(r)]
    <3>1. /\ j \in Job /\ j.at = "push" /\ j.does = job[r].does /\ j.org = job[r].org
          /\ j.node = job[r].node /\ j.host = job[r].host /\ j.ip = job[r].ip /\ j.found = job[r].found
      BY <1>0, <2>1 DEF Job, Steps, SyncSteps
    <3>2. job' = [job EXCEPT ![r] = j]
      BY <1>6, <2>2 DEF CountSeats, JobsOK
    <3> HIDE DEF j
    <3>3. Carries(j, j.at)
      BY <2>1, <3>1 DEF Carries
    <3> QED BY <1>6, <3>1, <3>2, <3>3, JobSet, PlansSame DEF CountSeats
  <2>3. CASE ~(SeatsOf(r) > 0)
    BY <1>6, <2>1, <2>3, SyncedOK, PlansSame DEF CountSeats
  <2> QED BY <2>2, <2>3
<1>7. CASE PushSeats(r)
  <2>1. job[r].at \in SyncSteps /\ job[r].org \in Orgs /\ job[r].seats \in Nat
    BY <1>0, <1>7 DEF PushSeats, At, Carries, DnsSteps, SyncSteps, Job
  <2>2. JobsOK'
    BY <1>7, <2>1, SyncedOK DEF PushSeats
  <2>3. Larger(1, job[r].seats) \in Nat
    BY <2>1 DEF Larger
  <2>4. [polar[job[r].org] EXCEPT !.seats = Larger(1, job[r].seats)] \in Subscription
    <3>1. polar[job[r].org] \in Subscription
      BY <2>1 DEF PlansOK
    <3> QED BY <2>3, <3>1, SubscriptionEdit
  <2>5. polar' \in [Orgs -> Subscription]
    BY <1>7, <2>1, <2>4 DEF PushSeats, PlansOK
  <2> QED BY <1>7, <2>1, <2>2, <2>5 DEF PushSeats, PlansOK
<1>8. CASE PushFails(r)
  BY <1>8, JobEnds, PlansSame DEF PushFails
<1>9. CASE OpenCheckout(r)
  <2>1. job[r].org \in Orgs /\ job[r].seats \in Nat
    BY <1>0, <1>9 DEF OpenCheckout, At, Carries, DnsSteps, SyncSteps, Job
  <2>2. cart' \in [Orgs -> Nat]
    BY <1>9, <2>1 DEF OpenCheckout, PlansOK, Larger
  <2> QED BY <1>9, <2>2, JobEnds DEF OpenCheckout, PlansOK
<1>10. CASE TellPolar(r)
  <2>1. job[r].org \in Orgs /\ Carries(job[r], "reflect")
    BY <1>0, <1>10 DEF TellPolar, At, Carries, DnsSteps, SyncSteps
  <2>2. [polar[job[r].org] EXCEPT !.cancel = Says(r)] \in Subscription
    <3>1. Says(r) \in BOOLEAN
      BY DEF Says
    <3>2. polar[job[r].org] \in Subscription
      BY <2>1 DEF PlansOK
    <3> QED BY <3>1, <3>2, SubscriptionEdit
  <2>3. polar' \in [Orgs -> Subscription] /\ events' \in [Orgs -> Seq(Subscription)]
    BY <1>10, <2>1, <2>2 DEF TellPolar, Reports, PlansOK
  <2>4. JobsOK'
    BY <1>10, <2>1, JobGoes DEF TellPolar, Steps
  <2> QED BY <1>10, <2>1, <2>3, <2>4 DEF TellPolar, PlansOK
<1>11. CASE PolarFails(r)
  BY <1>11, JobEnds, PlansSame DEF PolarFails
<1>12. CASE Reflect(r)
  <2>1. job[r].org \in Orgs
    BY <1>0, <1>12 DEF Reflect, At, Carries, DnsSteps, SyncSteps
  <2>2. entitlement' \in [Orgs -> Entitlement]
    <3>1. Says(r) \in BOOLEAN
      BY DEF Says
    <3>2. [entitlement[job[r].org] EXCEPT !.cancel = Says(r)] \in Entitlement
      <4>1. entitlement[job[r].org] \in Entitlement
        BY <2>1 DEF PlansOK
      <4> QED BY <3>1, <4>1, EntitlementEdit DEF Status
    <3> QED BY <1>12, <2>1, <3>2 DEF Reflect, PlansOK
  <2> QED BY <1>12, <2>2, JobEnds DEF Reflect, PlansOK
<1> QED
  BY <1>1, <1>2, <1>3, <1>4, <1>5, <1>6, <1>7, <1>8, <1>9, <1>10, <1>11, <1>12 DEF BillingStep

LEMMA ShorterQueue ==
  ASSUME NEW q \in Seq(Subscription), NEW i \in DOMAIN q
  PROVE  SubSeq(q, 1, i - 1) \o SubSeq(q, i + 1, Len(q)) \in Seq(Subscription)
<1>1. Len(q) \in Nat /\ i \in 1..Len(q)
  OBVIOUS
<1>2. SubSeq(q, 1, i - 1) \in Seq(Subscription) /\ SubSeq(q, i + 1, Len(q)) \in Seq(Subscription)
  BY <1>1, SubSeqProperties
<1> QED BY <1>2, ConcatProperties

LEMMA ReportsOK ==
  ASSUME PlansOK, NEW o \in Orgs, NEW s \in Subscription, Reports(o, s)
  PROVE  polar' \in [Orgs -> Subscription] /\ events' \in [Orgs -> Seq(Subscription)]
BY DEF PlansOK, Reports

LEMMA PlanTyped ==
  ASSUME Formed, NEW o \in Orgs, PlanNext(o)
  PROVE  JobsOK' /\ PlansOK'
<1> USE DEF Formed
<1>1. ASSUME NEW r \in Requests, StartCheckout(r, o)  PROVE JobsOK' /\ PlansOK'
  <2> DEFINE seats == RequiredSeats(o, TRUE)
             j == [Idle EXCEPT !.does = "checkout", !.org = o, !.at = "polar", !.seats = seats]
  <2>1. seats \in Nat
    BY SeatsTyped
  <2> HIDE DEF seats
  <2>2. j \in Job /\ Carries(j, j.at)
    BY <2>1 DEF Idle, Job, Steps, DnsSteps, SyncSteps, Carries
  <2>3. job' = [job EXCEPT ![r] = j]
    BY <1>1 DEF StartCheckout, Begin, seats
  <2> HIDE DEF j
  <2> QED BY <1>1, <2>2, <2>3, JobSet DEF StartCheckout, Meets, PlansOK
<1>2. ASSUME NEW r \in Requests, NEW what \in {"cancel", "resume"}, ChangePlan(r, o, what)
      PROVE  JobsOK' /\ PlansOK'
  <2> DEFINE j == [Idle EXCEPT !.does = what, !.org = o, !.at = "polar"]
  <2>1. j \in Job /\ Carries(j, j.at)
    BY DEF Idle, Job, Steps, DnsSteps, SyncSteps, Carries
  <2>2. job' = [job EXCEPT ![r] = j]
    BY <1>2 DEF ChangePlan, Begin
  <2> HIDE DEF j
  <2> QED BY <1>2, <2>1, <2>2, JobSet DEF ChangePlan, Meets, PlansOK
<1>3. ASSUME UNCHANGED job  PROVE JobsOK'
  BY <1>3 DEF JobsOK
<1>4. CASE Pays(o)
  <2>1. [status |-> "active", seats |-> cart[o], cancel |-> FALSE] \in Subscription
    BY DEF PlansOK, Subscription
  <2> QED BY <1>3, <1>4, <2>1, ReportsOK DEF Pays, Disturbs, PlansOK
<1>5. CASE PolarChanges(o)
  <2>1. PICK status \in PolarStatus, cancel \in BOOLEAN :
          Reports(o, [polar[o] EXCEPT !.status = status, !.cancel = cancel])
    BY <1>5 DEF PolarChanges
  <2>2. polar[o] \in Subscription
    BY DEF PlansOK
  <2>3. [polar[o] EXCEPT !.status = status, !.cancel = cancel] \in Subscription
    BY <2>2, SubscriptionEdit
  <2>4. polar' \in [Orgs -> Subscription] /\ events' \in [Orgs -> Seq(Subscription)]
    BY <2>1, <2>3, ReportsOK
  <2> QED BY <1>3, <1>5, <2>4 DEF PolarChanges, PlansOK
<1>6. CASE WindowCloses(o)
  <2>1. entitlement[o] \in Entitlement
    BY DEF PlansOK
  <2>2. [entitlement[o] EXCEPT !.trialEndsAt = "past"] \in Entitlement
    BY <2>1, EntitlementEdit DEF Status
  <2>3. entitlement' \in [Orgs -> Entitlement]
    BY <1>6, <2>2 DEF WindowCloses, PlansOK
  <2> QED BY <1>3, <1>6, <2>3 DEF WindowCloses, Disturbs, PlansOK
<1>7. CASE Webhook(o)
  <2>1. PICK i \in DOMAIN events[o] : \E again \in BOOLEAN :
          /\ entitlement' = [entitlement EXCEPT ![o] = Reconcile(o, events[o][i])]
          /\ events' = IF again THEN events
                      ELSE [events EXCEPT ![o] = SubSeq(@, 1, i - 1) \o SubSeq(@, i + 1, Len(@))]
          /\ shaken' = IF i = 1 THEN shaken ELSE shaken \cup {o}
          /\ UNCHANGED <<job, rowVars, configured, polar, cart, alone, exact>>
    BY <1>7 DEF Webhook
  <2>2. events[o] \in Seq(Subscription) /\ events[o][i] \in Subscription /\ entitlement[o] \in Entitlement
    BY <2>1 DEF PlansOK
  <2>3. ToBillingStatus(events[o][i].status) \in Status /\ events[o][i].cancel \in BOOLEAN
    <3>1. events[o][i].cancel \in BOOLEAN
      BY <2>2 DEF Subscription
    <3>2. ASSUME NEW st  PROVE ToBillingStatus(st) \in Status
      BY DEF ToBillingStatus, Status
    <3> QED BY <3>1, <3>2
  <2>4. Reconcile(o, events[o][i]) \in Entitlement
    BY <2>2, <2>3, EntitlementEdit DEF Reconcile
  <2>5. SubSeq(events[o], 1, i - 1) \o SubSeq(events[o], i + 1, Len(events[o])) \in Seq(Subscription)
    BY <2>2, ShorterQueue
  <2>6. entitlement' \in [Orgs -> Entitlement]
    BY <2>1, <2>4 DEF PlansOK
  <2>7. events' \in [Orgs -> Seq(Subscription)]
    BY <2>1, <2>5 DEF PlansOK
  <2> QED BY <1>3, <2>1, <2>6, <2>7 DEF PlansOK
<1> QED BY <1>1, <1>2, <1>4, <1>5, <1>6, <1>7 DEF PlanNext

LEMMA DnsTyped ==
  ASSUME Formed, NEW r \in Requests, DnsStep(r), UNCHANGED address
  PROVE  RowsOK' /\ JobsOK' /\ RecordsOK'
<1> USE DEF Formed
<1>0. /\ job[r] \in Job /\ Carries(job[r], job[r].at) /\ job[r].at \in DnsSteps
      /\ job[r].host \in Hosts /\ job[r].node \in Nodes /\ job[r].ip \in Ips \cup {Nothing}
  BY DEF JobsOK, Carries, Job, DnsSteps, DnsStep, List, ListFails, Write, WriteFails, WriteUnheard, Mark, At
<1>1. ASSUME NEW ok \in BOOLEAN, Goes(r, Reconciled(r, ok))
      PROVE  JobsOK'
  <2>1. Reconciled(r, ok) \in Steps /\ Carries(job[r], Reconciled(r, ok))
    BY <1>0 DEF Carries, Reconciled, Steps, DnsSteps, SyncSteps
  <2> QED BY <1>1, <2>1, JobGoes
<1>2. ASSUME NEW d \in Records, Takes(r, d)
      PROVE  dns' \in [Records -> [host : Hosts \cup {Nothing}, ip : Ips \cup {Nothing}]]
  BY <1>0, <1>2 DEF Takes, RecordsOK, NoRecord
<1>3. CASE List(r)
  <2>1. ASSUME NEW d \in Records \cup {Nothing}, d = Nothing => job[r].ip # Nothing,
               job' = [job EXCEPT ![r].at = "write", ![r].found = d]
        PROVE  JobsOK'
    <3> DEFINE j == [job[r] EXCEPT !.at = "write", !.found = d]
    <3>1. /\ j \in Job /\ j.at = "write" /\ j.does = job[r].does /\ j.org = job[r].org
          /\ j.node = job[r].node /\ j.host = job[r].host /\ j.ip = job[r].ip /\ j.found = d
      BY <1>0 DEF Job, Steps, DnsSteps
    <3>2. job' = [job EXCEPT ![r] = j]
      BY <2>1 DEF JobsOK
    <3> HIDE DEF j
    <3>3. Carries(j, j.at)
      BY <1>0, <2>1, <3>1 DEF Carries, DnsSteps, SyncSteps
    <3> QED BY <3>1, <3>2, <3>3, JobSet
  <2>2. JobsOK'
    BY <1>1, <1>3, <2>1 DEF List, RecordsOf
  <2> QED BY <1>3, <2>2, RowsSame, RecordsSame DEF List
<1>4. ASSUME NEW H \in SUBSET Hosts, Trouble(H), UNCHANGED dns
      PROVE  RecordsOK'
  BY <1>4 DEF Trouble, RecordsOK
<1>5. CASE ListFails(r) \/ WriteFails(r)
  BY <1>0, <1>1, <1>4, <1>5, RowsSame DEF ListFails, WriteFails, GivesUp
<1>6. CASE Write(r)
  BY <1>1, <1>2, <1>6, RowsSame DEF Write, RecordsOK
<1>7. CASE WriteUnheard(r)
  BY <1>0, <1>1, <1>2, <1>7, RowsSame DEF WriteUnheard, RecordsOK, Trouble
<1>8. CASE Mark(r)
  <2>1. Carries(job[r], "answer")
    BY <1>0, <1>8 DEF Mark, At, Carries, DnsSteps, SyncSteps
  <2>2. JobsOK'
    BY <1>8, <2>1, JobGoes DEF Mark, Steps
  <2>3. [row[job[r].node] EXCEPT !.dnsSyncedIp = job[r].ip] \in Row
    <3>1. row[job[r].node] \in Row
      BY <1>0 DEF RowsOK
    <3> QED BY <1>0, <3>1 DEF Row
  <2>4. \/ row' = row
        \/ row' = [row EXCEPT ![job[r].node] = [row[job[r].node] EXCEPT !.dnsSyncedIp = job[r].ip]]
    BY <1>8 DEF Mark
  <2>5. RowsOK'
    BY <1>0, <1>8, <2>3, <2>4 DEF Mark, RowsOK, RowsFormed, Live, Row
  <2> QED BY <1>8, <2>2, <2>5, RecordsSame DEF Mark
<1> QED BY <1>3, <1>5, <1>6, <1>7, <1>8 DEF DnsStep

LEMMA NewRow ==
  ASSUME RowsOK, NEW n \in Nodes, NEW v \in Row,
         v.is # "live" => v.token = "none",
         v.is = "live" => v.org \in Orgs /\ v.host \in Hosts,
         row' = [row EXCEPT ![n] = v], held' \subseteq Nodes \X Requests
  PROVE  RowsOK'
BY DEF RowsOK, RowsFormed, Live

\* What the handlers leave of the other parts.
LEMMA PlansKept ==
  ASSUME PlansOK, UNCHANGED <<configured, entitlement, polar, cart, events, shaken>>,
         alone' \subseteq Requests, exact' \subseteq Orgs
  PROVE  PlansOK'
BY DEF PlansOK

LEMMA RecordsTroubled ==
  ASSUME RecordsOK, UNCHANGED <<dns, address>>, NEW H \in SUBSET Hosts, Trouble(H)
  PROVE  RecordsOK'
BY DEF RecordsOK, Trouble

LEMMA NodeTyped ==
  ASSUME Formed, NEW r \in Requests, NEW n \in Nodes,
         Insert(r, n) \/ RemoveNode(r, n) \/ Activate(r, n) \/ Beat(r, n)
  PROVE  Formed'
<1> USE DEF Formed
<1>0. job[r] \in Job /\ Carries(job[r], job[r].at) /\ row[n] \in Row
  BY DEF JobsOK, RowsOK
<1>1. CASE Insert(r, n)
  <2>1. /\ job[r].org \in Orgs /\ job[r].host \in Hosts /\ job[r].does = "create"
        /\ job[r].managed \in BOOLEAN
    BY <1>0, <1>1 DEF Insert, At, Carries, DnsSteps, SyncSteps, Job
  <2> DEFINE v == [Unborn EXCEPT !.is = "live", !.org = job[r].org,
                     !.host = job[r].host, !.managed = job[r].managed, !.token = "minted"]
             j == [job[r] EXCEPT !.at = "trial", !.node = n]
  <2>2. v \in Row /\ v.is = "live" /\ v.org \in Orgs /\ v.host \in Hosts
    BY <2>1 DEF Unborn, Row
  <2>3. row' = [row EXCEPT ![n] = v] /\ held' = held
    BY <1>1 DEF Insert
  <2>4. RowsOK'
    <3> HIDE DEF v
    <3> QED BY <2>2, <2>3, NewRow DEF RowsOK
  <2>5. /\ j \in Job /\ j.at = "trial" /\ j.does = job[r].does /\ j.org = job[r].org
        /\ j.node = n /\ job' = [job EXCEPT ![r] = j]
    BY <1>0, <1>1 DEF Insert, Job, Steps, SyncSteps, JobsOK
  <2>6. JobsOK'
    <3> HIDE DEF j
    <3>1. Carries(j, j.at)
      BY <2>1, <2>5 DEF Carries, DnsSteps, SyncSteps
    <3> QED BY <2>5, <3>1, JobSet
  <2>7. RecordsOK'
    BY <1>1, <2>1, RecordsTroubled DEF Insert
  <2>8. PlansOK'
    BY <1>1, PlansKept DEF Insert, PlansOK
  <2> QED BY <2>4, <2>6, <2>7, <2>8
<1>2. CASE RemoveNode(r, n)
  <2>1. row[n].org \in Orgs /\ row[n].host \in Hosts /\ row[n].managed \in BOOLEAN
    BY <1>0, <1>2 DEF RemoveNode, RowsOK, RowsFormed, Row
  <2> DEFINE v == [Unborn EXCEPT !.is = "removed"]
             j == [Idle EXCEPT !.does = "remove", !.org = row[n].org, !.node = n,
                     !.host = row[n].host, !.managed = row[n].managed,
                     !.at = IF row[n].managed THEN "list" ELSE "trial"]
  <2>2. v \in Row /\ v.is = "removed" /\ v.token = "none"
    BY DEF Unborn, Row
  <2>3. row' = [row EXCEPT ![n] = v] /\ held' = held
    BY <1>2 DEF RemoveNode
  <2>4. RowsOK'
    <3> HIDE DEF v
    <3> QED BY <2>2, <2>3, NewRow DEF RowsOK
  <2>5. /\ j \in Job /\ j.at \in {"list", "trial"} /\ j.does = "remove" /\ j.org \in Orgs
        /\ j.node = n /\ j.host \in Hosts /\ j.ip = Nothing /\ job' = [job EXCEPT ![r] = j]
    BY <2>1, <1>2 DEF RemoveNode, Begin, Idle, Job, Steps, DnsSteps, SyncSteps
  <2>6. JobsOK' /\ job'[r].host = row[n].host
    <3>1. j.host = row[n].host /\ job \in [Requests -> Job]
      BY DEF Idle, JobsOK
    <3> HIDE DEF j
    <3>2. Carries(j, j.at)
      BY <2>5 DEF Carries, DnsSteps, SyncSteps
    <3> QED BY <2>5, <3>1, <3>2, JobSet
  <2>7. RecordsOK'
    BY <1>2, <2>1, <2>6, RecordsTroubled DEF RemoveNode, Overlapped
  <2>8. PlansOK'
    BY <1>2, PlansKept DEF RemoveNode, Meets, PlansOK
  <2> QED BY <2>4, <2>6, <2>7, <2>8
<1>3. CASE Activate(r, n) \/ Beat(r, n)
  <2>1. Live(n) /\ row[n].host \in Hosts /\ row[n].managed \in BOOLEAN
    BY <1>0, <1>3 DEF Activate, Beat, Managed, RowsOK, RowsFormed, Row, Live
  <2>2. address[n] \in Ips \cup {Nothing}
    BY DEF RecordsOK
  <2> DEFINE a == [Idle EXCEPT !.does = "activate", !.at = "burn", !.node = n,
                     !.host = row[n].host, !.managed = row[n].managed, !.ip = address[n]]
             b == [Idle EXCEPT !.does = "beat", !.at = "list", !.node = n,
                     !.host = row[n].host, !.managed = TRUE, !.ip = address[n]]
  <2>3. /\ a \in Job /\ a.at = "burn" /\ a.does = "activate" /\ a.node = n /\ a.host = row[n].host
        /\ b \in Job /\ b.at = "list" /\ b.does = "beat" /\ b.node = n /\ b.host = row[n].host
        /\ b.ip = address[n]
    BY <2>1, <2>2 DEF Idle, Job, Steps, DnsSteps
  <2>4. \/ job' = [job EXCEPT ![r] = a] /\ troubled' = troubled
        \/ /\ job' = [job EXCEPT ![r] = b] /\ address[n] # Nothing
           /\ Trouble(Overlapped(r))
    BY <1>3 DEF Activate, Beat, Begin, Stale, dnsVars
  <2>5. UNCHANGED <<rowVars, dns, address, billingVars>>
    BY <1>3 DEF Activate, Beat, dnsVars
  <2>6. JobsOK' /\ job'[r].host = row[n].host
    <3>1. job \in [Requests -> Job]
      BY DEF JobsOK
    <3> HIDE DEF a, b
    <3>2. Carries(a, a.at)
      BY <2>1, <2>3 DEF Carries, DnsSteps, SyncSteps
    <3>3. address[n] # Nothing => Carries(b, b.at)
      BY <2>1, <2>3 DEF Carries, DnsSteps, SyncSteps
    <3> QED BY <2>3, <2>4, <3>1, <3>2, <3>3, JobSet
  <2>7. RecordsOK'
    BY <2>1, <2>4, <2>5, <2>6 DEF RecordsOK, Trouble, Overlapped
  <2> QED BY <2>5, <2>6, <2>7, RowsSame, PlansSame
<1> QED BY <1>1, <1>2, <1>3

LEMMA RequestTyped ==
  ASSUME Formed, NEW r \in Requests, CheckUnique(r) \/ Burn(r) \/ Answer(r) \/ AnswerLost(r)
  PROVE  Formed'
<1> USE DEF Formed
<1>0. job[r] \in Job /\ Carries(job[r], job[r].at)
  BY DEF JobsOK
<1>1. CASE CheckUnique(r)
  <2>1. Carries(job[r], "insert")
    BY <1>0, <1>1 DEF CheckUnique, At, Carries, DnsSteps, SyncSteps
  <2> QED BY <1>1, <2>1, JobGoes, JobEnds, RowsSame, RecordsSame, PlansSame DEF CheckUnique, Steps
<1>2. CASE Burn(r)
  <2>1. job[r].does = "activate" /\ job[r].node \in Nodes /\ job[r].host \in Hosts
    BY <1>0, <1>2 DEF Burn, At, Carries, DnsSteps, SyncSteps
  <2>2. UNCHANGED <<held, dns, billingVars, address>>
    BY <1>2 DEF Burn
  <2>3. CASE Burnable(job[r].node)
    <3> DEFINE n == job[r].node
               v == [row[n] EXCEPT !.key = r, !.token = "burned"]
    <3>1. /\ row' = [row EXCEPT ![n].key = r, ![n].token = "burned"] /\ Goes(r, AfterBurn(r))
          /\ Trouble(IF AfterBurn(r) = "list" THEN Overlapped(r) ELSE {})
      BY <1>2, <2>3 DEF Burn
    <3>2. row[n] \in Row /\ row[n].is = "live" /\ row[n].org \in Orgs /\ row[n].host \in Hosts
      BY <2>1, <2>3 DEF RowsOK, RowsFormed, Burnable, Live
    <3>3. /\ v \in Row /\ v.is = "live" /\ v.org = row[n].org /\ v.host = row[n].host
          /\ row' = [row EXCEPT ![n] = v]
      <4>1. v \in Row /\ v.is = "live" /\ v.org = row[n].org /\ v.host = row[n].host
        BY <3>2 DEF Row
      <4>2. row' = [row EXCEPT ![n] = v]
        BY <2>1, <3>1 DEF RowsOK
      <4> QED BY <4>1, <4>2
    <3>4. RowsOK'
      <4> HIDE DEF v
      <4> QED BY <2>1, <2>2, <3>2, <3>3, NewRow DEF RowsOK
    <3>5. AfterBurn(r) \in Steps /\ Carries(job[r], AfterBurn(r))
      BY <2>1 DEF AfterBurn, Steps, DnsSteps, SyncSteps, Carries
    <3>6. JobsOK' /\ job'[r].host = job[r].host
      BY <3>1, <3>5, <1>0, JobGoes DEF Goes, JobsOK, Job
    <3>7. RecordsOK'
      BY <2>1, <2>2, <3>1, <3>6, RecordsTroubled DEF Overlapped
    <3> QED BY <2>2, <3>4, <3>6, <3>7, PlansSame
  <2>4. CASE ~Burnable(job[r].node)
    BY <1>2, <2>2, <2>4, JobEnds, RowsSame, RecordsSame, PlansSame DEF Burn, rowVars, dnsVars
  <2> QED BY <2>3, <2>4
<1>3. CASE Answer(r)
  <2>1. job[r].node \in Nodes
    BY <1>0, <1>3 DEF Answer, At, Carries, DnsSteps, SyncSteps
  <2>2. Ends(r) /\ UNCHANGED <<dnsVars, billingVars, address>>
    BY <1>3 DEF Answer
  <2>3. \/ row' = [row EXCEPT ![job[r].node].token = "given"] /\ held' = held /\ row[job[r].node].token = "minted"
        \/ row' = row /\ held' = held \cup {<<job[r].node, r>>}
        \/ row' = row /\ held' = held
    BY <1>0, <1>3 DEF Answer, rowVars
  <2>4. CASE row' = [row EXCEPT ![job[r].node].token = "given"] /\ held' = held /\ row[job[r].node].token = "minted"
    <3> DEFINE n == job[r].node
               v == [row[n] EXCEPT !.token = "given"]
    <3>1. row[n] \in Row /\ row[n].is = "live" /\ row[n].org \in Orgs /\ row[n].host \in Hosts
      BY <2>1, <2>4 DEF RowsOK, RowsFormed, Live
    <3>2. v \in Row /\ v.is = "live" /\ v.org = row[n].org /\ v.host = row[n].host
      BY <3>1 DEF Row
    <3>3. row' = [row EXCEPT ![n] = v]
      BY <2>1, <2>4 DEF RowsOK
    <3>4. RowsOK'
      <4> HIDE DEF v
      <4> QED BY <2>1, <2>4, <3>1, <3>2, <3>3, NewRow DEF RowsOK
    <3> QED BY <2>2, <3>4, JobEnds, RecordsSame, PlansSame
  <2>5. CASE row' = row /\ held' \subseteq held \cup {<<job[r].node, r>>}
    <3>1. RowsOK'
      BY <2>1, <2>5 DEF RowsOK, RowsFormed, Live
    <3> QED BY <2>2, <3>1, JobEnds, RecordsSame, PlansSame
  <2> QED BY <2>3, <2>4, <2>5
<1>4. CASE AnswerLost(r)
  BY <1>4, JobEnds, RowsSame, RecordsSame, PlansSame DEF AnswerLost
<1> QED BY <1>1, <1>2, <1>3, <1>4

LEMMA UserTyped ==
  ASSUME Formed, NEW h \in Hosts,
         \/ \E r \in Requests, o \in Orgs, m \in BOOLEAN : CreateNode(r, o, h, m)
         \/ \E n \in Nodes : UpdateNode(n, h)
  PROVE  Formed'
<1> USE DEF Formed
<1>1. ASSUME NEW r \in Requests, NEW o \in Orgs, NEW m \in BOOLEAN, CreateNode(r, o, h, m)
      PROVE  Formed'
  <2> DEFINE j == [Idle EXCEPT !.does = "create", !.org = o, !.host = h, !.managed = m,
                     !.at = IF configured THEN "count" ELSE "unique"]
  <2>1. j \in Job /\ Carries(j, j.at)
    BY DEF Idle, Job, Steps, DnsSteps, SyncSteps, Carries
  <2>2. job' = [job EXCEPT ![r] = j]
    BY <1>1 DEF CreateNode, Begin
  <2>3. JobsOK'
    <3> HIDE DEF j
    <3> QED BY <2>1, <2>2, JobSet
  <2>4. PlansOK'
    BY <1>1, PlansKept DEF CreateNode, Meets, PlansOK
  <2> QED BY <1>1, <2>3, <2>4, RowsSame, RecordsSame DEF CreateNode
<1>2. ASSUME NEW n \in Nodes, UpdateNode(n, h)  PROVE Formed'
  <2> DEFINE v == [row[n] EXCEPT !.host = h]
  <2>1. row[n] \in Row /\ row[n].is = "live" /\ row[n].org \in Orgs /\ row[n].host \in Hosts
    BY <1>2 DEF UpdateNode, RowsOK, RowsFormed, Live
  <2>2. v \in Row /\ v.is = "live" /\ v.org = row[n].org /\ v.host = h
    BY <2>1 DEF Row
  <2>3. row' = [row EXCEPT ![n] = v] /\ held' = held
    BY <1>2 DEF UpdateNode, RowsOK
  <2>4. RowsOK'
    <3> HIDE DEF v
    <3> QED BY <2>1, <2>2, <2>3, NewRow DEF RowsOK
  <2>5. RecordsOK'
    BY <1>2, <2>1, RecordsTroubled DEF UpdateNode
  <2> QED BY <1>2, <2>4, <2>5, PlansSame DEF UpdateNode, JobsOK
<1> QED BY <1>1, <1>2

LEMMA MovesTyped ==
  ASSUME Formed, NEW n \in Nodes, NEW ip \in Ips \cup {Nothing}, Moves(n, ip)
  PROVE  Formed'
<1> USE DEF Formed
<1>1. RowsOK' /\ RecordsOK' /\ JobsOK'
  BY DEF Moves, RowsOK, RowsFormed, Live, RecordsOK, dnsVars, JobsOK
<1> QED BY <1>1, PlansSame DEF Moves

LEMMA RestartTyped == ASSUME Formed, PanelRestarts PROVE Formed'
<1> USE DEF Formed
<1>1. JobsOK'
  <2>1. Idle.at = "idle"
    BY DEF Idle
  <2> QED BY <2>1, IdleOK DEF PanelRestarts, JobsOK
<1>2. {job[r].host : r \in {q \in Requests : Reconciling(q)}} \subseteq Hosts
  BY DEF JobsOK, Carries, Reconciling
<1>3. RecordsOK'
  BY <1>2, RecordsTroubled DEF PanelRestarts
<1>4. PlansOK'
  BY PlansKept DEF PanelRestarts, PlansOK
<1> QED BY <1>1, <1>3, <1>4, RowsSame DEF PanelRestarts

LEMMA InitTyped == Init => Formed
<1> SUFFICES ASSUME Init PROVE Formed
  OBVIOUS
<1>1. RowsOK
  BY DEF Init, RowsInit, RowsOK, RowsFormed, Live, Unborn, Row
<1>2. JobsOK
  <2>1. Idle.at = "idle"
    BY DEF Idle
  <2> QED BY <2>1, IdleOK DEF Init, RowsInit, JobsOK
<1>3. RecordsOK
  BY DEF Init, DnsInit, RecordsOK, NoRecord
<1>4. PlansOK
  <2>1. NoEntitlement \in Entitlement /\ NoSubscription \in Subscription
    BY DEF NoEntitlement, Entitlement, Status, NoSubscription, Subscription
  <2> QED BY <2>1 DEF Init, BillingInit, PlansOK
<1> QED BY <1>1, <1>2, <1>3, <1>4 DEF Formed

LEMMA NextTyped == Formed /\ [Next]_vars => Formed'
<1> SUFFICES ASSUME Formed, [Next]_vars PROVE Formed'
  OBVIOUS
<1> USE DEF Formed
<1>1. ASSUME NEW r \in Requests, DnsStep(r), UNCHANGED <<billingVars, address>>  PROVE Formed'
  BY <1>1, DnsTyped, PlansSame
<1>2. ASSUME NEW r \in Requests, BillingStep(r), UNCHANGED <<dnsVars, address>>  PROVE Formed'
  <2>1. UNCHANGED rowVars
    BY <1>2 DEF BillingStep, CountNodes, CheckEntitlement, ReadTrial, GrantTrial, ReadSubscription,
               CountSeats, PushSeats, PushFails, OpenCheckout, TellPolar, PolarFails, Reflect
  <2> QED BY <1>2, <2>1, BillingTyped, RowsSame, RecordsSame
<1>3. ASSUME NEW o \in Orgs, PlanNext(o), UNCHANGED <<dnsVars, address>>  PROVE Formed'
  <2>1. UNCHANGED rowVars
    BY <1>3 DEF PlanNext, StartCheckout, ChangePlan, Pays, PolarChanges, WindowCloses, Webhook
  <2> QED BY <1>3, <2>1, PlanTyped, RowsSame, RecordsSame
<1>4. CASE PanelRestarts
  BY <1>4, RestartTyped
<1>5. CASE UNCHANGED vars
  <2>1. JobsOK'
    BY <1>5 DEF vars, JobsOK
  <2> QED BY <1>5, <2>1, RowsSame, RecordsSame, PlansSame DEF vars, rowVars
<1> QED BY <1>1, <1>2, <1>3, <1>4, <1>5, NodeTyped, RequestTyped, UserTyped, MovesTyped DEF Next, Works, Asks

(***************************************************************************)
(* Every reachable state is well formed.                                    *)
(***************************************************************************)
THEOREM WellFormed == Spec => []Formed
BY InitTyped, NextTyped, PTL DEF Spec

(***************************************************************************)
(* The types of the rows, the requests, the records and the plans, whatever *)
(* handlers of nodes/index.ts, enrollment.ts and billing interleave.        *)
(***************************************************************************)
THEOREM NodesTypeCorrect == Spec => []NodesTypeOK
BY WellFormed, FormedIsTyped, PTL

(***************************************************************************)
(* The keys: a request that has burned a token carries the key to a box.    *)
(***************************************************************************)
Brings(r, n) ==
  job[r].does = "activate" /\ job[r].node = n /\ job[r].at \in DnsSteps \cup {"answer"}

KeysSound ==
  /\ \A n \in Nodes : row[n].is = "unborn" =>
       (\A r \in Requests : job[r].node # n) /\ \A k \in Requests : <<n, k>> \notin held
  /\ \A n \in Nodes, k \in Requests : Live(n) /\ (<<n, k>> \in held \/ Brings(k, n)) =>
       row[n].key = k /\ row[n].token = "burned"

\* A step that burns nothing, hands out no key and gives no request a node
\* that is not born.
LEMMA KeysFrame ==
  ASSUME KeysSound, held' = held,
         \A n \in Nodes : row'[n].is = "unborn" => row[n].is = "unborn",
         \A n \in Nodes : row'[n].is = "live" =>
           Live(n) /\ row'[n].key = row[n].key /\ row'[n].token = row[n].token,
         \A q \in Requests, n \in Nodes : row'[n].is = "unborn" /\ job'[q].node = n => job[q].node = n,
         \A q \in Requests, n \in Nodes : Brings(q, n)' => Brings(q, n)
  PROVE  KeysSound'
BY DEF KeysSound, Live

\* One request moves and the rows stay.
LEMMA KeysJob ==
  ASSUME KeysSound, JobsOK, UNCHANGED rowVars, NEW r \in Requests, NEW j,
         job' = [job EXCEPT ![r] = j],
         j.node \in Nodes => j.node = job[r].node \/ Live(j.node),
         j.does = "activate" /\ j.at \in DnsSteps \cup {"answer"} =>
           /\ job[r].does = "activate" /\ job[r].at \in DnsSteps \cup {"answer"}
           /\ j.node = job[r].node
  PROVE  KeysSound'
<1>1. \A q \in Requests : job'[q] = IF q = r THEN j ELSE job[q]
  BY DEF JobsOK
<1>2. \A q \in Requests, n \in Nodes : Brings(q, n)' => Brings(q, n)
  BY <1>1 DEF Brings
<1>3. \A q \in Requests, n \in Nodes : row'[n].is = "unborn" /\ job'[q].node = n => job[q].node = n
  BY <1>1 DEF rowVars, Live
<1> QED BY <1>2, <1>3, KeysFrame DEF rowVars, Live

LEMMA KeysGoes ==
  ASSUME KeysSound, JobsOK, UNCHANGED rowVars, NEW r \in Requests, NEW step, Goes(r, step),
         job[r].does = "activate" /\ step \in DnsSteps \cup {"answer"} =>
           job[r].at \in DnsSteps \cup {"answer"}
  PROVE  KeysSound'
<1> DEFINE j == [job[r] EXCEPT !.at = step]
<1>1. /\ j.at = step /\ j.does = job[r].does /\ j.node = job[r].node
      /\ job' = [job EXCEPT ![r] = j]
  BY DEF JobsOK, Job, Goes
<1> HIDE DEF j
<1> QED BY <1>1, KeysJob

LEMMA KeysEnds ==
  ASSUME KeysSound, JobsOK, UNCHANGED rowVars, NEW r \in Requests, Ends(r)
  PROVE  KeysSound'
<1>1. Idle.node = Nothing /\ Idle.does = "none"
  BY DEF Idle
<1> QED BY <1>1, KeysJob DEF Ends

LEMMA DnsKeys ==
  ASSUME Formed, KeysSound, NEW r \in Requests, DnsStep(r)
  PROVE  KeysSound'
<1>0. JobsOK /\ job[r] \in Job /\ Carries(job[r], job[r].at) /\ job[r].at \in DnsSteps
  BY DEF Formed, JobsOK, DnsSteps, DnsStep, List, ListFails, Write, WriteFails, WriteUnheard, Mark, At
<1>1. CASE Mark(r)
  <2>1. job[r].node \in Nodes /\ row \in [Nodes -> Row]
    BY <1>0 DEF Carries, Formed, RowsOK
  <2>2. \A n \in Nodes : /\ row'[n].is = row[n].is /\ row'[n].key = row[n].key
                         /\ row'[n].token = row[n].token
    BY <1>1, <2>1 DEF Mark, Row
  <2>3. \A q \in Requests : /\ job'[q].node = job[q].node /\ job'[q].does = job[q].does
                            /\ job'[q].at \in DnsSteps \cup {"answer"} => job[q].at \in DnsSteps \cup {"answer"}
    BY <1>0, <1>1 DEF Mark, Goes, JobsOK, Job
  <2>4. held' = held
    BY <1>1 DEF Mark
  <2> QED BY <2>2, <2>3, <2>4, KeysFrame DEF Brings, Live
<1>2. CASE ~Mark(r)
  <2>1. UNCHANGED rowVars
    BY <1>2 DEF DnsStep, List, ListFails, Write, WriteFails, WriteUnheard
  <2>2. CASE \E step : Goes(r, step)
    BY <1>0, <2>1, <2>2, KeysGoes
  <2>3. CASE \E d : job' = [job EXCEPT ![r].at = "write", ![r].found = d]
    <3>1. PICK d : job' = [job EXCEPT ![r].at = "write", ![r].found = d]
      BY <2>3
    <3> DEFINE j == [job[r] EXCEPT !.at = "write", !.found = d]
    <3>2. j.does = job[r].does /\ j.node = job[r].node /\ job' = [job EXCEPT ![r] = j]
      BY <1>0, <3>1 DEF JobsOK, Job
    <3> HIDE DEF j
    <3> QED BY <1>0, <2>1, <3>2, KeysJob
  <2> QED
    BY <1>2, <2>2, <2>3 DEF DnsStep, List, ListFails, Write, WriteFails, WriteUnheard, GivesUp
<1> QED BY <1>1, <1>2

LEMMA BillingKeys ==
  ASSUME Formed, KeysSound, NEW r \in Requests, BillingStep(r)
  PROVE  KeysSound'
<1>0. JobsOK /\ job[r] \in Job /\ Carries(job[r], job[r].at)
  BY DEF Formed, JobsOK
<1>1. UNCHANGED rowVars
  BY DEF BillingStep, CountNodes, CheckEntitlement, ReadTrial, GrantTrial, ReadSubscription,
         CountSeats, PushSeats, PushFails, OpenCheckout, TellPolar, PolarFails, Reflect
<1>2. job[r].does # "activate"
  BY <1>0 DEF BillingStep, CountNodes, CheckEntitlement, ReadTrial, GrantTrial, ReadSubscription,
              CountSeats, PushSeats, PushFails, OpenCheckout, TellPolar, PolarFails, Reflect,
              At, Carries, DnsSteps, SyncSteps
<1>3. CASE \E step : Goes(r, step)
  BY <1>0, <1>1, <1>2, <1>3, KeysGoes
<1>4. CASE Ends(r)
  BY <1>0, <1>1, <1>4, KeysEnds
<1>5. CASE \E trial : job' = [job EXCEPT ![r].at = "seats", ![r].trial = trial]
  <2>1. PICK trial : job' = [job EXCEPT ![r].at = "seats", ![r].trial = trial]
    BY <1>5
  <2> DEFINE j == [job[r] EXCEPT !.at = "seats", !.trial = trial]
  <2>2. j.does = job[r].does /\ j.node = job[r].node /\ job' = [job EXCEPT ![r] = j]
    BY <1>0, <2>1 DEF JobsOK, Job
  <2> HIDE DEF j
  <2> QED BY <1>0, <1>1, <1>2, <2>2, KeysJob
<1>6. CASE \E seats : job' = [job EXCEPT ![r].at = "push", ![r].seats = seats]
  <2>1. PICK seats : job' = [job EXCEPT ![r].at = "push", ![r].seats = seats]
    BY <1>6
  <2> DEFINE j == [job[r] EXCEPT !.at = "push", !.seats = seats]
  <2>2. j.does = job[r].does /\ j.node = job[r].node /\ job' = [job EXCEPT ![r] = j]
    BY <1>0, <2>1 DEF JobsOK, Job
  <2> HIDE DEF j
  <2> QED BY <1>0, <1>1, <1>2, <2>2, KeysJob
<1> QED
  BY <1>3, <1>4, <1>5, <1>6
  DEF BillingStep, CountNodes, CheckEntitlement, ReadTrial, GrantTrial, ReadSubscription, CountSeats,
      PushSeats, PushFails, OpenCheckout, TellPolar, PolarFails, Reflect, Synced

LEMMA PlanKeys ==
  ASSUME Formed, KeysSound, NEW o \in Orgs, PlanNext(o)
  PROVE  KeysSound'
<1>1. UNCHANGED rowVars /\ JobsOK
  BY DEF Formed, PlanNext, StartCheckout, ChangePlan, Pays, PolarChanges, WindowCloses, Webhook
<1>2. ASSUME NEW r \in Requests, NEW j, job' = [job EXCEPT ![r] = j], j.node = Nothing, j.does # "activate"
      PROVE  KeysSound'
  BY <1>1, <1>2, KeysJob
<1>3. ASSUME NEW r \in Requests, StartCheckout(r, o)  PROVE KeysSound'
  <2> DEFINE j == [Idle EXCEPT !.does = "checkout", !.org = o, !.at = "polar",
                     !.seats = RequiredSeats(o, TRUE)]
  <2>1. j.node = Nothing /\ j.does = "checkout"
    BY DEF Idle
  <2>2. job' = [job EXCEPT ![r] = j]
    BY <1>3 DEF StartCheckout, Begin
  <2> HIDE DEF j
  <2> QED BY <1>2, <2>1, <2>2
<1>4. ASSUME NEW r \in Requests, NEW what \in {"cancel", "resume"}, ChangePlan(r, o, what)
      PROVE  KeysSound'
  <2> DEFINE j == [Idle EXCEPT !.does = what, !.org = o, !.at = "polar"]
  <2>1. j.node = Nothing /\ j.does = what
    BY DEF Idle
  <2>2. job' = [job EXCEPT ![r] = j]
    BY <1>4 DEF ChangePlan, Begin
  <2> HIDE DEF j
  <2> QED BY <1>2, <2>1, <2>2
<1>5. CASE UNCHANGED job
  BY <1>1, <1>5 DEF KeysSound, Brings, Live, rowVars
<1> QED
  BY <1>3, <1>4, <1>5 DEF PlanNext, Pays, PolarChanges, WindowCloses, Webhook

LEMMA NodeKeys ==
  ASSUME Formed, KeysSound, NEW r \in Requests, NEW n \in Nodes,
         Insert(r, n) \/ RemoveNode(r, n) \/ Activate(r, n) \/ Beat(r, n)
  PROVE  KeysSound'
<1>0. JobsOK /\ job[r] \in Job /\ Carries(job[r], job[r].at) /\ row \in [Nodes -> Row]
  BY DEF Formed, JobsOK, RowsOK
<1>1. CASE Insert(r, n)
  <2> DEFINE v == [Unborn EXCEPT !.is = "live", !.org = job[r].org,
                     !.host = job[r].host, !.managed = job[r].managed, !.token = "minted"]
             j == [job[r] EXCEPT !.at = "trial", !.node = n]
  <2>1. job[r].does = "create"
    BY <1>0, <1>1 DEF Insert, At, Carries, DnsSteps, SyncSteps
  <2>2. v.is = "live" /\ j.node = n /\ j.does = "create"
    BY <1>0, <2>1 DEF Unborn, Job
  <2>3. row' = [row EXCEPT ![n] = v] /\ job' = [job EXCEPT ![r] = j] /\ held' = held
    BY <1>0, <1>1 DEF Insert, JobsOK
  <2>4. row[n].is = "unborn"
    BY <1>1 DEF Insert
  <2> HIDE DEF v, j
  <2>5. /\ \A m \in Nodes : row'[m] = IF m = n THEN v ELSE row[m]
        /\ \A q \in Requests : job'[q] = IF q = r THEN j ELSE job[q]
    BY <1>0, <2>3 DEF JobsOK
  <2>6. \A q \in Requests, m \in Nodes : Brings(q, m)' => Brings(q, m)
    BY <2>2, <2>5 DEF Brings
  <2>7. \A q \in Requests : <<n, q>> \notin held /\ ~Brings(q, n)
    BY <2>4 DEF KeysSound, Brings
  <2> QED BY <2>2, <2>3, <2>4, <2>5, <2>6, <2>7 DEF KeysSound, Live
<1>2. CASE RemoveNode(r, n)
  <2> DEFINE v == [Unborn EXCEPT !.is = "removed"]
             j == [Idle EXCEPT !.does = "remove", !.org = row[n].org, !.node = n,
                     !.host = row[n].host, !.managed = row[n].managed,
                     !.at = IF row[n].managed THEN "list" ELSE "trial"]
  <2>1. v.is = "removed" /\ j.node = n /\ j.does = "remove"
    BY DEF Unborn, Idle
  <2>2. row' = [row EXCEPT ![n] = v] /\ job' = [job EXCEPT ![r] = j] /\ held' = held
    BY <1>2 DEF RemoveNode, Begin
  <2> HIDE DEF v, j
  <2>3. /\ \A m \in Nodes : row'[m] = IF m = n THEN v ELSE row[m]
        /\ \A q \in Requests : job'[q] = IF q = r THEN j ELSE job[q]
    BY <1>0, <2>2 DEF JobsOK
  <2>4. \A q \in Requests, m \in Nodes : Brings(q, m)' => Brings(q, m)
    BY <2>1, <2>3 DEF Brings
  <2> QED BY <2>1, <2>2, <2>3, <2>4, KeysFrame DEF Live
<1>3. CASE Activate(r, n) \/ Beat(r, n)
  <2> DEFINE a == [Idle EXCEPT !.does = "activate", !.at = "burn", !.node = n,
                     !.host = row[n].host, !.managed = row[n].managed, !.ip = address[n]]
             b == [Idle EXCEPT !.does = "beat", !.at = "list", !.node = n,
                     !.host = row[n].host, !.managed = TRUE, !.ip = address[n]]
  <2>1. /\ a.at = "burn" /\ a.node = n
        /\ b.does = "beat" /\ b.node = n
    BY DEF Idle
  <2>2. job' = [job EXCEPT ![r] = a] \/ job' = [job EXCEPT ![r] = b]
    BY <1>3 DEF Activate, Beat, Begin
  <2>3. Live(n) /\ UNCHANGED rowVars
    BY <1>3 DEF Activate, Beat, Managed
  <2> HIDE DEF a, b
  <2> QED BY <1>0, <2>1, <2>2, <2>3, KeysJob DEF DnsSteps
<1> QED BY <1>1, <1>2, <1>3

LEMMA RequestKeys ==
  ASSUME Formed, KeysSound, NEW r \in Requests, CheckUnique(r) \/ Burn(r) \/ Answer(r) \/ AnswerLost(r)
  PROVE  KeysSound'
<1>0. JobsOK /\ job[r] \in Job /\ Carries(job[r], job[r].at) /\ row \in [Nodes -> Row] /\ RowsFormed
  BY DEF Formed, JobsOK, RowsOK
<1>1. CASE CheckUnique(r)
  BY <1>0, <1>1, KeysGoes, KeysEnds DEF CheckUnique, DnsSteps
<1>2. CASE Burn(r)
  <2>1. job[r].does = "activate" /\ job[r].node \in Nodes
    BY <1>0, <1>2 DEF Burn, At, Carries, DnsSteps, SyncSteps
  <2>2. CASE Burnable(job[r].node)
    <3> DEFINE n == job[r].node
    <3>1. \A q \in Requests : <<n, q>> \notin held /\ ~Brings(q, n)
      BY <1>0, <2>1, <2>2 DEF KeysSound, Burnable, RowsFormed, Live
    <3>2. /\ \A m \in Nodes : /\ row'[m].is = row[m].is
                              /\ m # n => row'[m] = row[m]
          /\ row'[n].key = r /\ row'[n].token = "burned"
      BY <1>0, <1>2, <2>1, <2>2 DEF Burn, Row
    <3>3. \A q \in Requests : job'[q].node = job[q].node /\ (q # r => job'[q] = job[q])
      BY <1>0, <1>2, <2>2 DEF Burn, Goes, JobsOK, Job
    <3>4. held' = held
      BY <1>2 DEF Burn
    <3>5. \A q \in Requests, m \in Nodes : q # r \/ m # n => (Brings(q, m)' => Brings(q, m))
      BY <3>3 DEF Brings
    <3> QED BY <3>1, <3>2, <3>3, <3>4, <3>5 DEF KeysSound, Live
  <2>3. CASE ~Burnable(job[r].node)
    BY <1>0, <1>2, <2>3, KeysEnds DEF Burn, rowVars
  <2> QED BY <2>2, <2>3
<1>3. CASE Answer(r)
  <2> DEFINE n == job[r].node
  <2>1. n \in Nodes /\ job[r].at = "answer" /\ Ends(r)
    BY <1>0, <1>3 DEF Answer, At, Carries, DnsSteps, SyncSteps
  <2>2. \A q \in Requests, m \in Nodes : Brings(q, m)' => Brings(q, m) /\ job'[q].node = m
    BY <1>0, <2>1 DEF Ends, Brings, JobsOK, Idle
  <2>3. \A q \in Requests, m \in Nodes : job'[q].node = m => job[q].node = m
    BY <1>0, <2>1 DEF Ends, JobsOK, Idle
  <2>4. CASE job[r].does = "create"
    <3>1. UNCHANGED held /\ row' = IF row[n].token = "minted" THEN [row EXCEPT ![n].token = "given"] ELSE row
      BY <1>3, <2>4 DEF Answer
    <3>2. \A m \in Nodes : /\ row'[m].is = row[m].is /\ row'[m].key = row[m].key
                           /\ row'[m].token = row[m].token \/ row[m].token = "minted"
      BY <1>0, <2>1, <3>1 DEF Row
    <3> QED BY <2>2, <2>3, <3>1, <3>2 DEF KeysSound, Live
  <2>5. CASE job[r].does = "activate"
    <3>1. UNCHANGED row /\ held' = held \cup {<<n, r>>}
      BY <1>3, <2>5 DEF Answer
    <3>2. Brings(r, n)
      BY <2>1, <2>5 DEF Brings
    <3> QED BY <2>1, <2>2, <2>3, <3>1, <3>2 DEF KeysSound, Live
  <2>6. CASE job[r].does \notin {"create", "activate"}
    <3>1. UNCHANGED rowVars
      BY <1>3, <2>6 DEF Answer
    <3> QED BY <1>0, <2>1, <3>1, KeysEnds
  <2> QED BY <2>4, <2>5, <2>6
<1>4. CASE AnswerLost(r)
  BY <1>0, <1>4, KeysEnds DEF AnswerLost
<1> QED BY <1>1, <1>2, <1>3, <1>4

LEMMA UserKeys ==
  ASSUME Formed, KeysSound, NEW h \in Hosts,
         \/ \E r \in Requests, o \in Orgs, m \in BOOLEAN : CreateNode(r, o, h, m)
         \/ \E n \in Nodes : UpdateNode(n, h)
  PROVE  KeysSound'
<1>0. JobsOK /\ row \in [Nodes -> Row]
  BY DEF Formed, RowsOK
<1>1. ASSUME NEW r \in Requests, NEW o \in Orgs, NEW m \in BOOLEAN, CreateNode(r, o, h, m)
      PROVE  KeysSound'
  <2> DEFINE j == [Idle EXCEPT !.does = "create", !.org = o, !.host = h, !.managed = m,
                     !.at = IF configured THEN "count" ELSE "unique"]
  <2>1. j.node = Nothing /\ j.does = "create"
    BY DEF Idle
  <2>2. job' = [job EXCEPT ![r] = j] /\ UNCHANGED rowVars
    BY <1>1 DEF CreateNode, Begin
  <2> HIDE DEF j
  <2> QED BY <1>0, <2>1, <2>2, KeysJob
<1>2. ASSUME NEW n \in Nodes, UpdateNode(n, h)  PROVE KeysSound'
  <2>1. \A m \in Nodes : row'[m].is = row[m].is /\ row'[m].key = row[m].key /\ row'[m].token = row[m].token
    BY <1>0, <1>2 DEF UpdateNode, Row
  <2> QED BY <1>2, <2>1 DEF UpdateNode, KeysSound, Brings, Live
<1> QED BY <1>1, <1>2

LEMMA RestartKeys == ASSUME KeysSound, PanelRestarts PROVE KeysSound'
<1>1. \A q \in Requests : job'[q] = Idle
  BY DEF PanelRestarts
<1>2. Idle.does = "none" /\ \A n \in Nodes : Idle.node # n
  BY DEF Idle
<1> QED BY <1>1, <1>2 DEF PanelRestarts, rowVars, KeysSound, Brings, Live

LEMMA KeysStep == Formed /\ KeysSound /\ [Next]_vars => KeysSound'
<1> SUFFICES ASSUME Formed, KeysSound, [Next]_vars PROVE KeysSound'
  OBVIOUS
<1>1. CASE UNCHANGED vars
  BY <1>1 DEF vars, rowVars, KeysSound, Brings, Live
<1>2. ASSUME NEW n \in Nodes, NEW ip \in Ips \cup {Nothing}, Moves(n, ip)  PROVE KeysSound'
  BY <1>2 DEF Moves, KeysSound, Brings, Live
<1> QED
  BY <1>1, <1>2, DnsKeys, BillingKeys, PlanKeys, NodeKeys, RequestKeys, UserKeys, RestartKeys
  DEF Next, Works, Asks

(***************************************************************************)
(* Enrollment (repository.ts:177-179, "a token can't mint two node keys"):  *)
(* for any number of activations under way at once, with lost answers and   *)
(* restarts of the panel, a key that a box has received is the one by which *)
(* the panel knows the node.                                                *)
(***************************************************************************)
THEOREM HeldKeysCorrect == Spec => []HeldKeysWork
<1>1. Init => KeysSound
  BY DEF Init, RowsInit, KeysSound, Brings, Idle, Unborn, Live
<1>2. Formed /\ KeysSound => HeldKeysWork
  BY DEF Formed, RowsOK, KeysSound, HeldKeysWork
<1> QED BY <1>1, <1>2, WellFormed, KeysStep, PTL DEF Spec

(***************************************************************************)
(* The records of a hostname that nothing troubled.  While no reconcile is  *)
(* at work on it, they are what its row says.  The one that is at work      *)
(* knows them, since no other moves them; and the node it works for still   *)
(* has the name, or the name it has now is in trouble.                      *)
(***************************************************************************)
On(r, h) == Reconciling(r) /\ job[r].host = h
Serves(n, h) == Managed(n) /\ row[n].host = h

OnePerHost(h) ==
  /\ \A r, q \in Requests : On(r, h) /\ On(q, h) => r = q
  /\ \A n, m \in Nodes : Serves(n, h) /\ Serves(m, h) => n = m
  /\ \A d, e \in RecordsOf(h) : d = e

AtWork(r, h) ==
  IF job[r].ip = Nothing
    THEN Synchronized(h) = {}
    ELSE /\ Serves(job[r].node, h)
         /\ Resolves(h) = IF At(r, "mark") THEN {job[r].ip} ELSE Synchronized(h)

Found(r, h) ==
  At(r, "write") => RecordsOf(h) = IF job[r].found = Nothing THEN {} ELSE {job[r].found}

Burning(r, h) ==
  At(r, "burn") /\ job[r].managed /\ job[r].host = h /\ Live(job[r].node) => Serves(job[r].node, h)

HostSound(h) ==
  /\ OnePerHost(h)
  /\ (\A r \in Requests : ~On(r, h)) => Resolves(h) = Synchronized(h)
  /\ \A r \in Requests : On(r, h) => AtWork(r, h) /\ Found(r, h)
  /\ \A r \in Requests : Burning(r, h)

Aiming(r) == job[r].does \in {"activate", "beat"} /\ job[r].at \in DnsSteps \cup {"burn"}

OnTarget ==
  \A r \in Requests : Aiming(r) /\ Managed(job[r].node) =>
    row[job[r].node].host \in {job[r].host} \cup troubled

RecordsSound == OnTarget /\ \A h \in Hosts \ troubled : HostSound(h)

\* A step that leaves the records and the node of a hostname alone.
SameHost(h) ==
  /\ \A d \in Records : /\ dns'[d].host = h <=> dns[d].host = h
                        /\ dns[d].host = h => dns'[d].ip = dns[d].ip
  /\ \A n \in Nodes : /\ Serves(n, h)' <=> Serves(n, h)
                      /\ Serves(n, h) => row'[n].dnsSyncedIp = row[n].dnsSyncedIp

\* A step that leaves of the rows what the records depend on.
RowsAlike ==
  \A n \in Nodes : /\ row'[n].is = row[n].is /\ row'[n].host = row[n].host
                   /\ row'[n].managed = row[n].managed /\ row'[n].dnsSyncedIp = row[n].dnsSyncedIp

LEMMA SameSets ==
  ASSUME NEW h, SameHost(h)
  PROVE  /\ RecordsOf(h)' = RecordsOf(h)
         /\ Resolves(h)' = Resolves(h)
         /\ Synchronized(h)' = Synchronized(h)
<1>1. RecordsOf(h)' = RecordsOf(h)
  BY DEF SameHost, RecordsOf
<1>2. \A d \in RecordsOf(h) : dns'[d].ip = dns[d].ip
  BY DEF SameHost, RecordsOf
<1>3. Resolves(h)' = Resolves(h)
  BY <1>1, <1>2 DEF Resolves
<1>4. {m \in Nodes : Managed(m) /\ row[m].host = h}' = {m \in Nodes : Managed(m) /\ row[m].host = h}
  BY DEF SameHost, Serves
<1>5. \A n \in {m \in Nodes : Managed(m) /\ row[m].host = h} : row'[n].dnsSyncedIp = row[n].dnsSyncedIp
  BY DEF SameHost, Serves
<1>6. Synchronized(h)' = Synchronized(h)
  BY <1>4, <1>5 DEF Synchronized
<1> QED BY <1>1, <1>3, <1>6

LEMMA AlikeSame == ASSUME NEW h, RowsAlike, dns' = dns PROVE SameHost(h)
BY DEF RowsAlike, SameHost, Serves, Managed, Live

LEMMA HostFrame ==
  ASSUME Formed, NEW h \in Hosts, HostSound(h), SameHost(h),
         \A q \in Requests : On(q, h)' <=> On(q, h),
         \A q \in Requests : On(q, h) => job'[q] = job[q],
         \A q \in Requests : Burning(q, h)'
  PROVE  HostSound(h)'
<1>1. OnePerHost(h)'
  BY SameSets DEF HostSound, OnePerHost, SameHost
<1>2. (\A r \in Requests : ~On(r, h)') => Resolves(h)' = Synchronized(h)'
  BY SameSets DEF HostSound
<1>3. ASSUME NEW r \in Requests, On(r, h)'  PROVE AtWork(r, h)' /\ Found(r, h)'
  <2>1. On(r, h) /\ job'[r] = job[r] /\ AtWork(r, h) /\ Found(r, h)
    BY <1>3 DEF HostSound
  <2>2. PICK n \in Nodes : n = job[r].node
    BY <2>1 DEF Formed, JobsOK, Carries, On, Reconciling
  <2>3. Serves(n, h)' <=> Serves(n, h)
    BY DEF SameHost
  <2>4. Resolves(h)' = Resolves(h) /\ Synchronized(h)' = Synchronized(h)
    BY SameSets
  <2>5. AtWork(r, h)'
    BY <2>1, <2>2, <2>3, <2>4 DEF AtWork, At, Serves, Managed, Live
  <2>6. Found(r, h)'
    BY <2>1, SameSets DEF Found, At
  <2> QED BY <2>5, <2>6
<1> QED BY <1>1, <1>2, <1>3 DEF HostSound

\* One request moves, at work on this hostname neither before nor after.
LEMMA QuietJob ==
  ASSUME Formed, NEW h \in Hosts, HostSound(h), SameHost(h),
         \A n \in Nodes : row'[n].is = "live" => Live(n),
         NEW r \in Requests, \A q \in Requests \ {r} : job'[q] = job[q],
         ~On(r, h), ~On(r, h)', job'[r].at # "burn"
  PROVE  HostSound(h)'
<1>1. \A q \in Requests : On(q, h)' <=> On(q, h)
  BY DEF On, Reconciling
<1>2. \A q \in Requests : On(q, h) => job'[q] = job[q]
  OBVIOUS
<1>3. ASSUME NEW q \in Requests  PROVE Burning(q, h)'
  <2>1. CASE q = r
    BY <2>1 DEF Burning, At
  <2>2. CASE q # r
    <3>1. Burning(q, h) /\ job'[q] = job[q]
      BY <2>2 DEF HostSound
    <3>2. CASE ~At(q, "burn")
      BY <3>1, <3>2 DEF Burning, At
    <3>3. CASE At(q, "burn")
      <4>1. PICK n \in Nodes : n = job[q].node
        BY <3>3 DEF Formed, JobsOK, Carries, At, DnsSteps, SyncSteps
      <4>2. Serves(n, h)' <=> Serves(n, h)
        BY DEF SameHost
      <4> QED BY <3>1, <4>1, <4>2 DEF Burning, At, Serves, Managed, Live
    <3> QED BY <3>2, <3>3
  <2> QED BY <2>1, <2>2
<1> QED BY <1>1, <1>2, <1>3, HostFrame

\* One request moves, the only one at work on this hostname.
LEMMA LoneJob ==
  ASSUME Formed, NEW h \in Hosts, HostSound(h),
         \A n \in Nodes : Serves(n, h)' => Serves(n, h),
         \A n \in Nodes : row'[n].is = "live" => Live(n) /\ (Serves(n, h) => Serves(n, h)'),
         \A d, e \in RecordsOf(h)' : d = e,
         NEW r \in Requests, \A q \in Requests \ {r} : job'[q] = job[q] /\ ~On(q, h),
         On(r, h)' => AtWork(r, h)' /\ Found(r, h)',
         ~On(r, h)' => Resolves(h)' = Synchronized(h)',
         job'[r].at # "burn"
  PROVE  HostSound(h)'
<1>1. \A q \in Requests \ {r} : ~On(q, h)'
  BY DEF On, Reconciling
<1>2. OnePerHost(h)'
  BY <1>1 DEF HostSound, OnePerHost
<1>3. ASSUME NEW q \in Requests  PROVE Burning(q, h)'
  <2>1. CASE q = r \/ ~At(q, "burn")
    BY <2>1 DEF Burning, At
  <2>2. CASE q # r /\ At(q, "burn")
    <3>1. Burning(q, h) /\ job'[q] = job[q]
      BY <2>2 DEF HostSound
    <3>2. PICK n \in Nodes : n = job[q].node
      BY <2>2 DEF Formed, JobsOK, Carries, At, DnsSteps, SyncSteps
    <3> QED BY <3>1, <3>2 DEF Burning, At, Serves, Managed, Live
  <2> QED BY <2>1, <2>2
<1> QED BY <1>1, <1>2, <1>3 DEF HostSound

LEMMA TargetFrame ==
  ASSUME Formed, OnTarget, troubled \subseteq troubled',
         \A q \in Requests : Aiming(q)' =>
           Aiming(q) /\ job'[q].node = job[q].node /\ job'[q].host = job[q].host,
         \A n \in Nodes : Managed(n)' => Managed(n) /\ row'[n].host = row[n].host
  PROVE  OnTarget'
<1> SUFFICES ASSUME NEW q \in Requests, Aiming(q)', Managed(job[q].node)'
             PROVE  row'[job'[q].node].host \in {job'[q].host} \cup troubled'
  BY DEF OnTarget
<1>1. Aiming(q) /\ job'[q].node = job[q].node /\ job'[q].host = job[q].host
  OBVIOUS
<1>2. job[q].node \in Nodes
  BY <1>1 DEF Aiming, Formed, JobsOK, Carries, DnsSteps, SyncSteps
<1>3. Managed(job[q].node) /\ row'[job[q].node].host = row[job[q].node].host
  BY <1>1, <1>2 DEF Managed, Live
<1>4. row[job[q].node].host \in {job[q].host} \cup troubled
  BY <1>1, <1>3 DEF OnTarget
<1> QED BY <1>1, <1>3, <1>4

\* A request that is at no reconcile moves, and not to one.
LEMMA QuietStep ==
  ASSUME Formed, RecordsSound, RowsAlike, UNCHANGED <<dns, troubled>>,
         NEW r \in Requests, NEW j, job' = [job EXCEPT ![r] = j],
         job[r].at \notin DnsSteps, j.at \notin DnsSteps \cup {"burn"}
  PROVE  RecordsSound'
<1>1. \A q \in Requests : job'[q] = IF q = r THEN j ELSE job[q]
  BY DEF Formed, JobsOK
<1>2. OnTarget'
  <2>1. \A q \in Requests : Aiming(q)' => Aiming(q) /\ job'[q] = job[q]
    BY <1>1 DEF Aiming
  <2>2. \A n \in Nodes : Managed(n)' => Managed(n) /\ row'[n].host = row[n].host
    BY DEF RowsAlike, Managed, Live
  <2> QED BY <2>1, <2>2, TargetFrame DEF RecordsSound
<1>3. ASSUME NEW h \in Hosts, HostSound(h)  PROVE HostSound(h)'
  <2>1. ~On(r, h) /\ ~On(r, h)' /\ job'[r].at # "burn"
    BY <1>1 DEF On, Reconciling
  <2>2. \A n \in Nodes : row'[n].is = "live" => Live(n)
    BY DEF RowsAlike, Live
  <2> QED BY <1>1, <1>3, <2>1, <2>2, AlikeSame, QuietJob
<1> QED BY <1>2, <1>3 DEF RecordsSound

LEMMA QuietGoes ==
  ASSUME Formed, RecordsSound, RowsAlike, UNCHANGED <<dns, troubled>>,
         NEW r \in Requests, NEW step, Goes(r, step),
         job[r].at \notin DnsSteps, step \notin DnsSteps \cup {"burn"}
  PROVE  RecordsSound'
<1> DEFINE j == [job[r] EXCEPT !.at = step]
<1>1. j.at = step /\ job' = [job EXCEPT ![r] = j]
  BY DEF Formed, JobsOK, Job, Goes
<1> HIDE DEF j
<1> QED BY <1>1, QuietStep

LEMMA QuietEnds ==
  ASSUME Formed, RecordsSound, RowsAlike, UNCHANGED <<dns, troubled>>,
         NEW r \in Requests, Ends(r), job[r].at \notin DnsSteps
  PROVE  RecordsSound'
<1>1. Idle.at = "idle"
  BY DEF Idle
<1> QED BY <1>1, QuietStep DEF Ends, DnsSteps

LEMMA SameRowsAlike == ASSUME UNCHANGED row PROVE RowsAlike
BY DEF RowsAlike

LEMMA BillingRecords ==
  ASSUME Formed, RecordsSound, NEW r \in Requests, BillingStep(r), UNCHANGED <<dnsVars, address>>
  PROVE  RecordsSound'
<1>0. job \in [Requests -> Job] /\ job[r] \in Job
  BY DEF Formed, JobsOK
<1>1. RowsAlike /\ UNCHANGED <<dns, troubled>>
  BY SameRowsAlike
  DEF BillingStep, CountNodes, CheckEntitlement, ReadTrial, GrantTrial, ReadSubscription,
      CountSeats, PushSeats, PushFails, OpenCheckout, TellPolar, PolarFails, Reflect, rowVars, dnsVars
<1>2. job[r].at \notin DnsSteps
  BY DEF BillingStep, CountNodes, CheckEntitlement, ReadTrial, GrantTrial, ReadSubscription,
         CountSeats, PushSeats, PushFails, OpenCheckout, TellPolar, PolarFails, Reflect, At, DnsSteps
<1>3. CASE \E step \in Steps \ (DnsSteps \cup {"burn"}) : Goes(r, step)
  BY <1>1, <1>2, <1>3, QuietGoes
<1>4. CASE Ends(r)
  BY <1>1, <1>2, <1>4, QuietEnds
<1>5. CASE \E trial : job' = [job EXCEPT ![r].at = "seats", ![r].trial = trial]
  <2>1. PICK trial : job' = [job EXCEPT ![r].at = "seats", ![r].trial = trial]
    BY <1>5
  <2> DEFINE j == [job[r] EXCEPT !.at = "seats", !.trial = trial]
  <2>2. j.at = "seats" /\ job' = [job EXCEPT ![r] = j]
    BY <1>0, <2>1 DEF Job
  <2> HIDE DEF j
  <2> QED BY <1>1, <1>2, <2>2, QuietStep DEF DnsSteps
<1>6. CASE \E seats : job' = [job EXCEPT ![r].at = "push", ![r].seats = seats]
  <2>1. PICK seats : job' = [job EXCEPT ![r].at = "push", ![r].seats = seats]
    BY <1>6
  <2> DEFINE j == [job[r] EXCEPT !.at = "push", !.seats = seats]
  <2>2. j.at = "push" /\ job' = [job EXCEPT ![r] = j]
    BY <1>0, <2>1 DEF Job
  <2> HIDE DEF j
  <2> QED BY <1>1, <1>2, <2>2, QuietStep DEF DnsSteps
<1> QED
  BY <1>3, <1>4, <1>5, <1>6
  DEF BillingStep, CountNodes, CheckEntitlement, ReadTrial, GrantTrial, ReadSubscription, CountSeats,
      PushSeats, PushFails, OpenCheckout, TellPolar, PolarFails, Reflect, Synced, Steps, SyncSteps, DnsSteps

LEMMA StillRecords ==
  ASSUME Formed, RecordsSound, UNCHANGED <<row, job, dns, troubled>>
  PROVE  RecordsSound'
<1>1. OnTarget'
  BY DEF RecordsSound, OnTarget, Aiming, Managed, Live
<1>2. ASSUME NEW h \in Hosts, HostSound(h)  PROVE HostSound(h)'
  <2>1. SameHost(h)
    BY SameRowsAlike, AlikeSame
  <2>2. \A q \in Requests : Burning(q, h)'
    BY <1>2 DEF HostSound, Burning, At, Serves, Managed, Live
  <2>3. \A q \in Requests : On(q, h)' <=> On(q, h)
    BY DEF On, Reconciling
  <2> QED BY <1>2, <2>1, <2>2, <2>3, HostFrame
<1> QED BY <1>1, <1>2 DEF RecordsSound

LEMMA PlanRecords ==
  ASSUME Formed, RecordsSound, NEW o \in Orgs, PlanNext(o), UNCHANGED <<dnsVars, address>>
  PROVE  RecordsSound'
<1>1. RowsAlike /\ UNCHANGED <<row, dns, troubled>>
  BY SameRowsAlike
  DEF PlanNext, StartCheckout, ChangePlan, Pays, PolarChanges, WindowCloses, Webhook, rowVars, dnsVars
<1>2. ASSUME NEW r \in Requests, StartCheckout(r, o)  PROVE RecordsSound'
  <2> DEFINE j == [Idle EXCEPT !.does = "checkout", !.org = o, !.at = "polar",
                     !.seats = RequiredSeats(o, TRUE)]
  <2>1. j.at = "polar"
    BY DEF Idle
  <2>2. job' = [job EXCEPT ![r] = j] /\ job[r].at = "idle"
    BY <1>2 DEF StartCheckout, Begin, At
  <2> HIDE DEF j
  <2> QED BY <1>1, <2>1, <2>2, QuietStep DEF DnsSteps
<1>3. ASSUME NEW r \in Requests, NEW what \in {"cancel", "resume"}, ChangePlan(r, o, what)
      PROVE  RecordsSound'
  <2> DEFINE j == [Idle EXCEPT !.does = what, !.org = o, !.at = "polar"]
  <2>1. j.at = "polar"
    BY DEF Idle
  <2>2. job' = [job EXCEPT ![r] = j] /\ job[r].at = "idle"
    BY <1>3 DEF ChangePlan, Begin, At
  <2> HIDE DEF j
  <2> QED BY <1>1, <2>1, <2>2, QuietStep DEF DnsSteps
<1>4. CASE UNCHANGED job
  BY <1>1, <1>4, StillRecords
<1> QED
  BY <1>2, <1>3, <1>4 DEF PlanNext, Pays, PolarChanges, WindowCloses, Webhook

(***************************************************************************)
(* A reconcile goes on: on other hostnames it changes nothing, and on its   *)
(* own it knows what there is.                                              *)
(***************************************************************************)
LEMMA DnsMoves ==
  ASSUME Formed, NEW r \in Requests, DnsStep(r)
  PROVE  /\ \A q \in Requests \ {r} : job'[q] = job[q]
         /\ job'[r].does = job[r].does /\ job'[r].host = job[r].host
         /\ job'[r].node = job[r].node /\ job'[r].ip = job[r].ip
         /\ job'[r].at \in {"write", "mark", "trial", "answer"}
         /\ job[r].at \in DnsSteps
         /\ troubled \subseteq troubled' /\ UNCHANGED held
BY DEF Formed, JobsOK, Job, DnsStep, List, ListFails, Write, WriteFails, WriteUnheard, Mark, GivesUp,
       Goes, Reconciled, At, DnsSteps, Trouble, rowVars, dnsVars

LEMMA DnsRows ==
  ASSUME Formed, NEW r \in Requests, DnsStep(r), NEW n \in Nodes
  PROVE  /\ row'[n].is = row[n].is /\ row'[n].host = row[n].host /\ row'[n].managed = row[n].managed
         /\ row'[n].dnsSyncedIp = IF Mark(r) /\ n = job[r].node /\ Live(n)
                                    THEN job[r].ip ELSE row[n].dnsSyncedIp
<1>1. row[n] \in Row /\ row \in [Nodes -> Row]
  BY DEF Formed, RowsOK
<1>2. CASE Mark(r)
  BY <1>1, <1>2 DEF Mark, Row
<1>3. CASE ~Mark(r)
  <2>1. row' = row
    BY <1>3 DEF DnsStep, List, ListFails, Write, WriteFails, WriteUnheard, rowVars
  <2> QED BY <1>3, <2>1
<1> QED BY <1>2, <1>3

LEMMA DnsElsewhere ==
  ASSUME Formed, OnTarget, NEW r \in Requests, DnsStep(r),
         NEW h \in Hosts \ troubled, h # job[r].host, HostSound(h)
  PROVE  HostSound(h)'
<1>1. ASSUME NEW d \in Records
      PROVE  (dns'[d].host = h <=> dns[d].host = h) /\ (dns[d].host = h => dns'[d] = dns[d])
  <2>1. dns' = dns \/ \E e \in Records : Takes(r, e)
    BY DEF DnsStep, List, ListFails, Write, WriteFails, WriteUnheard, Mark, dnsVars
  <2>2. ASSUME NEW e \in Records, Takes(r, e)
        PROVE  /\ d # e => dns'[d] = dns[d]
               /\ dns[e].host \in {Nothing, job[r].host} /\ dns'[e].host \in {Nothing, job[r].host}
    BY <2>2 DEF Takes, Accepts, NoRecord, Formed, RecordsOK
  <2> QED BY <2>1, <2>2
<1>2. ASSUME NEW n \in Nodes
      PROVE  /\ Serves(n, h)' <=> Serves(n, h)
             /\ Serves(n, h) => row'[n].dnsSyncedIp = row[n].dnsSyncedIp
             /\ row'[n].is = "live" => Live(n)
  <2>1. Mark(r) => Aiming(r)
    BY DEF Mark, At, Aiming, Formed, JobsOK, Carries, DnsSteps
  <2>2. Mark(r) /\ n = job[r].node => ~Serves(n, h)
    BY <2>1 DEF OnTarget, Serves
  <2> QED BY <2>2, DnsRows DEF Serves, Managed, Live
<1>3. SameHost(h)
  BY <1>1, <1>2 DEF SameHost
<1>4. ~On(r, h) /\ ~On(r, h)' /\ job'[r].at # "burn"
  BY DnsMoves DEF On
<1> QED BY <1>2, <1>3, <1>4, DnsMoves, QuietJob

LEMMA DnsHere ==
  ASSUME Formed, NEW r \in Requests, DnsStep(r), NEW h \in Hosts \ troubled', h = job[r].host, HostSound(h)
  PROVE  HostSound(h)'
<1>0. /\ job[r] \in Job /\ job[r].at \in DnsSteps /\ Carries(job[r], job[r].at)
      /\ dns \in [Records -> [host : Hosts \cup {Nothing}, ip : Ips \cup {Nothing}]]
  BY DnsMoves DEF Formed, JobsOK, RecordsOK
<1>1. /\ On(r, h) /\ AtWork(r, h) /\ Found(r, h)
      /\ \A q \in Requests \ {r} : job'[q] = job[q] /\ ~On(q, h)
  BY <1>0, DnsMoves DEF On, Reconciling, HostSound, OnePerHost
<1>2. \A n \in Nodes : Serves(n, h)' <=> Serves(n, h)
  BY DnsRows DEF Serves, Managed, Live
<1>3. \A n \in Nodes : row'[n].is = "live" => Live(n)
  BY DnsRows DEF Live
<1>4. \A d, e \in RecordsOf(h) : d = e
  BY DEF HostSound, OnePerHost
<1>5. ASSUME ~Mark(r)  PROVE Synchronized(h)' = Synchronized(h)
  <2>1. row' = row
    BY <1>5 DEF DnsStep, List, ListFails, Write, WriteFails, WriteUnheard, rowVars
  <2> QED BY <2>1 DEF Synchronized, Managed, Live
<1>6. ASSUME dns' = dns  PROVE RecordsOf(h)' = RecordsOf(h) /\ Resolves(h)' = Resolves(h)
  BY <1>6 DEF RecordsOf, Resolves
<1>7. PICK n \in Nodes : n = job[r].node
  BY <1>0 DEF Carries
<1>8. ASSUME \A d, e \in RecordsOf(h)' : d = e,
             On(r, h)' => AtWork(r, h)' /\ Found(r, h)',
             ~On(r, h)' => Resolves(h)' = Synchronized(h)'
      PROVE  HostSound(h)'
  BY <1>1, <1>2, <1>3, <1>8, DnsMoves, LoneJob
<1>9. job[r].ip = Nothing <=> job[r].does = "remove"
  BY <1>0 DEF Carries
<1>10. CASE List(r)
  <2>1. dns' = dns /\ ~Mark(r) /\ job[r].at = "list"
    BY <1>10 DEF List, Mark, At, dnsVars
  <2>2. CASE \E d \in RecordsOf(h) : job' = [job EXCEPT ![r].at = "write", ![r].found = d]
    <3>1. PICK d \in RecordsOf(h) : job' = [job EXCEPT ![r].at = "write", ![r].found = d]
      BY <2>2
    <3>2. job'[r].at = "write" /\ job'[r].found = d /\ d # Nothing
      BY <1>0, <3>1 DEF Formed, JobsOK, Job, RecordsOf
    <3>3. AtWork(r, h)'
      BY <1>1, <1>2, <1>5, <1>6, <1>7, <2>1, <3>2, DnsMoves DEF AtWork, At, Serves, Managed, Live
    <3>4. Found(r, h)'
      BY <1>4, <1>6, <2>1, <3>2 DEF Found
    <3> QED BY <1>4, <1>6, <1>8, <2>1, <3>2, <3>3, <3>4, DnsMoves DEF On, Reconciling, DnsSteps
  <2>3. CASE RecordsOf(h) = {} /\ job[r].ip = Nothing
    <3>1. job'[r].at = "trial"
      BY <1>0, <1>9, <1>10, <2>3 DEF List, Goes, Reconciled, Formed, JobsOK, Job
    <3>2. Resolves(h)' = Synchronized(h)'
      BY <1>1, <1>5, <1>6, <2>1, <2>3 DEF AtWork, Resolves
    <3>3. ~On(r, h)'
      BY <3>1 DEF On, Reconciling, DnsSteps
    <3> QED BY <1>4, <1>6, <1>8, <2>1, <3>2, <3>3
  <2>4. CASE RecordsOf(h) = {} /\ job[r].ip # Nothing
    <3>1. job'[r].at = "write" /\ job'[r].found = Nothing
      BY <1>0, <1>10, <2>4 DEF List, Formed, JobsOK, Job
    <3>2. AtWork(r, h)'
      BY <1>1, <1>2, <1>5, <1>6, <1>7, <2>1, <3>1, DnsMoves DEF AtWork, At, Serves, Managed, Live
    <3>3. Found(r, h)'
      BY <1>6, <2>1, <2>4, <3>1 DEF Found
    <3> QED BY <1>4, <1>6, <1>8, <2>1, <3>1, <3>2, <3>3, DnsMoves DEF On, Reconciling, DnsSteps
  <2> QED BY <1>10, <2>2, <2>3, <2>4 DEF List
<1>11. CASE ListFails(r) \/ WriteFails(r)
  <2>1. dns' = dns /\ ~Mark(r) /\ GivesUp(r) /\ job[r].at \in {"list", "write"}
    BY <1>11 DEF ListFails, WriteFails, Mark, At
  <2>2. job[r].ip # Nothing
    BY <2>1 DEF GivesUp, Trouble
  <2>3. job'[r].at = "answer"
    BY <1>0, <1>9, <2>1, <2>2 DEF GivesUp, Goes, Reconciled, Formed, JobsOK, Job
  <2>4. Resolves(h)' = Synchronized(h)'
    BY <1>1, <1>5, <1>6, <2>1, <2>2 DEF AtWork, At
  <2>5. ~On(r, h)'
    BY <2>3 DEF On, Reconciling, DnsSteps
  <2> QED BY <1>4, <1>6, <1>8, <2>1, <2>4, <2>5
<1>12. CASE Write(r)
  <2>1. PICK d \in Records : Takes(r, d)
    BY <1>12 DEF Write
  <2>2. job[r].at = "write" /\ ~Mark(r) /\ Goes(r, Reconciled(r, TRUE))
    BY <1>12 DEF Write, Mark, At
  <2>3. RecordsOf(h) \subseteq {d}
    BY <1>1, <2>1, <2>2 DEF Found, At, Takes, Accepts
  <2>4. CASE job[r].ip = Nothing
    <3>1. dns' = [dns EXCEPT ![d] = NoRecord]
      BY <2>1, <2>4 DEF Takes
    <3>2. RecordsOf(h)' = {}
      BY <1>0, <2>3, <3>1 DEF RecordsOf, NoRecord
    <3>3. job'[r].at = "trial"
      BY <1>0, <1>9, <2>2, <2>4 DEF Goes, Reconciled, Formed, JobsOK, Job
    <3>4. Resolves(h)' = Synchronized(h)'
      BY <1>1, <1>5, <2>2, <2>4, <3>2 DEF AtWork, Resolves
    <3>5. ~On(r, h)'
      BY <3>3 DEF On, Reconciling, DnsSteps
    <3> QED BY <1>8, <3>2, <3>4, <3>5
  <2>5. CASE job[r].ip # Nothing
    <3>1. dns' = [dns EXCEPT ![d] = [host |-> h, ip |-> job[r].ip]]
      BY <2>1, <2>5 DEF Takes
    <3>2. RecordsOf(h)' = {d} /\ dns'[d].ip = job[r].ip
      BY <1>0, <2>3, <3>1 DEF RecordsOf
    <3>3. Resolves(h)' = {job[r].ip}
      BY <3>2 DEF Resolves
    <3>4. job'[r].at = "mark"
      BY <1>0, <1>9, <2>2, <2>5 DEF Goes, Reconciled, Formed, JobsOK, Job
    <3>5. AtWork(r, h)'
      BY <1>1, <1>2, <1>7, <2>5, <3>3, <3>4, DnsMoves DEF AtWork, At, Serves, Managed, Live
    <3>6. Found(r, h)'
      BY <3>4 DEF Found, At
    <3> QED BY <1>8, <3>2, <3>4, <3>5, <3>6, DnsMoves DEF On, Reconciling, DnsSteps
  <2> QED BY <2>4, <2>5
<1>13. CASE WriteUnheard(r)
  BY <1>13 DEF WriteUnheard, Trouble
<1>14. CASE Mark(r)
  <2>1. job[r].at = "mark" /\ job'[r].at = "answer" /\ dns' = dns
    BY <1>0, <1>14 DEF Mark, At, Goes, Formed, JobsOK, Job, dnsVars
  <2>2. job[r].ip # Nothing
    BY <1>0, <1>9, <2>1 DEF Carries, DnsSteps
  <2>3. Serves(n, h) /\ Resolves(h) = {job[r].ip}
    BY <1>1, <1>7, <2>1, <2>2 DEF AtWork, At
  <2>4. {m \in Nodes : Managed(m) /\ row[m].host = h}' = {n}
    BY <1>2, <2>3 DEF HostSound, OnePerHost, Serves
  <2>5. row'[n].dnsSyncedIp = job[r].ip
    BY <1>7, <1>14, <2>3, DnsRows DEF Serves, Managed
  <2>6. Synchronized(h)' = {job[r].ip}
    BY <2>2, <2>4, <2>5 DEF Synchronized
  <2>7. ~On(r, h)'
    BY <2>1 DEF On, Reconciling, DnsSteps
  <2> QED BY <1>4, <1>6, <1>8, <2>1, <2>3, <2>6, <2>7
<1> QED BY <1>10, <1>11, <1>12, <1>13, <1>14 DEF DnsStep

LEMMA DnsRecords ==
  ASSUME Formed, RecordsSound, NEW r \in Requests, DnsStep(r)
  PROVE  RecordsSound'
<1>1. \A q \in Requests : Aiming(q)' =>
        Aiming(q) /\ job'[q].node = job[q].node /\ job'[q].host = job[q].host
  BY DnsMoves DEF Aiming
<1>2. \A n \in Nodes : Managed(n)' => Managed(n) /\ row'[n].host = row[n].host
  BY DnsRows DEF Managed, Live
<1>3. OnTarget'
  BY <1>1, <1>2, DnsMoves, TargetFrame DEF RecordsSound
<1> QED BY <1>3, DnsMoves, DnsElsewhere, DnsHere DEF RecordsSound

(***************************************************************************)
(* The handlers that begin a reconcile, or change the rows.                 *)
(***************************************************************************)
LEMMA InsertRecords ==
  ASSUME Formed, KeysSound, RecordsSound, NEW r \in Requests, NEW n \in Nodes, Insert(r, n)
  PROVE  RecordsSound'
<1> DEFINE v == [Unborn EXCEPT !.is = "live", !.org = job[r].org,
                   !.host = job[r].host, !.managed = job[r].managed, !.token = "minted"]
           j == [job[r] EXCEPT !.at = "trial", !.node = n]
<1>1. v.is = "live" /\ v.host = job[r].host /\ v.managed = job[r].managed /\ v.dnsSyncedIp = Nothing
  BY DEF Unborn
<1>2. j.at = "trial"
  BY DEF Formed, JobsOK, Job
<1>3. /\ row' = [row EXCEPT ![n] = v] /\ job' = [job EXCEPT ![r] = j] /\ dns' = dns
      /\ row[n].is = "unborn" /\ job[r].at = "insert"
      /\ Trouble(IF job[r].managed /\ Shared(job[r].host) THEN {job[r].host} ELSE {})
  BY DEF Insert, Formed, JobsOK, Job, At
<1> HIDE DEF v, j
<1>4. /\ \A m \in Nodes \ {n} : row'[m] = row[m]
      /\ row'[n] = v /\ ~Live(n)
      /\ \A q \in Requests \ {r} : job'[q] = job[q]
      /\ job'[r] = j
      /\ troubled \subseteq troubled'
  BY <1>3 DEF Formed, RowsOK, JobsOK, Live, Trouble
<1>5. \A q \in Requests : job[q].node # n
  BY <1>3 DEF KeysSound
<1>6. OnTarget'
  <2> SUFFICES ASSUME NEW q \in Requests, Aiming(q)', Managed(job[q].node)'
               PROVE  row'[job'[q].node].host \in {job'[q].host} \cup troubled'
    BY DEF OnTarget
  <2>1. q # r
    BY <1>2, <1>4 DEF Aiming, DnsSteps
  <2>2. Aiming(q) /\ job'[q] = job[q]
    BY <1>4, <2>1 DEF Aiming
  <2>3. job[q].node \in Nodes \ {n}
    BY <1>5, <2>2 DEF Aiming, Formed, JobsOK, Carries, DnsSteps, SyncSteps
  <2>4. row'[job[q].node] = row[job[q].node] /\ Managed(job[q].node)
    BY <1>4, <2>2, <2>3 DEF Managed, Live
  <2> QED BY <1>4, <2>2, <2>4 DEF RecordsSound, OnTarget
<1>7. ASSUME NEW h \in Hosts \ troubled', HostSound(h)  PROVE HostSound(h)'
  <2>1. \A m \in Nodes \ {n} : /\ Serves(m, h)' <=> Serves(m, h)
                               /\ row'[m].dnsSyncedIp = row[m].dnsSyncedIp
    BY <1>4 DEF Serves, Managed, Live
  <2>2. ~Serves(n, h)
    BY <1>4 DEF Serves, Managed
  <2>3. Serves(n, h)' => \A m \in Nodes : ~Serves(m, h)
    <3>1. Serves(n, h)' => job[r].managed /\ job[r].host = h
      BY <1>1, <1>4 DEF Serves, Managed
    <3> QED BY <1>3, <3>1 DEF Trouble, Shared, Serves
  <2>4. RecordsOf(h)' = RecordsOf(h) /\ Resolves(h)' = Resolves(h)
    BY <1>3 DEF RecordsOf, Resolves
  <2>5. Synchronized(h)' = Synchronized(h)
    <3>1. ASSUME NEW ip  PROVE ip \in Synchronized(h)' <=> ip \in Synchronized(h)
      <4>1. ip \in Synchronized(h)' <=> ip # Nothing /\ \E m \in Nodes : Serves(m, h)' /\ ip = row'[m].dnsSyncedIp
        BY DEF Synchronized, Serves
      <4>2. ip \in Synchronized(h) <=> ip # Nothing /\ \E m \in Nodes : Serves(m, h) /\ ip = row[m].dnsSyncedIp
        BY DEF Synchronized, Serves
      <4>3. row'[n].dnsSyncedIp = Nothing
        BY <1>1, <1>4
      <4> QED BY <2>1, <2>2, <4>1, <4>2, <4>3
    <3> QED BY <3>1
  <2>6. \A q \in Requests : (On(q, h)' <=> On(q, h)) /\ (On(q, h) => job'[q] = job[q])
    BY <1>2, <1>3, <1>4 DEF On, Reconciling, DnsSteps
  <2>7. OnePerHost(h)'
    BY <1>7, <2>1, <2>2, <2>3, <2>4, <2>6 DEF HostSound, OnePerHost
  <2>8. ASSUME NEW q \in Requests, On(q, h)'  PROVE AtWork(q, h)' /\ Found(q, h)'
    <3>1. On(q, h) /\ job'[q] = job[q] /\ AtWork(q, h) /\ Found(q, h)
      BY <1>7, <2>6, <2>8 DEF HostSound
    <3>2. PICK m \in Nodes : m = job[q].node
      BY <3>1 DEF Formed, JobsOK, Carries, On, Reconciling
    <3>3. m # n
      BY <1>5, <3>2
    <3>4. AtWork(q, h)'
      BY <2>1, <2>4, <2>5, <3>1, <3>2, <3>3 DEF AtWork, At, Serves, Managed, Live
    <3>5. Found(q, h)'
      BY <2>4, <3>1 DEF Found, At
    <3> QED BY <3>4, <3>5
  <2>9. ASSUME NEW q \in Requests  PROVE Burning(q, h)'
    <3>1. CASE q = r \/ ~At(q, "burn")
      BY <1>2, <1>4, <3>1 DEF Burning, At
    <3>2. CASE q # r /\ At(q, "burn")
      <4>1. Burning(q, h) /\ job'[q] = job[q]
        BY <1>4, <1>7, <3>2 DEF HostSound
      <4>2. PICK m \in Nodes : m = job[q].node
        BY <3>2 DEF Formed, JobsOK, Carries, At, DnsSteps, SyncSteps
      <4>3. m # n
        BY <1>5, <4>2
      <4> QED BY <1>4, <2>1, <4>1, <4>2, <4>3 DEF Burning, At, Serves, Managed, Live
    <3> QED BY <3>1, <3>2
  <2>10. (\A q \in Requests : ~On(q, h)') => Resolves(h)' = Synchronized(h)'
    BY <1>7, <2>4, <2>5, <2>6 DEF HostSound
  <2> QED BY <2>7, <2>8, <2>9, <2>10 DEF HostSound
<1> QED BY <1>4, <1>6, <1>7 DEF RecordsSound

LEMMA UpdateRecords ==
  ASSUME Formed, RecordsSound, NEW n \in Nodes, NEW g \in Hosts, UpdateNode(n, g)
  PROVE  RecordsSound'
<1>1. /\ \A m \in Nodes : /\ row'[m].is = row[m].is /\ row'[m].managed = row[m].managed
                           /\ row'[m].dnsSyncedIp = row[m].dnsSyncedIp
                           /\ row'[m].host = IF m = n THEN g ELSE row[m].host
      /\ job' = job /\ dns' = dns
      /\ troubled' = troubled \cup (IF row[n].managed THEN {row[n].host, g} ELSE {})
  BY DEF UpdateNode, Formed, RowsOK, Row, Trouble, dnsVars
<1>2. OnTarget'
  <2> SUFFICES ASSUME NEW q \in Requests, Aiming(q)', Managed(job[q].node)'
               PROVE  row'[job'[q].node].host \in {job'[q].host} \cup troubled'
    BY DEF OnTarget
  <2>1. Aiming(q) /\ job[q].node \in Nodes
    BY <1>1 DEF Aiming, Formed, JobsOK, Carries, DnsSteps, SyncSteps
  <2>2. Managed(job[q].node)
    BY <1>1, <2>1 DEF Managed, Live
  <2>3. row[job[q].node].host \in {job[q].host} \cup troubled
    BY <2>1, <2>2 DEF RecordsSound, OnTarget
  <2> QED BY <1>1, <2>1, <2>2, <2>3 DEF Managed
<1>3. ASSUME NEW h \in Hosts \ troubled', HostSound(h)  PROVE HostSound(h)'
  <2>1. \A m \in Nodes : (Serves(m, h)' <=> Serves(m, h)) /\ (Live(m)' <=> Live(m))
    BY <1>1 DEF Serves, Managed, Live
  <2>2. SameHost(h)
    BY <1>1, <2>1 DEF SameHost
  <2>3. ASSUME NEW q \in Requests  PROVE Burning(q, h)'
    <3>1. CASE ~At(q, "burn")
      BY <1>1, <3>1 DEF Burning, At
    <3>2. CASE At(q, "burn")
      <4>1. PICK m \in Nodes : m = job[q].node
        BY <3>2 DEF Formed, JobsOK, Carries, At, DnsSteps, SyncSteps
      <4> QED BY <1>1, <1>3, <2>1, <4>1 DEF HostSound, Burning, At, Live, Serves, Managed
    <3> QED BY <3>1, <3>2
  <2>4. \A q \in Requests : (On(q, h)' <=> On(q, h)) /\ job'[q] = job[q]
    BY <1>1 DEF On, Reconciling
  <2> QED BY <1>3, <2>2, <2>3, <2>4, HostFrame
<1> QED BY <1>1, <1>2, <1>3 DEF RecordsSound

LEMMA RemoveRecords ==
  ASSUME Formed, RecordsSound, NEW r \in Requests, NEW n \in Nodes, RemoveNode(r, n)
  PROVE  RecordsSound'
<1> DEFINE v == [Unborn EXCEPT !.is = "removed"]
           j == [Idle EXCEPT !.does = "remove", !.org = row[n].org, !.node = n,
                   !.host = row[n].host, !.managed = row[n].managed,
                   !.at = IF row[n].managed THEN "list" ELSE "trial"]
<1>1. /\ v.is = "removed" /\ j.does = "remove" /\ j.host = row[n].host /\ j.ip = Nothing
      /\ j.at = IF row[n].managed THEN "list" ELSE "trial"
  BY DEF Unborn, Idle
<1>2. /\ row' = [row EXCEPT ![n] = v] /\ job' = [job EXCEPT ![r] = j] /\ dns' = dns
      /\ job[r].at = "idle" /\ Live(n)
      /\ Trouble(IF row[n].managed THEN Overlapped(r) ELSE {})
  BY DEF RemoveNode, Begin, At
<1> HIDE DEF v, j
<1>3. /\ \A m \in Nodes \ {n} : row'[m] = row[m]
      /\ row'[n] = v
      /\ \A q \in Requests \ {r} : job'[q] = job[q]
      /\ job'[r] = j
      /\ troubled \subseteq troubled'
  BY <1>2 DEF Formed, RowsOK, JobsOK, Trouble
<1>4. \A m \in Nodes : row'[m].is = "live" => Live(m) /\ m # n
  BY <1>1, <1>3 DEF Live
<1>5. OnTarget'
  <2>1. \A q \in Requests : Aiming(q)' => Aiming(q) /\ job'[q] = job[q]
    BY <1>1, <1>3 DEF Aiming
  <2>2. \A m \in Nodes : Managed(m)' => Managed(m) /\ row'[m].host = row[m].host
    BY <1>3, <1>4 DEF Managed, Live
  <2> QED BY <1>3, <2>1, <2>2, TargetFrame DEF RecordsSound
<1>6. ASSUME NEW h \in Hosts \ troubled', HostSound(h)  PROVE HostSound(h)'
  <2>1. ~On(r, h) /\ job'[r].at # "burn"
    BY <1>1, <1>2, <1>3 DEF On, Reconciling, DnsSteps
  <2>2. CASE ~(row[n].managed /\ row[n].host = h)
    <3>1. \A m \in Nodes : /\ Serves(m, h)' <=> Serves(m, h)
                           /\ Serves(m, h) => row'[m].dnsSyncedIp = row[m].dnsSyncedIp
      BY <1>3, <1>4, <2>2 DEF Serves, Managed, Live
    <3>2. SameHost(h)
      BY <1>2, <3>1 DEF SameHost
    <3>3. ~On(r, h)'
      BY <1>1, <1>3, <2>2 DEF On, Reconciling, DnsSteps
    <3> QED BY <1>3, <1>4, <1>6, <2>1, <3>2, <3>3, QuietJob
  <2>3. CASE row[n].managed /\ row[n].host = h
    <3>1. Others(r) = {}
      BY <1>1, <1>2, <1>3, <1>6, <2>3 DEF Trouble, Overlapped
    <3>2. \A q \in Requests \ {r} : job'[q] = job[q] /\ ~On(q, h)
      BY <1>1, <1>3, <2>3, <3>1 DEF Others, On
    <3>3. Serves(n, h)
      BY <1>2, <2>3 DEF Serves, Managed
    <3>4. \A m \in Nodes : ~Serves(m, h)'
      BY <1>3, <1>4, <1>6, <3>3 DEF HostSound, OnePerHost, Serves, Managed, Live
    <3>5. Synchronized(h)' = {}
      BY <3>4 DEF Synchronized, Serves
    <3>6. AtWork(r, h)' /\ Found(r, h)' /\ On(r, h)'
      BY <1>1, <1>3, <2>3, <3>5 DEF AtWork, Found, At, On, Reconciling, DnsSteps
    <3>7. \A d, e \in RecordsOf(h)' : d = e
      BY <1>2, <1>6 DEF HostSound, OnePerHost, RecordsOf
    <3>8. \A m \in Nodes : row'[m].is = "live" => ~Serves(m, h)
      BY <1>4, <1>6, <3>3 DEF HostSound, OnePerHost
    <3> QED BY <1>4, <1>6, <2>1, <3>2, <3>4, <3>6, <3>7, <3>8, LoneJob
  <2> QED BY <2>2, <2>3
<1> QED BY <1>3, <1>5, <1>6 DEF RecordsSound

\* A request begins to reconcile a hostname that its node has.
LEMMA BeginRecords ==
  ASSUME Formed, RecordsSound, RowsAlike, dns' = dns, NEW r \in Requests, NEW g \in Hosts,
         NEW n \in Nodes, Trouble(Overlapped(r)),
         \A q \in Requests \ {r} : job'[q] = job[q],
         job[r].at \notin DnsSteps, job'[r].at = "list",
         job'[r].host = g, job'[r].node = n, job'[r].ip # Nothing,
         Managed(n), row[n].host = g \/ g \in troubled,
         row[n].host \in {g} \cup troubled
  PROVE  RecordsSound'
<1>1. troubled \subseteq troubled'
  BY DEF Trouble
<1>2. OnTarget'
  <2> SUFFICES ASSUME NEW q \in Requests, Aiming(q)', Managed(job[q].node)'
               PROVE  row'[job'[q].node].host \in {job'[q].host} \cup troubled'
    BY DEF OnTarget
  <2>1. CASE q = r
    BY <1>1, <2>1 DEF RowsAlike
  <2>2. CASE q # r
    <3>1. Aiming(q) /\ job'[q] = job[q] /\ job[q].node \in Nodes
      BY <2>2 DEF Aiming, Formed, JobsOK, Carries, DnsSteps, SyncSteps
    <3>2. Managed(job[q].node) /\ row'[job[q].node].host = row[job[q].node].host
      BY <3>1 DEF RowsAlike, Managed, Live
    <3> QED BY <1>1, <3>1, <3>2 DEF RecordsSound, OnTarget
  <2> QED BY <2>1, <2>2
<1>3. ASSUME NEW h \in Hosts \ troubled', HostSound(h)  PROVE HostSound(h)'
  <2>1. SameHost(h)
    BY AlikeSame
  <2>2. \A m \in Nodes : row'[m].is = "live" => Live(m)
    BY DEF RowsAlike, Live
  <2>3. ~On(r, h) /\ job'[r].at # "burn"
    BY DEF On, Reconciling
  <2>4. CASE h # g
    <3>1. ~On(r, h)'
      BY <2>4 DEF On
    <3> QED BY <1>3, <2>1, <2>2, <2>3, <3>1, QuietJob
  <2>5. CASE h = g
    <3>1. Others(r) = {}
      BY <1>3, <2>5 DEF Trouble, Overlapped
    <3>2. \A q \in Requests : ~On(q, h)
      BY <2>3, <2>5, <3>1 DEF Others, On
    <3>3. Resolves(h) = Synchronized(h) /\ Serves(n, h)
      BY <1>1, <1>3, <2>5, <3>2 DEF HostSound, Serves
    <3>4. RecordsOf(h)' = RecordsOf(h) /\ Resolves(h)' = Resolves(h) /\ Synchronized(h)' = Synchronized(h)
      BY <2>1, SameSets
    <3>5. Serves(n, h)'
      BY <2>1, <3>3 DEF SameHost
    <3>6. AtWork(r, h)' /\ Found(r, h)' /\ On(r, h)'
      BY <2>5, <3>3, <3>4, <3>5 DEF AtWork, Found, At, On, Reconciling, DnsSteps, Serves, Managed, Live
    <3>7. \A m \in Nodes : Serves(m, h)' <=> Serves(m, h)
      BY <2>1 DEF SameHost
    <3>8. \A d, e \in RecordsOf(h)' : d = e
      BY <1>3, <3>4 DEF HostSound, OnePerHost
    <3> QED BY <1>3, <2>2, <2>3, <3>2, <3>6, <3>7, <3>8, LoneJob
  <2> QED BY <2>4, <2>5
<1> QED BY <1>1, <1>2, <1>3 DEF RecordsSound

LEMMA BeatRecords ==
  ASSUME Formed, RecordsSound, NEW r \in Requests, NEW n \in Nodes, Beat(r, n)
  PROVE  RecordsSound'
<1> DEFINE j == [Idle EXCEPT !.does = "beat", !.at = "list", !.node = n,
                   !.host = row[n].host, !.managed = TRUE, !.ip = address[n]]
<1>1. j.at = "list" /\ j.host = row[n].host /\ j.node = n /\ j.ip = address[n]
  BY DEF Idle
<1>2. job' = [job EXCEPT ![r] = j] /\ job[r].at = "idle" /\ Managed(n) /\ address[n] # Nothing
  BY DEF Beat, Begin, At, Stale
<1> HIDE DEF j
<1>3. \A q \in Requests : job'[q] = IF q = r THEN j ELSE job[q]
  BY <1>2 DEF Formed, JobsOK
<1>4. row' = row /\ dns' = dns /\ Trouble(Overlapped(r)) /\ row[n].host \in Hosts
  BY <1>2 DEF Beat, rowVars, Formed, RowsOK, RowsFormed, Managed, Live
<1> QED BY <1>1, <1>2, <1>3, <1>4, SameRowsAlike, BeginRecords DEF DnsSteps

LEMMA ActivateRecords ==
  ASSUME Formed, RecordsSound, NEW r \in Requests, NEW n \in Nodes, Activate(r, n)
  PROVE  RecordsSound'
<1> DEFINE j == [Idle EXCEPT !.does = "activate", !.at = "burn", !.node = n,
                   !.host = row[n].host, !.managed = row[n].managed, !.ip = address[n]]
<1>1. /\ j.at = "burn" /\ j.host = row[n].host /\ j.node = n /\ j.managed = row[n].managed
  BY DEF Idle
<1>2. job' = [job EXCEPT ![r] = j] /\ job[r].at = "idle" /\ Live(n) /\ UNCHANGED <<row, dns, troubled>>
  BY DEF Activate, Begin, At, rowVars, dnsVars
<1> HIDE DEF j
<1>3. \A q \in Requests : job'[q] = IF q = r THEN j ELSE job[q]
  BY <1>2 DEF Formed, JobsOK
<1>4. OnTarget'
  <2> SUFFICES ASSUME NEW q \in Requests, Aiming(q)', Managed(job[q].node)'
               PROVE  row'[job'[q].node].host \in {job'[q].host} \cup troubled'
    BY DEF OnTarget
  <2>1. CASE q = r
    BY <1>1, <1>2, <1>3, <2>1
  <2>2. CASE q # r
    BY <1>2, <1>3, <2>2 DEF RecordsSound, OnTarget, Aiming, Managed, Live
  <2> QED BY <2>1, <2>2
<1>5. ASSUME NEW h \in Hosts \ troubled, HostSound(h)  PROVE HostSound(h)'
  <2>1. SameHost(h)
    BY <1>2, SameRowsAlike, AlikeSame
  <2>2. \A q \in Requests : (On(q, h)' <=> On(q, h)) /\ (On(q, h) => job'[q] = job[q])
    BY <1>1, <1>2, <1>3 DEF On, Reconciling, DnsSteps
  <2>3. ASSUME NEW q \in Requests  PROVE Burning(q, h)'
    <3>1. CASE q = r
      BY <1>1, <1>2, <1>3, <3>1 DEF Burning, At, Serves, Managed, Live
    <3>2. CASE q # r
      BY <1>2, <1>3, <1>5, <3>2 DEF HostSound, Burning, At, Serves, Managed, Live
    <3> QED BY <3>1, <3>2
  <2> QED BY <1>5, <2>1, <2>2, <2>3, HostFrame
<1> QED BY <1>2, <1>4, <1>5 DEF RecordsSound

LEMMA BurnRecords ==
  ASSUME Formed, RecordsSound, NEW r \in Requests, Burn(r)
  PROVE  RecordsSound'
<1>0. /\ job[r] \in Job /\ job[r].at = "burn" /\ job[r].does = "activate"
      /\ job[r].node \in Nodes /\ job[r].host \in Hosts /\ dns' = dns
  BY DEF Burn, At, Formed, JobsOK, Carries, DnsSteps, SyncSteps
<1>1. CASE ~Burnable(job[r].node)
  BY <1>0, <1>1, SameRowsAlike, QuietEnds DEF Burn, DnsSteps
<1>2. CASE Burnable(job[r].node)
  <2>1. PICK n \in Nodes : n = job[r].node
    BY <1>0
  <2>2. /\ row' = [row EXCEPT ![n].key = r, ![n].token = "burned"] /\ Goes(r, AfterBurn(r))
        /\ Trouble(IF AfterBurn(r) = "list" THEN Overlapped(r) ELSE {})
    BY <1>2, <2>1 DEF Burn
  <2>3. RowsAlike
    BY <2>2 DEF RowsAlike, Formed, RowsOK, Row
  <2>4. CASE AfterBurn(r) = "list"
    <3>1. job[r].managed /\ job[r].ip # Nothing
      BY <2>4 DEF AfterBurn
    <3>2. Live(n)
      BY <1>2, <2>1 DEF Burnable, Live, Formed, RowsOK, RowsFormed
    <3>3. /\ job'[r].at = "list" /\ job'[r].host = job[r].host /\ job'[r].node = n
          /\ job'[r].ip = job[r].ip
          /\ \A q \in Requests \ {r} : job'[q] = job[q]
      BY <1>0, <2>1, <2>2, <2>4 DEF Goes, Formed, JobsOK, Job
    <3>4. job[r].host \in troubled \/ Serves(n, job[r].host)
      BY <1>0, <2>1, <3>1, <3>2 DEF RecordsSound, HostSound, Burning, At
    <3>5. Managed(n)' <=> Managed(n)
      BY <2>3 DEF RowsAlike, Managed, Live
    <3>6. CASE Managed(n)
      <4>1. row[n].host \in {job[r].host} \cup troubled
        BY <1>0, <2>1, <3>6 DEF RecordsSound, OnTarget, Aiming
      <4> QED BY <1>0, <2>2, <2>3, <2>4, <3>1, <3>3, <3>4, <3>6, <4>1, BeginRecords DEF Serves, DnsSteps
    <3>7. CASE ~Managed(n)
      <4>1. job[r].host \in troubled
        BY <3>4, <3>7 DEF Serves
      <4>2. troubled \subseteq troubled'
        BY <2>2 DEF Trouble
      <4>3. OnTarget'
        <5> SUFFICES ASSUME NEW q \in Requests, Aiming(q)', Managed(job[q].node)'
                     PROVE  row'[job'[q].node].host \in {job'[q].host} \cup troubled'
          BY DEF OnTarget
        <5>1. q # r
          BY <3>3, <3>5, <3>7 DEF Managed, Live
        <5>2. Aiming(q) /\ job'[q] = job[q] /\ job[q].node \in Nodes
          BY <3>3, <5>1 DEF Aiming, Formed, JobsOK, Carries, DnsSteps, SyncSteps
        <5>3. Managed(job[q].node) /\ row'[job[q].node].host = row[job[q].node].host
          BY <2>3, <5>2 DEF RowsAlike, Managed, Live
        <5> QED BY <4>2, <5>2, <5>3 DEF RecordsSound, OnTarget
      <4>4. ASSUME NEW h \in Hosts \ troubled', HostSound(h)  PROVE HostSound(h)'
        <5>1. h # job[r].host
          BY <4>1, <4>2
        <5>2. ~On(r, h) /\ ~On(r, h)' /\ job'[r].at # "burn"
          BY <3>3, <5>1 DEF On
        <5>3. \A m \in Nodes : row'[m].is = "live" => Live(m)
          BY <2>3 DEF RowsAlike, Live
        <5> QED BY <1>0, <2>3, <3>3, <4>4, <5>2, <5>3, AlikeSame, QuietJob
      <4> QED BY <4>2, <4>3, <4>4 DEF RecordsSound
    <3> QED BY <3>6, <3>7
  <2>5. CASE AfterBurn(r) # "list"
    <3>1. AfterBurn(r) = "answer" /\ troubled' = troubled
      BY <2>2, <2>5 DEF AfterBurn, Trouble
    <3> QED BY <1>0, <2>2, <2>3, <3>1, QuietGoes DEF DnsSteps
  <2> QED BY <2>4, <2>5
<1> QED BY <1>1, <1>2

LEMMA AnswerRecords ==
  ASSUME Formed, RecordsSound, NEW r \in Requests, CheckUnique(r) \/ Answer(r) \/ AnswerLost(r)
  PROVE  RecordsSound'
<1>1. CASE CheckUnique(r)
  <2>1. job[r].at = "unique" /\ RowsAlike /\ UNCHANGED <<dns, troubled>>
    BY <1>1, SameRowsAlike DEF CheckUnique, At, rowVars, dnsVars
  <2> QED BY <1>1, <2>1, QuietGoes, QuietEnds DEF CheckUnique, DnsSteps
<1>2. CASE Answer(r) \/ AnswerLost(r)
  <2>1. job[r].at = "answer" /\ Ends(r) /\ UNCHANGED <<dns, troubled>>
    BY <1>2 DEF Answer, AnswerLost, At, dnsVars
  <2>2. row' = row \/ row' = [row EXCEPT ![job[r].node].token = "given"]
    BY <1>2 DEF Answer, AnswerLost, rowVars
  <2>3. RowsAlike
    BY <2>2 DEF RowsAlike, Formed, RowsOK, Row
  <2> QED BY <2>1, <2>3, QuietEnds DEF DnsSteps
<1> QED BY <1>1, <1>2

LEMMA CreateRecords ==
  ASSUME Formed, RecordsSound, NEW r \in Requests, NEW o \in Orgs, NEW g \in Hosts, NEW m \in BOOLEAN,
         CreateNode(r, o, g, m)
  PROVE  RecordsSound'
<1> DEFINE j == [Idle EXCEPT !.does = "create", !.org = o, !.host = g, !.managed = m,
                   !.at = IF configured THEN "count" ELSE "unique"]
<1>1. j.at \in {"count", "unique"}
  BY DEF Idle
<1>2. /\ job' = [job EXCEPT ![r] = j] /\ job[r].at = "idle"
      /\ RowsAlike /\ UNCHANGED <<dns, troubled>>
  BY SameRowsAlike DEF CreateNode, Begin, At, rowVars, dnsVars
<1> HIDE DEF j
<1> QED BY <1>1, <1>2, QuietStep DEF DnsSteps

LEMMA RestartRecords ==
  ASSUME Formed, RecordsSound, PanelRestarts
  PROVE  RecordsSound'
<1>1. /\ \A q \in Requests : job'[q] = Idle
      /\ row' = row /\ dns' = dns
      /\ troubled' = troubled \cup {job[r].host : r \in {q \in Requests : Reconciling(q)}}
  BY DEF PanelRestarts, rowVars, Trouble
<1>2. Idle.at = "idle" /\ Idle.does = "none"
  BY DEF Idle
<1>3. OnTarget'
  BY <1>1, <1>2 DEF OnTarget, Aiming
<1>4. ASSUME NEW h \in Hosts \ troubled', HostSound(h)  PROVE HostSound(h)'
  <2>1. \A q \in Requests : ~On(q, h)
    BY <1>1 DEF On
  <2>2. SameHost(h)
    BY <1>1, SameRowsAlike, AlikeSame
  <2>3. \A q \in Requests : ~On(q, h)' /\ Burning(q, h)'
    BY <1>1, <1>2 DEF On, Reconciling, DnsSteps, Burning, At
  <2> QED BY <1>4, <2>1, <2>2, <2>3, HostFrame
<1> QED BY <1>1, <1>3, <1>4 DEF RecordsSound

LEMMA RecordsStep == Formed /\ KeysSound /\ RecordsSound /\ [Next]_vars => RecordsSound'
<1> SUFFICES ASSUME Formed, KeysSound, RecordsSound, [Next]_vars PROVE RecordsSound'
  OBVIOUS
<1>1. CASE UNCHANGED vars
  BY <1>1, StillRecords DEF vars, dnsVars
<1>2. ASSUME NEW n \in Nodes, NEW ip \in Ips \cup {Nothing}, Moves(n, ip)  PROVE RecordsSound'
  BY <1>2, StillRecords DEF Moves, dnsVars
<1> QED
  BY <1>1, <1>2, DnsRecords, BillingRecords, PlanRecords, InsertRecords, UpdateRecords, RemoveRecords,
     BeatRecords, ActivateRecords, BurnRecords, AnswerRecords, CreateRecords, RestartRecords
  DEF Next, Works, Asks

(***************************************************************************)
(* The record (dns.ts:11-15): whatever enrollments, heartbeats, removals,   *)
(* failures of Cloudflare and restarts of the panel, a hostname on which    *)
(* none of what Trouble names has happened resolves to what its node's row  *)
(* says was synced, and to nothing without such a node.                     *)
(***************************************************************************)
THEOREM RecordAgreesCorrect == Spec => []RecordAgrees
<1>1. Init => RecordsSound
  <2> SUFFICES ASSUME Init PROVE RecordsSound
    OBVIOUS
  <2>1. /\ \A q \in Requests : job[q].at = "idle" /\ job[q].does = "none"
        /\ \A n \in Nodes : row[n].is = "unborn"
        /\ \A d \in Records : dns[d].host = Nothing
    BY DEF Init, RowsInit, DnsInit, Idle, Unborn, NoRecord
  <2>2. OnTarget
    BY <2>1 DEF OnTarget, Aiming
  <2>3. ASSUME NEW h \in Hosts  PROVE HostSound(h)
    <3>1. \A q \in Requests : ~On(q, h) /\ Burning(q, h)
      BY <2>1 DEF On, Reconciling, DnsSteps, Burning, At
    <3>2. \A n \in Nodes : ~Serves(n, h)
      BY <2>1 DEF Serves, Managed, Live
    <3>3. RecordsOf(h) = {} /\ Resolves(h) = {} /\ Synchronized(h) = {}
      BY <2>1, <3>2 DEF RecordsOf, Resolves, Synchronized, Serves
    <3> QED BY <3>1, <3>2, <3>3 DEF HostSound, OnePerHost
  <2> QED BY <2>2, <2>3 DEF RecordsSound
<1>2. RecordsSound => RecordAgrees
  BY DEF RecordsSound, HostSound, RecordAgrees, On
<1>3. Init => KeysSound
  BY DEF Init, RowsInit, KeysSound, Brings, Idle, Unborn, Live
<1> QED BY <1>1, <1>2, <1>3, WellFormed, KeysStep, RecordsStep, PTL DEF Spec

(***************************************************************************)
(* The plan of an organization.  A request past the look at a subscription   *)
(* knows of one; what Polar has is reported or cached; as long as nothing   *)
(* was out of order, the last event under way, or else the cache, says what *)
(* Polar says, and so does the request that is about to write it down.      *)
(***************************************************************************)
NeedsPlan(j) ==
  \/ j.at \in {"seats", "push"}
  \/ j.at \in {"polar", "reflect"} /\ j.does # "checkout"

LastEvent(o) == events[o][Len(events[o])]

CacheSound ==
  /\ \A r \in Requests : NeedsPlan(job[r]) => entitlement[job[r].org].subscription
  /\ \A o \in Orgs :
       /\ entitlement[o].subscription => entitlement[o].exists
       /\ polar[o] # NoSubscription => events[o] # <<>> \/ entitlement[o].subscription
  /\ \A o \in Orgs \ shaken :
       /\ events[o] # <<>> => /\ LastEvent(o).status = polar[o].status
                             /\ LastEvent(o).cancel = polar[o].cancel
       /\ events[o] = <<>> /\ entitlement[o].subscription =>
            /\ entitlement[o].status = ToBillingStatus(polar[o].status)
            /\ entitlement[o].cancel = polar[o].cancel
       /\ \A r, q \in Reflecting(o) : polar[o].cancel = Says(r) /\ r = q

\* What a step that neither writes the cache nor hears from Polar must show.
LEMMA CachePlain ==
  ASSUME CacheSound, UNCHANGED <<entitlement, polar, events>>, shaken \subseteq shaken',
         \A q \in Requests :
           job'[q] = job[q] \/ (/\ NeedsPlan(job'[q]) => entitlement[job'[q].org].subscription
                                /\ job'[q].at # "reflect")
  PROVE  CacheSound'
<1>1. \A q \in Requests : NeedsPlan(job[q])' => entitlement[job'[q].org].subscription
  BY DEF CacheSound
<1>2. \A o : Reflecting(o)' \subseteq Reflecting(o) /\ \A q \in Reflecting(o)' : Says(q)' = Says(q)
  BY DEF Reflecting, Working, At, Says
<1> QED BY <1>1, <1>2 DEF CacheSound, LastEvent

LEMMA CacheJob ==
  ASSUME CacheSound, JobsOK, UNCHANGED <<entitlement, polar, events, shaken>>, NEW r \in Requests, NEW j,
         job' = [job EXCEPT ![r] = j], j.at # "reflect",
         NeedsPlan(j) => entitlement[j.org].subscription
  PROVE  CacheSound'
<1>1. \A q \in Requests : job'[q] = IF q = r THEN j ELSE job[q]
  BY DEF JobsOK
<1> QED BY <1>1, CachePlain

LEMMA CacheGoes ==
  ASSUME CacheSound, JobsOK, UNCHANGED <<entitlement, polar, events, shaken>>, NEW r \in Requests,
         NEW step, Goes(r, step), step \notin {"seats", "push", "polar", "reflect"}
  PROVE  CacheSound'
<1> DEFINE j == [job[r] EXCEPT !.at = step]
<1>1. j.at = step /\ job' = [job EXCEPT ![r] = j]
  BY DEF JobsOK, Job, Goes
<1> HIDE DEF j
<1> QED BY <1>1, CacheJob DEF NeedsPlan

LEMMA CacheEnds ==
  ASSUME CacheSound, JobsOK, UNCHANGED <<entitlement, polar, events, shaken>>, NEW r \in Requests, Ends(r)
  PROVE  CacheSound'
<1>1. Idle.at = "idle"
  BY DEF Idle
<1> QED BY <1>1, CacheJob DEF Ends, NeedsPlan

LEMMA PlanHasOrg ==
  ASSUME JobsOK, NEW r \in Requests, NeedsPlan(job[r])
  PROVE  job[r].org \in Orgs
BY DEF JobsOK, Carries, NeedsPlan, SyncSteps

\* One organization's plan is written, and no request comes to need it.
LEMMA CacheWritten ==
  ASSUME CacheSound, JobsOK, NEW o \in Orgs, shaken \subseteq shaken',
         \A x \in Orgs \ {o} : /\ entitlement'[x] = entitlement[x] /\ polar'[x] = polar[x]
                               /\ events'[x] = events[x],
         \A q \in Requests :
           job'[q] = job[q] \/ (~NeedsPlan(job'[q]) /\ job'[q].at # "reflect"),
         entitlement[o].subscription => entitlement'[o].subscription,
         entitlement'[o].subscription => entitlement'[o].exists,
         polar'[o] # NoSubscription => events'[o] # <<>> \/ entitlement'[o].subscription,
         o \notin shaken' /\ events'[o] # <<>> => /\ LastEvent(o)'.status = polar'[o].status
                                                /\ LastEvent(o)'.cancel = polar'[o].cancel,
         o \notin shaken' /\ events'[o] = <<>> /\ entitlement'[o].subscription =>
           /\ entitlement'[o].status = ToBillingStatus(polar'[o].status)
           /\ entitlement'[o].cancel = polar'[o].cancel,
         o \notin shaken' /\ Reflecting(o) # {} => polar'[o].cancel = polar[o].cancel
  PROVE  CacheSound'
<1>1. \A q \in Requests : NeedsPlan(job[q])' => entitlement'[job'[q].org].subscription
  <2> SUFFICES ASSUME NEW q \in Requests, NeedsPlan(job[q])'
               PROVE  entitlement'[job'[q].org].subscription
    OBVIOUS
  <2>1. job'[q] = job[q] /\ NeedsPlan(job[q]) /\ entitlement[job[q].org].subscription
    BY DEF CacheSound
  <2>2. job[q].org \in Orgs
    BY <2>1, PlanHasOrg
  <2> QED BY <2>1, <2>2
<1>2. \A x : Reflecting(x)' \subseteq Reflecting(x) /\ \A q \in Reflecting(x)' : Says(q)' = Says(q)
  BY DEF Reflecting, Working, At, Says
<1>3. ASSUME NEW x \in Orgs
      PROVE  /\ entitlement'[x].subscription => entitlement'[x].exists
             /\ polar'[x] # NoSubscription => events'[x] # <<>> \/ entitlement'[x].subscription
  <2>1. CASE x = o
    BY <2>1
  <2>2. CASE x # o
    BY <2>2 DEF CacheSound
  <2> QED BY <2>1, <2>2
<1>4. ASSUME NEW x \in Orgs \ shaken'
      PROVE  /\ events'[x] # <<>> => /\ LastEvent(x)'.status = polar'[x].status
                                    /\ LastEvent(x)'.cancel = polar'[x].cancel
             /\ events'[x] = <<>> /\ entitlement'[x].subscription =>
                  /\ entitlement'[x].status = ToBillingStatus(polar'[x].status)
                  /\ entitlement'[x].cancel = polar'[x].cancel
             /\ \A r, q \in Reflecting(x)' : polar'[x].cancel = Says(r)' /\ r = q
  <2>1. \A r, q \in Reflecting(x)' : polar[x].cancel = Says(r) /\ Says(r)' = Says(r) /\ r = q /\ r \in Reflecting(x)
    BY <1>2 DEF CacheSound
  <2>2. CASE x = o
    BY <2>1, <2>2
  <2>3. CASE x # o
    BY <2>1, <2>3 DEF CacheSound, LastEvent
  <2> QED BY <2>2, <2>3
<1> QED BY <1>1, <1>3, <1>4 DEF CacheSound

\* Polar has changed, and its event is the last.
LEMMA ReportsLast ==
  ASSUME PlansOK, NEW o \in Orgs, NEW s \in Subscription, Reports(o, s)
  PROVE  /\ polar'[o] = s /\ events'[o] # <<>> /\ LastEvent(o)' = s
         /\ \A x \in Orgs \ {o} : polar'[x] = polar[x] /\ events'[x] = events[x]
<1>1. polar \in [Orgs -> Subscription] /\ events \in [Orgs -> Seq(Subscription)]
  BY DEF PlansOK
<1>2. events[o] \in Seq(Subscription) /\ events'[o] = Append(events[o], s) /\ polar'[o] = s
  BY <1>1 DEF Reports
<1>3. /\ Len(events'[o]) = Len(events[o]) + 1 /\ events'[o][Len(events[o]) + 1] = s
      /\ events'[o] \in Seq(Subscription)
  BY <1>2, AppendProperties
<1>4. events'[o] # <<>>
  BY <1>2, <1>3
<1> QED BY <1>1, <1>2, <1>3, <1>4 DEF Reports, LastEvent

LEMMA ToldCache ==
  ASSUME Formed, CacheSound, NEW r \in Requests, TellPolar(r)
  PROVE  CacheSound'
<1>10. PICK o : o = job[r].org
  OBVIOUS
<1> DEFINE s == [polar[o] EXCEPT !.cancel = Says(r)]
<1>0. JobsOK /\ PlansOK /\ job \in [Requests -> Job] /\ job[r] \in Job /\ Carries(job[r], job[r].at)
  BY DEF Formed, JobsOK
<1>1. /\ At(r, "polar") /\ job[r].does # "checkout" /\ Reports(o, s)
      /\ shaken' = IF Reflecting(o) = {} THEN shaken ELSE shaken \cup {o}
      /\ Goes(r, "reflect") /\ UNCHANGED entitlement
  BY <1>10 DEF TellPolar
<1>2. o \in Orgs /\ entitlement[o].subscription
  BY <1>0, <1>1, <1>10, PlanHasOrg DEF At, NeedsPlan, CacheSound
<1>3. s \in Subscription /\ s.cancel = Says(r)
  <2>1. polar[o] \in Subscription /\ Says(r) \in BOOLEAN
    BY <1>0, <1>2 DEF PlansOK, Says
  <2> QED BY <2>1 DEF Subscription
<1> HIDE DEF s
<1>4. /\ polar'[o] = s /\ events'[o] # <<>> /\ LastEvent(o)' = s
      /\ \A x \in Orgs \ {o} : polar'[x] = polar[x] /\ events'[x] = events[x]
  BY <1>0, <1>1, <1>2, <1>3, ReportsLast
<1>5. /\ \A q \in Requests \ {r} : job'[q] = job[q]
      /\ job'[r].at = "reflect" /\ job'[r].org = o /\ job'[r].does = job[r].does
  BY <1>0, <1>1, <1>10 DEF Goes, Job
<1>6. ASSUME NEW q \in Requests, NeedsPlan(job[q])'  PROVE entitlement'[job'[q].org].subscription
  BY <1>1, <1>2, <1>5, <1>6 DEF CacheSound
<1>7. /\ \A x \in Orgs \ {o} : /\ Reflecting(x)' = Reflecting(x)
                               /\ \A q \in Reflecting(x) : Says(q)' = Says(q)
      /\ Reflecting(o)' = Reflecting(o) \cup {r} /\ Says(r)' = Says(r)
  BY <1>0, <1>1, <1>5, <1>10 DEF Reflecting, Working, At, Says
<1>8. ASSUME NEW x \in Orgs
      PROVE  /\ entitlement'[x].subscription => entitlement'[x].exists
             /\ polar'[x] # NoSubscription => events'[x] # <<>> \/ entitlement'[x].subscription
  BY <1>1, <1>2, <1>4 DEF CacheSound
<1>9. ASSUME NEW x \in Orgs \ shaken'
      PROVE  /\ events'[x] # <<>> => /\ LastEvent(x)'.status = polar'[x].status
                                    /\ LastEvent(x)'.cancel = polar'[x].cancel
             /\ events'[x] = <<>> /\ entitlement'[x].subscription =>
                  /\ entitlement'[x].status = ToBillingStatus(polar'[x].status)
                  /\ entitlement'[x].cancel = polar'[x].cancel
             /\ \A y, q \in Reflecting(x)' : polar'[x].cancel = Says(y)' /\ y = q
  <2>1. x \notin shaken
    BY <1>1
  <2>2. CASE x = o
    <3>1. Reflecting(o)' = {r}
      BY <1>1, <1>7, <2>2
    <3> QED BY <1>3, <1>4, <1>7, <2>2, <3>1
  <2>3. CASE x # o
    BY <1>1, <1>4, <1>7, <2>1, <2>3 DEF CacheSound, LastEvent
  <2> QED BY <2>2, <2>3
<1> QED BY <1>6, <1>8, <1>9 DEF CacheSound

LEMMA BillingCache ==
  ASSUME Formed, CacheSound, NEW r \in Requests, BillingStep(r)
  PROVE  CacheSound'
<1>0. /\ JobsOK /\ PlansOK /\ job \in [Requests -> Job] /\ job[r] \in Job
      /\ Carries(job[r], job[r].at)
  BY DEF Formed, JobsOK
<1>1. CASE CountNodes(r) \/ CheckEntitlement(r) \/ ReadTrial(r) \/ PushFails(r) \/ PolarFails(r)
  BY <1>0, <1>1, CacheGoes, CacheEnds
  DEF CountNodes, CheckEntitlement, ReadTrial, PushFails, PolarFails, Synced, billingVars
<1>2. CASE OpenCheckout(r)
  BY <1>0, <1>2, CacheEnds DEF OpenCheckout
<1>3. CASE ReadSubscription(r)
  <2>1. CASE entitlement[job[r].org].subscription
    <3> DEFINE trial == entitlement[job[r].org].trialEndsAt # "none"
               j == [job[r] EXCEPT !.at = "seats", !.trial = trial]
    <3>1. job' = [job EXCEPT ![r] = j]
      BY <1>0, <1>3, <2>1 DEF ReadSubscription
    <3> HIDE DEF trial
    <3>2. j.at = "seats" /\ j.org = job[r].org
      BY <1>0 DEF Job
    <3> HIDE DEF j
    <3> QED BY <1>0, <1>3, <2>1, <3>1, <3>2, CacheJob DEF ReadSubscription, billingVars
  <2>2. CASE ~entitlement[job[r].org].subscription
    BY <1>0, <1>3, <2>2, CacheGoes, CacheEnds DEF ReadSubscription, Synced, billingVars
  <2> QED BY <2>1, <2>2
<1>4. CASE CountSeats(r)
  <2>1. CASE SeatsOf(r) > 0
    <3> DEFINE seats == SeatsOf(r)
               j == [job[r] EXCEPT !.at = "push", !.seats = seats]
    <3>1. job' = [job EXCEPT ![r] = j]
      BY <1>0, <1>4, <2>1 DEF CountSeats
    <3> HIDE DEF seats
    <3>2. j.at = "push" /\ j.org = job[r].org
      BY <1>0 DEF Job
    <3>3. entitlement[job[r].org].subscription
      BY <1>4 DEF CountSeats, At, CacheSound, NeedsPlan
    <3> HIDE DEF j
    <3> QED BY <1>0, <1>4, <3>1, <3>2, <3>3, CacheJob DEF CountSeats, billingVars
  <2>2. CASE ~(SeatsOf(r) > 0)
    BY <1>0, <1>4, <2>2, CacheGoes, CacheEnds DEF CountSeats, Synced, billingVars
  <2> QED BY <2>1, <2>2
<1>10. PICK o : o = job[r].org
  OBVIOUS
<1>5. ASSUME NEW step, Goes(r, step) \/ Ends(r), step \notin {"seats", "push", "polar", "reflect"}
      PROVE  \A q \in Requests : job'[q] = job[q] \/ (~NeedsPlan(job'[q]) /\ job'[q].at # "reflect")
  <2>1. \A q \in Requests \ {r} : job'[q] = job[q]
    BY <1>0, <1>5 DEF Goes, Ends
  <2>2. job'[r].at \in {step, "idle"}
    BY <1>0, <1>5 DEF Goes, Ends, Idle, Job
  <2> QED BY <1>5, <2>1, <2>2 DEF NeedsPlan
<1>6. CASE GrantTrial(r)
  <2>1. o \in Orgs
    BY <1>0, <1>6, <1>10 DEF GrantTrial, At, Carries, SyncSteps
  <2>2. /\ entitlement' = [entitlement EXCEPT ![o] =
                             [@ EXCEPT !.exists = TRUE, !.status = "trialing", !.trialEndsAt = "ahead"]]
        /\ shaken' = IF entitlement[o].exists THEN shaken \cup {o} ELSE shaken
        /\ UNCHANGED <<polar, events>> /\ Goes(r, "subscription")
    BY <1>6, <1>10 DEF GrantTrial
  <2>3. /\ entitlement[o] \in Entitlement /\ entitlement \in [Orgs -> Entitlement]
    BY <1>0, <2>1 DEF PlansOK
  <2>4. entitlement'[o].exists /\ entitlement'[o].subscription = entitlement[o].subscription
    BY <2>1, <2>2, <2>3 DEF Entitlement
  <2>5. \A q \in Requests : job'[q] = job[q] \/ (~NeedsPlan(job'[q]) /\ job'[q].at # "reflect")
    BY <1>5, <2>2
  <2>6. o \notin shaken' => ~entitlement'[o].subscription /\ o \notin shaken
    BY <2>1, <2>2, <2>4 DEF CacheSound
  <2>7. o \notin shaken' /\ events'[o] # <<>> => /\ LastEvent(o)'.status = polar'[o].status
                                                /\ LastEvent(o)'.cancel = polar'[o].cancel
    BY <2>1, <2>2, <2>6 DEF CacheSound, LastEvent
  <2>8. polar'[o] # NoSubscription => events'[o] # <<>> \/ entitlement'[o].subscription
    BY <2>1, <2>2, <2>4 DEF CacheSound
  <2>9. /\ shaken \subseteq shaken'
        /\ \A x \in Orgs \ {o} : /\ entitlement'[x] = entitlement[x] /\ polar'[x] = polar[x]
                               /\ events'[x] = events[x]
    BY <2>2, <2>3
  <2> QED BY <1>0, <2>1, <2>2, <2>4, <2>5, <2>6, <2>7, <2>8, <2>9, CacheWritten
<1>7. CASE PushSeats(r)
  <2>1. o \in Orgs /\ entitlement[o].subscription
    BY <1>0, <1>7, <1>10 DEF PushSeats, At, Carries, SyncSteps, CacheSound, NeedsPlan
  <2>2. /\ polar' = [polar EXCEPT ![o].seats = Larger(1, job[r].seats)]
        /\ UNCHANGED <<entitlement, events, shaken>> /\ Synced(r)
    BY <1>7, <1>10 DEF PushSeats
  <2>3. polar[o] \in Subscription /\ polar \in [Orgs -> Subscription]
    BY <1>0, <2>1 DEF PlansOK
  <2>4. polar'[o].status = polar[o].status /\ polar'[o].cancel = polar[o].cancel
    BY <2>1, <2>2, <2>3 DEF Subscription
  <2>5. \A q \in Requests : job'[q] = job[q] \/ (~NeedsPlan(job'[q]) /\ job'[q].at # "reflect")
    BY <1>5, <2>2 DEF Synced
  <2>6. \A x \in Orgs \ {o} : /\ entitlement'[x] = entitlement[x] /\ polar'[x] = polar[x]
                               /\ events'[x] = events[x]
    BY <2>2, <2>3
  <2>7. o \notin shaken' /\ events'[o] # <<>> => /\ LastEvent(o)'.status = polar'[o].status
                                                /\ LastEvent(o)'.cancel = polar'[o].cancel
    BY <2>1, <2>2, <2>4 DEF CacheSound, LastEvent
  <2>8. o \notin shaken' /\ events'[o] = <<>> /\ entitlement'[o].subscription =>
           /\ entitlement'[o].status = ToBillingStatus(polar'[o].status)
           /\ entitlement'[o].cancel = polar'[o].cancel
    BY <2>1, <2>2, <2>4 DEF CacheSound
  <2>9. entitlement'[o].subscription => entitlement'[o].exists
    BY <2>1, <2>2 DEF CacheSound
  <2> QED BY <1>0, <2>1, <2>2, <2>4, <2>5, <2>6, <2>7, <2>8, <2>9, CacheWritten
<1>8. CASE Reflect(r)
  <2>1. o \in Orgs /\ r \in Reflecting(o)
    BY <1>0, <1>8, <1>10 DEF Reflect, At, Carries, Reflecting, Working
  <2>2. /\ entitlement' = [entitlement EXCEPT ![o].cancel = Says(r)]
        /\ UNCHANGED <<polar, events, shaken>> /\ Ends(r)
    BY <1>8, <1>10 DEF Reflect
  <2>3. entitlement[o] \in Entitlement /\ entitlement \in [Orgs -> Entitlement]
    BY <1>0, <2>1 DEF PlansOK
  <2>4. /\ entitlement'[o].cancel = Says(r) /\ entitlement'[o].status = entitlement[o].status
        /\ entitlement'[o].exists = entitlement[o].exists
        /\ entitlement'[o].subscription = entitlement[o].subscription
    BY <2>1, <2>2, <2>3 DEF Entitlement
  <2>5. \A q \in Requests : job'[q] = job[q] \/ (~NeedsPlan(job'[q]) /\ job'[q].at # "reflect")
    BY <1>5, <2>2
  <2>6. \A x \in Orgs \ {o} : /\ entitlement'[x] = entitlement[x] /\ polar'[x] = polar[x]
                               /\ events'[x] = events[x]
    BY <2>2, <2>3
  <2>7. o \notin shaken' /\ events'[o] # <<>> => /\ LastEvent(o)'.status = polar'[o].status
                                                /\ LastEvent(o)'.cancel = polar'[o].cancel
    BY <2>1, <2>2 DEF CacheSound, LastEvent
  <2>8. o \notin shaken' /\ events'[o] = <<>> /\ entitlement'[o].subscription =>
           /\ entitlement'[o].status = ToBillingStatus(polar'[o].status)
           /\ entitlement'[o].cancel = polar'[o].cancel
    BY <2>1, <2>2, <2>4 DEF CacheSound
  <2>9. /\ entitlement'[o].subscription => entitlement'[o].exists
        /\ polar'[o] # NoSubscription => events'[o] # <<>> \/ entitlement'[o].subscription
    BY <2>1, <2>2, <2>4 DEF CacheSound
  <2> QED BY <1>0, <2>1, <2>2, <2>4, <2>5, <2>6, <2>7, <2>8, <2>9, CacheWritten
<1>9. CASE TellPolar(r)
  BY <1>9, ToldCache
<1> QED BY <1>1, <1>2, <1>3, <1>4, <1>6, <1>7, <1>8, <1>9 DEF BillingStep

\* Polar's own changes, the clock, the webhook, and the billing page.
LEMMA PolarCache ==
  ASSUME Formed, CacheSound, NEW o \in Orgs, Pays(o) \/ PolarChanges(o) \/ WindowCloses(o)
  PROVE  CacheSound'
<1>0. /\ JobsOK /\ PlansOK /\ entitlement[o] \in Entitlement /\ polar[o] \in Subscription
      /\ entitlement \in [Orgs -> Entitlement] /\ polar \in [Orgs -> Subscription]
  BY DEF Formed, PlansOK
<1>1. CASE WindowCloses(o)
  <2>1. entitlement' = [entitlement EXCEPT ![o].trialEndsAt = "past"] /\ UNCHANGED <<job, polar, events, shaken>>
    BY <1>1 DEF WindowCloses
  <2>2. /\ entitlement'[o].cancel = entitlement[o].cancel /\ entitlement'[o].status = entitlement[o].status
        /\ entitlement'[o].exists = entitlement[o].exists
        /\ entitlement'[o].subscription = entitlement[o].subscription
        /\ \A x \in Orgs \ {o} : entitlement'[x] = entitlement[x]
    BY <1>0, <2>1 DEF Entitlement
  <2>3. /\ entitlement'[o].subscription => entitlement'[o].exists
        /\ polar'[o] # NoSubscription => events'[o] # <<>> \/ entitlement'[o].subscription
    BY <2>1, <2>2 DEF CacheSound
  <2>4. o \notin shaken' =>
          /\ events'[o] # <<>> => /\ LastEvent(o)'.status = polar'[o].status
                                 /\ LastEvent(o)'.cancel = polar'[o].cancel
          /\ events'[o] = <<>> /\ entitlement'[o].subscription =>
               /\ entitlement'[o].status = ToBillingStatus(polar'[o].status)
               /\ entitlement'[o].cancel = polar'[o].cancel
    BY <2>1, <2>2 DEF CacheSound, LastEvent
  <2> QED BY <1>0, <2>1, <2>2, <2>3, <2>4, CacheWritten
<1>2. ASSUME NEW s \in Subscription, Reports(o, s), UNCHANGED <<job, entitlement>>, shaken \subseteq shaken',
             o \notin shaken' /\ Reflecting(o) # {} => s.cancel = polar[o].cancel
      PROVE  CacheSound'
  <2>1. /\ polar'[o] = s /\ events'[o] # <<>> /\ LastEvent(o)' = s
        /\ \A x \in Orgs \ {o} : polar'[x] = polar[x] /\ events'[x] = events[x]
    BY <1>0, <1>2, ReportsLast
  <2>2. entitlement'[o].subscription => entitlement'[o].exists
    BY <1>2 DEF CacheSound
  <2> QED BY <1>0, <1>2, <2>1, <2>2, CacheWritten
<1>3. CASE Pays(o)
  <2>1. polar[o].cancel = FALSE
    BY <1>3 DEF Pays, NoSubscription
  <2>2. [status |-> "active", seats |-> cart[o], cancel |-> FALSE] \in Subscription
    BY <1>0 DEF PlansOK, Subscription
  <2> DEFINE s == [status |-> "active", seats |-> cart[o], cancel |-> FALSE]
  <2>3. Reports(o, s) /\ UNCHANGED <<job, entitlement, shaken>>
    BY <1>3 DEF Pays
  <2>4. s \in Subscription /\ s.cancel = polar[o].cancel
    BY <2>1, <2>2
  <2> HIDE DEF s
  <2> QED BY <1>2, <2>3, <2>4
<1>4. CASE PolarChanges(o)
  <2>1. PICK status \in PolarStatus, cancel \in BOOLEAN :
          Reports(o, [polar[o] EXCEPT !.status = status, !.cancel = cancel])
    BY <1>4, Zenon DEF PolarChanges
  <2>2. [polar[o] EXCEPT !.status = status, !.cancel = cancel] \in Subscription
    BY <1>0 DEF Subscription
  <2>3. /\ UNCHANGED <<job, entitlement>>
        /\ shaken' = IF Reflecting(o) = {} THEN shaken ELSE shaken \cup {o}
    BY <1>4, Zenon DEF PolarChanges
  <2>4. PICK s \in Subscription : Reports(o, s)
    BY <2>1, <2>2
  <2>5. shaken \subseteq shaken' /\ (o \notin shaken' => Reflecting(o) = {})
    BY <2>3
  <2> QED BY <1>2, <2>3, <2>4, <2>5
<1> QED BY <1>1, <1>3, <1>4

\* The first event is taken from the queue.
LEMMA FirstTaken ==
  ASSUME NEW S, NEW q \in Seq(S), q # <<>>, NEW b, b = SubSeq(q, 1, 1 - 1) \o SubSeq(q, 1 + 1, Len(q))
  PROVE  /\ b = <<>> => Len(q) = 1
         /\ b # <<>> => b[Len(b)] = q[Len(q)]
<1>1. Len(q) \in Nat /\ Len(q) >= 1 /\ q \in [1..Len(q) -> S]
  BY EmptySeq, LenProperties
<1> DEFINE x == SubSeq(q, 1, 1 - 1)
           y == SubSeq(q, 1 + 1, Len(q))
<1>2. x \in Seq(S) /\ Len(x) = 0
  BY <1>1, SubSeqProperties
<1>3. y \in Seq(S) /\ Len(y) = Len(q) - 1 /\ \A k \in 1..(Len(q) - 1) : y[k] = q[k + 1]
  <2>1. /\ 1 + 1 \in Int /\ Len(q) \in Int
        /\ \A k \in (1 + 1)..Len(q) : k \in 1..Len(q) /\ q[k] \in S
    BY <1>1
  <2>2. /\ y \in Seq(S)
        /\ Len(y) = IF 1 + 1 <= Len(q) THEN Len(q) - (1 + 1) + 1 ELSE 0
        /\ \A k \in 1..(Len(q) - (1 + 1) + 1) : y[k] = q[(1 + 1) + k - 1]
    BY <2>1, SubSeqProperties
  <2> HIDE DEF y
  <2>3. Len(y) = IF 1 + 1 <= Len(q) THEN Len(q) - (1 + 1) + 1 ELSE 0
    BY <2>2
  <2>4. Len(y) = Len(q) - 1
    <3>1. CASE Len(q) = 1
      <4>1. ~(1 + 1 <= Len(q)) /\ 0 = Len(q) - 1
        BY <3>1
      <4> QED BY <2>3, <4>1, Zenon
    <3>2. CASE Len(q) # 1
      <4>1. 1 + 1 <= Len(q) /\ Len(q) - (1 + 1) + 1 = Len(q) - 1
        BY <1>1, <3>2
      <4> QED BY <2>3, <4>1, Zenon
    <3> QED BY <3>1, <3>2
  <2>5. ASSUME NEW k \in 1..(Len(q) - 1)  PROVE y[k] = q[k + 1]
    <3>1. (1 + 1) + k - 1 = k + 1 /\ k \in 1..(Len(q) - (1 + 1) + 1)
      BY <1>1
    <3> QED BY <2>2, <3>1
  <2> QED BY <2>2, <2>4, <2>5
<1> HIDE DEF x, y
<1>4. b = x \o y
  BY DEF x, y
<1>5. b = y
  BY <1>2, <1>3, <1>4, EmptySeq, ConcatEmptySeq
<1>6. ASSUME b # <<>>  PROVE b[Len(b)] = q[Len(q)]
  <2>1. Len(q) - 1 \in 1..(Len(q) - 1)
    BY <1>1, <1>3, <1>5, <1>6, EmptySeq
  <2> QED BY <1>1, <1>3, <1>5, <2>1
<1>7. b = <<>> => Len(q) = 1
  BY <1>1, <1>3, <1>5, EmptySeq
<1> QED BY <1>6, <1>7

LEMMA WebhookCache ==
  ASSUME Formed, CacheSound, NEW o \in Orgs, Webhook(o)
  PROVE  CacheSound'
<1>0. /\ JobsOK /\ PlansOK /\ entitlement[o] \in Entitlement
      /\ entitlement \in [Orgs -> Entitlement] /\ events \in [Orgs -> Seq(Subscription)]
      /\ events[o] \in Seq(Subscription)
  BY DEF Formed, PlansOK
<1>1. PICK i \in DOMAIN events[o], again \in BOOLEAN :
        /\ entitlement' = [entitlement EXCEPT ![o] = Reconcile(o, events[o][i])]
        /\ events' = IF again THEN events
                     ELSE [events EXCEPT ![o] = SubSeq(@, 1, i - 1) \o SubSeq(@, i + 1, Len(@))]
        /\ shaken' = IF i = 1 THEN shaken ELSE shaken \cup {o}
        /\ UNCHANGED <<job, rowVars, configured, polar, cart, alone, exact>>
  BY DEF Webhook
<1> DEFINE q == events[o]
           s == q[i]
<1>2. /\ entitlement'[o].exists /\ entitlement'[o].subscription
      /\ entitlement'[o].status = ToBillingStatus(s.status) /\ entitlement'[o].cancel = s.cancel
      /\ \A x \in Orgs \ {o} : entitlement'[x] = entitlement[x] /\ events'[x] = events[x]
  BY <1>0, <1>1 DEF Reconcile, Entitlement
<1>3. ASSUME o \notin shaken', events'[o] # <<>>
      PROVE  LastEvent(o)'.status = polar'[o].status /\ LastEvent(o)'.cancel = polar'[o].cancel
  <2>1. i = 1 /\ o \notin shaken /\ Len(q) \in Nat /\ Len(q) >= 1 /\ q # <<>>
    BY <1>0, <1>1, <1>3
  <2>2. LastEvent(o) = q[Len(q)] /\ q[Len(q)].status = polar[o].status /\ q[Len(q)].cancel = polar[o].cancel
    BY <2>1 DEF CacheSound, LastEvent
  <2>3. LastEvent(o)' = q[Len(q)]
    <3>1. CASE again
      BY <1>1, <3>1 DEF LastEvent
    <3>2. CASE ~again
      <4>1. events'[o] = SubSeq(q, 1, 1 - 1) \o SubSeq(q, 1 + 1, Len(q))
        BY <1>0, <1>1, <2>1, <3>2
      <4>2. events'[o][Len(events'[o])] = q[Len(q)]
        <5> DEFINE b == events'[o]
        <5>1. b # <<>> /\ b = SubSeq(q, 1, 1 - 1) \o SubSeq(q, 1 + 1, Len(q)) /\ q \in Seq(Subscription)
          BY <1>0, <1>3, <4>1
        <5> HIDE DEF b, q
        <5>2. b[Len(b)] = q[Len(q)]
          BY <2>1, <5>1, FirstTaken
        <5> QED BY <5>2 DEF b
      <4> QED BY <4>2 DEF LastEvent
    <3> QED BY <3>1, <3>2
  <2> QED BY <1>1, <2>2, <2>3
<1>4. ASSUME o \notin shaken', events'[o] = <<>>
      PROVE  s.status = polar'[o].status /\ s.cancel = polar'[o].cancel
  <2>1. i = 1 /\ o \notin shaken /\ Len(q) \in Nat /\ Len(q) >= 1 /\ q # <<>>
    BY <1>0, <1>1, <1>4
  <2>2. LastEvent(o) = q[Len(q)] /\ q[Len(q)].status = polar[o].status /\ q[Len(q)].cancel = polar[o].cancel
    BY <2>1 DEF CacheSound, LastEvent
  <2>3. Len(q) = 1
    <3> DEFINE b == events'[o]
    <3>1. ~again
      BY <1>0, <1>1, <1>4, <2>1
    <3>2. b = SubSeq(q, 1, 1 - 1) \o SubSeq(q, 1 + 1, Len(q))
      BY <1>0, <1>1, <2>1, <3>1
    <3>3. b = <<>> /\ q \in Seq(Subscription)
      BY <1>0, <1>4
    <3> HIDE DEF b, q
    <3> QED BY <2>1, <3>2, <3>3, FirstTaken
  <2> QED BY <1>1, <2>1, <2>2, <2>3
<1> HIDE DEF s, q
<1>5. \A p \in Requests : job'[p] = job[p]
  BY <1>1
<1>6. shaken \subseteq shaken' /\ polar' = polar
  BY <1>1
<1> QED BY <1>0, <1>2, <1>3, <1>4, <1>5, <1>6, CacheWritten

LEMMA PlanCache ==
  ASSUME Formed, CacheSound, NEW o \in Orgs, PlanNext(o)
  PROVE  CacheSound'
<1>0. JobsOK
  BY DEF Formed
<1>1. ASSUME NEW r \in Requests, StartCheckout(r, o)  PROVE CacheSound'
  <2> DEFINE j == [Idle EXCEPT !.does = "checkout", !.org = o, !.at = "polar",
                     !.seats = RequiredSeats(o, TRUE)]
  <2>1. j.at = "polar" /\ j.does = "checkout"
    BY DEF Idle
  <2>2. job' = [job EXCEPT ![r] = j]
    BY <1>1 DEF StartCheckout, Begin
  <2> HIDE DEF j
  <2> QED BY <1>0, <1>1, <2>1, <2>2, CacheJob DEF StartCheckout, NeedsPlan
<1>2. ASSUME NEW r \in Requests, NEW what \in {"cancel", "resume"}, ChangePlan(r, o, what)
      PROVE  CacheSound'
  <2> DEFINE j == [Idle EXCEPT !.does = what, !.org = o, !.at = "polar"]
  <2>1. j.at = "polar" /\ j.org = o
    BY DEF Idle
  <2>2. job' = [job EXCEPT ![r] = j] /\ entitlement[o].subscription
    BY <1>2 DEF ChangePlan, Begin
  <2> HIDE DEF j
  <2> QED BY <1>0, <1>2, <2>1, <2>2, CacheJob DEF ChangePlan
<1> QED BY <1>1, <1>2, PolarCache, WebhookCache DEF PlanNext

\* The steps of the rows and the records move one request at most, and not to
\* a step of the plan beyond the first.
Early(j) == j.at \notin {"grant", "seats", "push", "polar", "reflect"}

RowStep(r) ==
  \/ DnsStep(r) /\ UNCHANGED billingVars
  \/ CheckUnique(r) \/ Burn(r) \/ Answer(r) \/ AnswerLost(r)
  \/ \E n \in Nodes : Insert(r, n) \/ RemoveNode(r, n) \/ Activate(r, n) \/ Beat(r, n)
  \/ \E o \in Orgs, h \in Hosts, m \in BOOLEAN : CreateNode(r, o, h, m)

LEMMA NodeSteps ==
  ASSUME Formed, NEW r \in Requests, RowStep(r)
  PROVE  /\ \A q \in Requests \ {r} : job'[q] = job[q]
         /\ Early(job'[r])
<1>0. job \in [Requests -> Job] /\ job[r] \in Job
  BY DEF Formed, JobsOK
<1>1. CASE DnsStep(r)
  BY <1>1, DnsMoves DEF Early
<1>2. CASE CheckUnique(r) \/ Burn(r) \/ Answer(r) \/ AnswerLost(r)
  <2>1. \A q \in Requests \ {r} : job'[q] = job[q]
    BY <1>0, <1>2 DEF CheckUnique, Burn, Answer, AnswerLost, Ends, Goes
  <2>2. job'[r].at \in {"idle", "insert", "list", "answer"}
    BY <1>0, <1>2 DEF CheckUnique, Burn, Answer, AnswerLost, Ends, Goes, AfterBurn, Idle, Job
  <2> QED BY <2>1, <2>2 DEF Early
<1>3. ASSUME NEW j, job' = [job EXCEPT ![r] = j], Early(j)
      PROVE  (\A q \in Requests \ {r} : job'[q] = job[q]) /\ Early(job'[r])
  BY <1>0, <1>3
<1>4. ASSUME NEW n \in Nodes, Insert(r, n)
      PROVE  (\A q \in Requests \ {r} : job'[q] = job[q]) /\ Early(job'[r])
  <2> DEFINE j == [job[r] EXCEPT !.at = "trial", !.node = n]
  <2>1. job' = [job EXCEPT ![r] = j]
    BY <1>0, <1>4 DEF Insert
  <2>2. Early(j)
    BY <1>0 DEF Job, Early
  <2> HIDE DEF j
  <2> QED BY <1>3, <2>1, <2>2
<1>5. ASSUME NEW n \in Nodes, RemoveNode(r, n)
      PROVE  (\A q \in Requests \ {r} : job'[q] = job[q]) /\ Early(job'[r])
  <2> DEFINE j == [Idle EXCEPT !.does = "remove", !.org = row[n].org, !.node = n,
                     !.host = row[n].host, !.managed = row[n].managed,
                     !.at = IF row[n].managed THEN "list" ELSE "trial"]
  <2>1. job' = [job EXCEPT ![r] = j]
    BY <1>5 DEF RemoveNode, Begin
  <2>2. Early(j)
    BY DEF Idle, Early
  <2> HIDE DEF j
  <2> QED BY <1>3, <2>1, <2>2
<1>6. ASSUME NEW n \in Nodes, Activate(r, n)
      PROVE  (\A q \in Requests \ {r} : job'[q] = job[q]) /\ Early(job'[r])
  <2> DEFINE j == [Idle EXCEPT !.does = "activate", !.at = "burn", !.node = n,
                     !.host = row[n].host, !.managed = row[n].managed, !.ip = address[n]]
  <2>1. job' = [job EXCEPT ![r] = j]
    BY <1>6 DEF Activate, Begin
  <2>2. Early(j)
    BY DEF Idle, Early
  <2> HIDE DEF j
  <2> QED BY <1>3, <2>1, <2>2
<1>7. ASSUME NEW n \in Nodes, Beat(r, n)
      PROVE  (\A q \in Requests \ {r} : job'[q] = job[q]) /\ Early(job'[r])
  <2> DEFINE j == [Idle EXCEPT !.does = "beat", !.at = "list", !.node = n,
                     !.host = row[n].host, !.managed = TRUE, !.ip = address[n]]
  <2>1. job' = [job EXCEPT ![r] = j]
    BY <1>7 DEF Beat, Begin
  <2>2. Early(j)
    BY DEF Idle, Early
  <2> HIDE DEF j
  <2> QED BY <1>3, <2>1, <2>2
<1>8. ASSUME NEW o \in Orgs, NEW h \in Hosts, NEW m \in BOOLEAN, CreateNode(r, o, h, m)
      PROVE  (\A q \in Requests \ {r} : job'[q] = job[q]) /\ Early(job'[r])
  <2> DEFINE j == [Idle EXCEPT !.does = "create", !.org = o, !.host = h, !.managed = m,
                     !.at = IF configured THEN "count" ELSE "unique"]
  <2>1. job' = [job EXCEPT ![r] = j]
    BY <1>8 DEF CreateNode, Begin
  <2>2. Early(j)
    BY DEF Idle, Early
  <2> HIDE DEF j
  <2> QED BY <1>3, <2>1, <2>2
<1> QED BY <1>1, <1>2, <1>4, <1>5, <1>6, <1>7, <1>8 DEF RowStep

LEMMA CacheStep == Formed /\ CacheSound /\ [Next]_vars => CacheSound'
<1> SUFFICES ASSUME Formed, CacheSound, [Next]_vars PROVE CacheSound'
  OBVIOUS
<1>1. CASE UNCHANGED job /\ UNCHANGED <<entitlement, polar, events, shaken>>
  BY <1>1, CachePlain
<1>2. ASSUME NEW r \in Requests, UNCHANGED <<entitlement, polar, events, shaken>>,
             \A q \in Requests \ {r} : job'[q] = job[q], Early(job'[r])
      PROVE  CacheSound'
  BY <1>2, CachePlain DEF Early, NeedsPlan
<1>3. ASSUME NEW r \in Requests, Works(r) \/ Asks(r), ~BillingStep(r)  PROVE CacheSound'
  <2>1. RowStep(r)
    BY <1>3 DEF Works, Asks, RowStep
  <2>2. UNCHANGED <<entitlement, polar, events, shaken>>
    <3>1. CASE Works(r)
      BY <1>3, <3>1 DEF Works, billingVars, CheckUnique, Burn, Answer, AnswerLost, Insert
    <3>2. ASSUME NEW n \in Nodes, RemoveNode(r, n) \/ Activate(r, n) \/ Beat(r, n)
          PROVE  UNCHANGED <<entitlement, polar, events, shaken>>
      BY <3>2 DEF billingVars, RemoveNode, Activate, Beat
    <3>3. ASSUME NEW o \in Orgs, NEW h \in Hosts, NEW m \in BOOLEAN, CreateNode(r, o, h, m)
          PROVE  UNCHANGED <<entitlement, polar, events, shaken>>
      BY <3>3 DEF CreateNode
    <3> QED BY <1>3, <3>1, <3>2, <3>3 DEF Asks
  <2> QED BY <1>2, <2>1, <2>2, NodeSteps
<1>4. CASE PanelRestarts
  <2>1. \A q \in Requests : job'[q] = Idle
    BY <1>4 DEF PanelRestarts
  <2>2. Idle.at = "idle"
    BY DEF Idle
  <2> QED BY <1>4, <2>1, <2>2, CachePlain DEF PanelRestarts, NeedsPlan
<1> QED
  BY <1>1, <1>3, <1>4, BillingCache, PlanCache
  DEF Next, vars, billingVars, UpdateNode, Moves

LEMMA InitCache == Init => CacheSound
<1> SUFFICES ASSUME Init PROVE CacheSound
  OBVIOUS
<1>1. /\ \A q \in Requests : job[q] = Idle
      /\ \A o \in Orgs : events[o] = <<>> /\ polar[o] = NoSubscription /\ entitlement[o] = NoEntitlement
  BY DEF Init, RowsInit, BillingInit
<1>2. Idle.at = "idle" /\ NoEntitlement.subscription = FALSE
  BY DEF Idle, NoEntitlement
<1> QED BY <1>1, <1>2 DEF CacheSound, NeedsPlan, Reflecting, Working, At

(***************************************************************************)
(* The cache (reconcile.ts:6-10): for any number of organizations, requests *)
(* and events, with duplicates, failures and restarts of the panel, the     *)
(* cached plan is Polar's once the events are in, if they came in order.    *)
(***************************************************************************)
THEOREM CacheConvergesCorrect == Spec => []CacheConverges
<1>1. CacheSound => CacheConverges
  BY DEF CacheSound, CacheConverges
<1> QED BY <1>1, InitCache, WellFormed, CacheStep, PTL DEF Spec

(***************************************************************************)
(* The seats of an organization.  A request that is alone has read what     *)
(* there is; where a push was exact, Polar has the seats, and nobody is     *)
(* about to grant a window.                                                 *)
(***************************************************************************)
AloneAt(o) ==
  \A r \in Requests : r \in alone /\ job[r].org = o =>
    /\ \A q \in Requests : job[q].org = o => q = r
    /\ At(r, "seats") => job[r].trial = (entitlement[o].trialEndsAt # "none")
    /\ At(r, "push") => job[r].seats = RequiredSeats(o, TRUE)

ExactAt(o) ==
  o \in exact =>
    /\ polar[o].seats = Larger(1, RequiredSeats(o, TRUE))
    /\ entitlement[o].exists
    /\ \A q \in Requests : job[q].org = o => ~At(q, "grant")

SeatsSound == \A o \in Orgs : AloneAt(o) /\ ExactAt(o)

LEMMA NodesOfSame ==
  ASSUME \A n \in Nodes : row'[n].is = row[n].is /\ row'[n].org = row[n].org
  PROVE  \A o : NodesOf(o)' = NodesOf(o)
BY DEF NodesOf, Live

LEMMA SeatsSame ==
  ASSUME NEW o, NodesOf(o)' = NodesOf(o), entitlement'[o].trialEndsAt = entitlement[o].trialEndsAt
  PROVE  RequiredSeats(o, TRUE)' = RequiredSeats(o, TRUE)
BY DEF RequiredSeats

\* What an organization must see of a step.
LEMMA AloneFrame ==
  ASSUME NEW o \in Orgs, AloneAt(o), NodesOf(o)' = NodesOf(o),
         entitlement'[o].trialEndsAt = entitlement[o].trialEndsAt,
         \A q \in Requests : job'[q].org = o =>
           job'[q] = job[q] \/ (job[q].org = o /\ job'[q].at \notin {"seats", "push"}),
         \A q \in Requests : q \in alone' /\ job'[q].org = o => q \in alone
  PROVE  AloneAt(o)'
<1>1. RequiredSeats(o, TRUE)' = RequiredSeats(o, TRUE)
  BY SeatsSame
<1> QED BY <1>1 DEF AloneAt, At

LEMMA ExactFrame ==
  ASSUME NEW o \in Orgs, ExactAt(o), NodesOf(o)' = NodesOf(o), polar'[o].seats = polar[o].seats,
         entitlement'[o].trialEndsAt = entitlement[o].trialEndsAt,
         entitlement[o].exists => entitlement'[o].exists,
         \A q \in Requests : job'[q].org = o => job'[q] = job[q] \/ job'[q].at # "grant",
         o \in exact' => o \in exact
  PROVE  ExactAt(o)'
<1>1. RequiredSeats(o, TRUE)' = RequiredSeats(o, TRUE)
  BY SeatsSame
<1> QED BY <1>1 DEF ExactAt, At

\* A step that moves neither the nodes nor the seats nor the windows.
LEMMA SeatsKept ==
  ASSUME SeatsSound,
         \A o : NodesOf(o)' = NodesOf(o),
         \A o \in Orgs : /\ polar'[o].seats = polar[o].seats
                         /\ entitlement'[o].trialEndsAt = entitlement[o].trialEndsAt
                         /\ entitlement[o].exists => entitlement'[o].exists,
         \A q \in Requests :
           \/ job'[q] = job[q] \/ job'[q].org = Nothing
           \/ job'[q].org = job[q].org /\ job'[q].at \notin {"seats", "push", "grant"},
         alone' \subseteq alone, exact' \subseteq exact
  PROVE  SeatsSound'
<1> SUFFICES ASSUME NEW o \in Orgs PROVE AloneAt(o)' /\ ExactAt(o)'
  BY DEF SeatsSound
<1>1. AloneAt(o) /\ ExactAt(o) /\ o # Nothing
  BY DEF SeatsSound
<1>2. AloneAt(o)'
  BY <1>1, AloneFrame
<1>3. ExactAt(o)'
  BY <1>1, ExactFrame
<1> QED BY <1>2, <1>3

\* Where a request of another organization is at work.
LEMMA SeatsElsewhere ==
  ASSUME SeatsSound, NEW o \in Orgs, NodesOf(o)' = NodesOf(o),
         polar'[o] = polar[o], entitlement'[o] = entitlement[o],
         \A q \in Requests : job'[q].org = o => job'[q] = job[q],
         \A q \in Requests : q \in alone' /\ job'[q].org = o => q \in alone,
         o \in exact' => o \in exact
  PROVE  AloneAt(o)' /\ ExactAt(o)'
<1>1. AloneAt(o) /\ ExactAt(o)
  BY DEF SeatsSound
<1>2. AloneAt(o)'
  BY <1>1, AloneFrame
<1>3. ExactAt(o)'
  BY <1>1, ExactFrame
<1> QED BY <1>2, <1>3

\* How a request moves on.
LEMMA Onward ==
  ASSUME JobsOK, NEW r \in Requests, NEW step, Goes(r, step) \/ Ends(r)
  PROVE  /\ \A q \in Requests \ {r} : job'[q] = job[q]
         /\ \/ job'[r].org = Nothing /\ job'[r].at = "idle"
            \/ job'[r].org = job[r].org /\ job'[r].at = step
BY DEF JobsOK, Job, Goes, Ends, Idle

\* A request begins: it meets the others of its organization.
LEMMA SeatsBegin ==
  ASSUME SeatsSound, JobsOK, NEW r \in Requests, NEW o \in Orgs, NEW j,
         Begin(r, j), j.org = o, j.at \notin {"seats", "push", "grant"}, Meets(r, o),
         UNCHANGED <<entitlement, polar>>, exact' \subseteq exact,
         \A x : x # o \/ x \in exact' => NodesOf(x)' = NodesOf(x)
  PROVE  SeatsSound'
<1> SUFFICES ASSUME NEW x \in Orgs PROVE AloneAt(x)' /\ ExactAt(x)'
  BY DEF SeatsSound
<1>1. job'[r] = j /\ \A q \in Requests \ {r} : job'[q] = job[q]
  BY DEF JobsOK, Begin
<1>2. \A q \in Requests : q \in alone' => q = r \/ (q \in alone /\ q \notin Working(o))
  BY DEF Meets
<1>3. r \in alone' => Working(o) = {}
  BY DEF Meets
<1>4. AloneAt(x) /\ ExactAt(x)
  BY DEF SeatsSound
<1>5. CASE x # o
  BY <1>1, <1>2, <1>5, SeatsElsewhere
<1>6. CASE x = o
  <2>1. AloneAt(o)'
    <3> SUFFICES ASSUME NEW q \in Requests, q \in alone', job'[q].org = o
                 PROVE  /\ \A p \in Requests : job'[p].org = o => p = q
                        /\ job'[q].at \notin {"seats", "push"}
      BY DEF AloneAt, At
    <3>1. q = r
      BY <1>1, <1>2 DEF Working
    <3>2. Working(o) = {}
      BY <1>3, <3>1
    <3> QED BY <1>1, <3>1, <3>2 DEF Working
  <2>2. ExactAt(o)'
    <3>1. CASE o \in exact'
      BY <1>1, <1>4, <1>6, <3>1, ExactFrame
    <3>2. CASE o \notin exact'
      BY <3>2 DEF ExactAt
    <3> QED BY <3>1, <3>2
  <2> QED BY <1>6, <2>1, <2>2
<1> QED BY <1>5, <1>6

\* Something moves the count, the window or the subscription of one.
LEMMA SeatsDisturbed ==
  ASSUME SeatsSound, NEW o \in Orgs, Disturbs(o), UNCHANGED <<job, row>>,
         \A x \in Orgs \ {o} : polar'[x] = polar[x] /\ entitlement'[x] = entitlement[x]
  PROVE  SeatsSound'
<1> SUFFICES ASSUME NEW x \in Orgs PROVE AloneAt(x)' /\ ExactAt(x)'
  BY DEF SeatsSound
<1>1. NodesOf(x)' = NodesOf(x)
  BY NodesOfSame
<1>2. CASE x # o
  BY <1>1, <1>2, SeatsElsewhere DEF Disturbs
<1>3. CASE x = o
  BY <1>3 DEF Disturbs, AloneAt, ExactAt, Working
<1> QED BY <1>2, <1>3

LEMMA SeatsBilling ==
  ASSUME Formed, CacheSound, SeatsSound, NEW r \in Requests, BillingStep(r)
  PROVE  SeatsSound'
<1>0. /\ JobsOK /\ PlansOK /\ job \in [Requests -> Job] /\ job[r] \in Job
      /\ Carries(job[r], job[r].at)
  BY DEF Formed, JobsOK
<1>10. PICK o : o = job[r].org
  OBVIOUS
<1>11. UNCHANGED row
  BY DEF BillingStep, CountNodes, CheckEntitlement, ReadTrial, GrantTrial, ReadSubscription, CountSeats,
         PushSeats, PushFails, OpenCheckout, TellPolar, PolarFails, Reflect, rowVars
<1>12. \A x : NodesOf(x)' = NodesOf(x)
  BY <1>11, NodesOfSame
<1>13. ASSUME NEW step, Goes(r, step) \/ Ends(r), step \notin {"seats", "push", "grant"},
              \A x \in Orgs : /\ polar'[x].seats = polar[x].seats
                              /\ entitlement'[x].trialEndsAt = entitlement[x].trialEndsAt
                              /\ entitlement[x].exists => entitlement'[x].exists,
              UNCHANGED <<alone, exact>>
       PROVE  SeatsSound'
  <2>1. /\ \A q \in Requests \ {r} : job'[q] = job[q]
        /\ job'[r].org = Nothing \/ (job'[r].org = job[r].org /\ job'[r].at = step)
    BY <1>0, <1>13, Onward
  <2> QED BY <1>12, <1>13, <2>1, SeatsKept
<1>1. CASE CountNodes(r) \/ CheckEntitlement(r) \/ PushFails(r) \/ PolarFails(r) \/ OpenCheckout(r)
  BY <1>1, <1>13 DEF CountNodes, CheckEntitlement, PushFails, PolarFails, OpenCheckout, billingVars
<1>2. CASE ReadTrial(r)
  <2>1. CASE ~configured \/ entitlement[job[r].org].exists
    BY <1>2, <1>13, <2>1 DEF ReadTrial, Synced, billingVars
  <2>2. CASE configured /\ ~entitlement[job[r].org].exists
    <3>1. Goes(r, "grant") /\ UNCHANGED <<entitlement, polar, alone, exact>>
      BY <1>2, <2>2 DEF ReadTrial, billingVars
    <3>2. o \in Orgs /\ ~entitlement[o].exists
      BY <1>0, <1>2, <1>10, <2>2 DEF ReadTrial, At, Carries, SyncSteps
    <3>3. o \notin exact
      BY <3>2 DEF SeatsSound, ExactAt
    <3>4. /\ \A q \in Requests \ {r} : job'[q] = job[q]
          /\ job'[r].org = Nothing \/ (job'[r].org = o /\ job'[r].at = "grant")
      BY <1>0, <1>10, <3>1, Onward
    <3> SUFFICES ASSUME NEW x \in Orgs PROVE AloneAt(x)' /\ ExactAt(x)'
      BY DEF SeatsSound
    <3>5. CASE x # o
      BY <1>12, <3>1, <3>4, <3>5, SeatsElsewhere
    <3>6. CASE x = o
      <4>1. AloneAt(o)'
        BY <1>10, <1>12, <3>1, <3>2, <3>4, AloneFrame DEF SeatsSound
      <4>2. ExactAt(o)'
        BY <3>1, <3>3 DEF ExactAt
      <4> QED BY <3>6, <4>1, <4>2
    <3> QED BY <3>5, <3>6
  <2> QED BY <2>1, <2>2
<1>3. CASE GrantTrial(r)
  <2>1. /\ o \in Orgs /\ At(r, "grant") /\ Goes(r, "subscription")
        /\ entitlement' = [entitlement EXCEPT ![o] =
                             [@ EXCEPT !.exists = TRUE, !.status = "trialing", !.trialEndsAt = "ahead"]]
        /\ UNCHANGED <<polar, alone, exact>>
    BY <1>0, <1>3, <1>10 DEF GrantTrial, At, Carries, SyncSteps
  <2>2. o \notin exact
    BY <1>10, <2>1 DEF SeatsSound, ExactAt
  <2>3. /\ \A q \in Requests \ {r} : job'[q] = job[q]
        /\ job'[r].org = Nothing \/ (job'[r].org = o /\ job'[r].at = "subscription")
    BY <1>0, <1>10, <2>1, Onward
  <2>4. \A x \in Orgs \ {o} : entitlement'[x] = entitlement[x]
    BY <1>0, <2>1 DEF PlansOK
  <2> SUFFICES ASSUME NEW x \in Orgs PROVE AloneAt(x)' /\ ExactAt(x)'
    BY DEF SeatsSound
  <2>5. CASE x # o
    BY <1>12, <2>1, <2>3, <2>4, <2>5, SeatsElsewhere
  <2>6. CASE x = o
    <3>1. ExactAt(o)'
      BY <2>1, <2>2 DEF ExactAt
    <3>2. AloneAt(o)'
      <4> SUFFICES ASSUME NEW q \in Requests, q \in alone', job'[q].org = o
                   PROVE  /\ \A p \in Requests : job'[p].org = o => p = q
                          /\ job'[q].at \notin {"seats", "push"}
        BY DEF AloneAt, At
      <4>0. q \in alone /\ job[q].org = o
        BY <1>10, <2>1, <2>3
      <4>1. /\ job[q].org = o /\ \A p \in Requests : job[p].org = o => p = q
        BY <2>1, <4>0 DEF SeatsSound, AloneAt
      <4>2. q = r
        BY <1>10, <4>1
      <4> QED BY <1>10, <2>1, <2>3, <4>1, <4>2
    <3> QED BY <2>6, <3>1, <3>2
  <2> QED BY <2>5, <2>6
<1>4. CASE ReadSubscription(r)
  <2>0. o \in Orgs /\ At(r, "subscription") /\ UNCHANGED <<entitlement, polar, alone, exact>>
    BY <1>0, <1>4, <1>10 DEF ReadSubscription, At, Carries, SyncSteps, billingVars
  <2>1. CASE entitlement[o].subscription
    <3> DEFINE trial == entitlement[o].trialEndsAt # "none"
               j == [job[r] EXCEPT !.at = "seats", !.trial = trial]
    <3>1. job' = [job EXCEPT ![r] = j]
      BY <1>0, <1>4, <1>10, <2>1 DEF ReadSubscription
    <3> HIDE DEF trial
    <3>2. j.at = "seats" /\ j.org = o /\ j.trial = trial
      BY <1>0, <1>10 DEF Job
    <3> HIDE DEF j
    <3>3. job'[r] = j /\ \A q \in Requests \ {r} : job'[q] = job[q]
      BY <1>0, <3>1
    <3>9. trial = (entitlement'[o].trialEndsAt # "none")
      BY <2>0 DEF trial
    <3> SUFFICES ASSUME NEW x \in Orgs PROVE AloneAt(x)' /\ ExactAt(x)'
      BY DEF SeatsSound
    <3>4. CASE x # o
      BY <1>12, <2>0, <3>2, <3>3, <3>4, SeatsElsewhere
    <3>5. CASE x = o
      <4>1. ExactAt(o)'
        BY <1>12, <2>0, <3>2, <3>3, ExactFrame DEF SeatsSound
      <4>2. AloneAt(o)'
        <5> SUFFICES ASSUME NEW q \in Requests, q \in alone', job'[q].org = o
                     PROVE  /\ \A p \in Requests : job'[p].org = o => p = q
                            /\ job'[q].at = "seats" => job'[q].trial = (entitlement'[o].trialEndsAt # "none")
                            /\ job'[q].at # "push"
          BY DEF AloneAt, At
        <5>0. q \in alone /\ job[q].org = o
          BY <1>10, <2>0, <3>2, <3>3
        <5>1. /\ job[q].org = o /\ \A p \in Requests : job[p].org = o => p = q
          BY <2>0, <5>0 DEF SeatsSound, AloneAt
        <5>2. q = r
          BY <1>10, <5>1
        <5> QED BY <1>10, <3>2, <3>3, <3>9, <5>1, <5>2
      <4> QED BY <3>5, <4>1, <4>2
    <3> QED BY <3>4, <3>5
  <2>2. CASE ~entitlement[o].subscription
    BY <1>4, <1>10, <1>13, <2>0, <2>2 DEF ReadSubscription, Synced
  <2> QED BY <2>1, <2>2
<1>5. CASE CountSeats(r)
  <2>0. o \in Orgs /\ At(r, "seats") /\ UNCHANGED <<entitlement, polar, alone, exact>>
    BY <1>0, <1>5, <1>10 DEF CountSeats, At, Carries, SyncSteps, billingVars
  <2>1. CASE SeatsOf(r) > 0
    <3> DEFINE seats == SeatsOf(r)
               j == [job[r] EXCEPT !.at = "push", !.seats = seats]
    <3>1. job' = [job EXCEPT ![r] = j]
      BY <1>0, <1>5, <2>1 DEF CountSeats
    <3>8. job[r].trial = (entitlement[o].trialEndsAt # "none") => seats = RequiredSeats(o, TRUE)
      BY <1>10 DEF SeatsOf, RequiredSeats
    <3> HIDE DEF seats
    <3>2. j.at = "push" /\ j.org = o /\ j.seats = seats
      BY <1>0, <1>10 DEF Job
    <3> HIDE DEF j
    <3>3. job'[r] = j /\ \A q \in Requests \ {r} : job'[q] = job[q]
      BY <1>0, <3>1
    <3>9. RequiredSeats(o, TRUE)' = RequiredSeats(o, TRUE)
      BY <1>12, <2>0, SeatsSame
    <3> SUFFICES ASSUME NEW x \in Orgs PROVE AloneAt(x)' /\ ExactAt(x)'
      BY DEF SeatsSound
    <3>4. CASE x # o
      BY <1>12, <2>0, <3>2, <3>3, <3>4, SeatsElsewhere
    <3>5. CASE x = o
      <4>1. ExactAt(o)'
        BY <1>12, <2>0, <3>2, <3>3, ExactFrame DEF SeatsSound
      <4>2. AloneAt(o)'
        <5> SUFFICES ASSUME NEW q \in Requests, q \in alone', job'[q].org = o
                     PROVE  /\ \A p \in Requests : job'[p].org = o => p = q
                            /\ job'[q].at = "push" => job'[q].seats = RequiredSeats(o, TRUE)'
                            /\ job'[q].at # "seats"
          BY DEF AloneAt, At
        <5>0. q \in alone /\ job[q].org = o
          BY <1>10, <2>0, <3>2, <3>3
        <5>1. /\ job[q].org = o /\ \A p \in Requests : job[p].org = o => p = q
              /\ At(q, "seats") => job[q].trial = (entitlement[o].trialEndsAt # "none")
          BY <2>0, <5>0 DEF SeatsSound, AloneAt
        <5>2. q = r
          BY <1>10, <5>1
        <5> QED BY <1>10, <2>0, <3>2, <3>3, <3>8, <3>9, <5>1, <5>2
      <4> QED BY <3>5, <4>1, <4>2
    <3> QED BY <3>4, <3>5
  <2>2. CASE ~(SeatsOf(r) > 0)
    BY <1>5, <1>13, <2>0, <2>2 DEF CountSeats, Synced
  <2> QED BY <2>1, <2>2
<1>6. CASE PushSeats(r)
  <2>0. /\ o \in Orgs /\ At(r, "push") /\ UNCHANGED <<entitlement, alone>>
        /\ polar' = [polar EXCEPT ![o].seats = Larger(1, job[r].seats)]
        /\ exact' = IF r \in alone THEN exact \cup {o} ELSE exact \ {o}
    BY <1>0, <1>6, <1>10 DEF PushSeats, At, Carries, SyncSteps
  <2>1. /\ \A q \in Requests \ {r} : job'[q] = job[q]
        /\ job'[r].org = Nothing \/ (job'[r].org = o /\ job'[r].at = "answer")
    BY <1>0, <1>6, <1>10, Onward DEF PushSeats, Synced
  <2>2. /\ polar'[o].seats = Larger(1, job[r].seats)
        /\ \A x \in Orgs \ {o} : polar'[x] = polar[x]
    <3>1. polar \in [Orgs -> Subscription] /\ polar[o] \in Subscription
      BY <1>0, <2>0 DEF PlansOK
    <3> QED BY <2>0, <3>1 DEF Subscription
  <2> SUFFICES ASSUME NEW x \in Orgs PROVE AloneAt(x)' /\ ExactAt(x)'
    BY DEF SeatsSound
  <2>3. CASE x # o
    BY <1>12, <2>0, <2>1, <2>2, <2>3, SeatsElsewhere
  <2>4. CASE x = o
    <3>1. AloneAt(o)'
      BY <1>10, <1>12, <2>0, <2>1, AloneFrame DEF SeatsSound
    <3>2. ExactAt(o)'
      <4>1. CASE r \in alone
        <5>1. /\ \A q \in Requests : job[q].org = o => q = r
              /\ job[r].seats = RequiredSeats(o, TRUE)
          BY <1>10, <2>0, <4>1 DEF SeatsSound, AloneAt
        <5>2. RequiredSeats(o, TRUE)' = RequiredSeats(o, TRUE)
          BY <1>12, <2>0, SeatsSame
        <5>3. polar'[o].seats = Larger(1, RequiredSeats(o, TRUE)')
          BY <2>2, <5>1, <5>2
        <5>4. entitlement'[o].exists
          BY <1>10, <2>0 DEF CacheSound, NeedsPlan, At
        <5>5. \A q \in Requests : job'[q].org = o => job'[q].at # "grant"
          BY <1>10, <2>0, <2>1, <5>1
        <5>6. Larger(1, RequiredSeats(o, TRUE))' = Larger(1, RequiredSeats(o, TRUE)')
          BY DEF Larger
        <5> QED BY <5>3, <5>4, <5>5, <5>6 DEF ExactAt, At
      <4>2. CASE r \notin alone
        BY <2>0, <4>2 DEF ExactAt
      <4> QED BY <4>1, <4>2
    <3> QED BY <2>4, <3>1, <3>2
  <2> QED BY <2>3, <2>4
<1>7. CASE TellPolar(r)
  <2>1. /\ polar' = [polar EXCEPT ![o] = [polar[o] EXCEPT !.cancel = Says(r)]]
        /\ Goes(r, "reflect") /\ UNCHANGED <<entitlement, alone, exact>>
    BY <1>7, <1>10 DEF TellPolar, Reports
  <2>2. \A x \in Orgs : polar'[x].seats = polar[x].seats
    BY <1>0, <2>1 DEF PlansOK, Subscription
  <2> QED BY <1>13, <2>1, <2>2
<1>8. CASE Reflect(r)
  <2>1. /\ entitlement' = [entitlement EXCEPT ![o].cancel = Says(r)]
        /\ Ends(r) /\ UNCHANGED <<polar, alone, exact>>
    BY <1>8, <1>10 DEF Reflect
  <2>2. \A x \in Orgs : /\ entitlement'[x].trialEndsAt = entitlement[x].trialEndsAt
                        /\ entitlement'[x].exists = entitlement[x].exists
    BY <1>0, <2>1 DEF PlansOK, Entitlement
  <2> QED BY <1>13, <2>1, <2>2
<1> QED BY <1>1, <1>2, <1>3, <1>4, <1>5, <1>6, <1>7, <1>8 DEF BillingStep

LEMMA SeatsPlan ==
  ASSUME Formed, SeatsSound, NEW o \in Orgs, PlanNext(o)
  PROVE  SeatsSound'
<1>0. JobsOK /\ PlansOK
  BY DEF Formed
<1>1. ASSUME UNCHANGED <<job, row, alone, exact>>,
             \A x \in Orgs : /\ polar'[x].seats = polar[x].seats
                             /\ entitlement'[x].trialEndsAt = entitlement[x].trialEndsAt
                             /\ entitlement[x].exists => entitlement'[x].exists
      PROVE  SeatsSound'
  <2>1. \A x : NodesOf(x)' = NodesOf(x)
    BY <1>1, NodesOfSame
  <2> QED BY <1>1, <2>1, SeatsKept
<1>2. ASSUME NEW r \in Requests, StartCheckout(r, o)  PROVE SeatsSound'
  <2> DEFINE j == [Idle EXCEPT !.does = "checkout", !.org = o, !.at = "polar",
                     !.seats = RequiredSeats(o, TRUE)]
  <2>1. Begin(r, j) /\ Meets(r, o) /\ UNCHANGED <<row, entitlement, polar, exact>>
    BY <1>2 DEF StartCheckout, rowVars
  <2>2. j.at = "polar" /\ j.org = o
    BY DEF Idle
  <2> HIDE DEF j
  <2>3. \A x : NodesOf(x)' = NodesOf(x)
    BY <2>1, NodesOfSame
  <2> QED BY <1>0, <2>1, <2>2, <2>3, SeatsBegin
<1>3. ASSUME NEW r \in Requests, NEW what \in {"cancel", "resume"}, ChangePlan(r, o, what)
      PROVE  SeatsSound'
  <2> DEFINE j == [Idle EXCEPT !.does = what, !.org = o, !.at = "polar"]
  <2>1. Begin(r, j) /\ Meets(r, o) /\ UNCHANGED <<row, entitlement, polar, exact>>
    BY <1>3 DEF ChangePlan, rowVars
  <2>2. j.at = "polar" /\ j.org = o
    BY DEF Idle
  <2> HIDE DEF j
  <2>3. \A x : NodesOf(x)' = NodesOf(x)
    BY <2>1, NodesOfSame
  <2> QED BY <1>0, <2>1, <2>2, <2>3, SeatsBegin
<1>4. CASE Pays(o)
  <2>1. \A x \in Orgs \ {o} : polar'[x] = polar[x]
    BY <1>0, <1>4 DEF Pays, Reports, PlansOK
  <2> QED BY <1>4, <2>1, SeatsDisturbed DEF Pays, rowVars
<1>5. CASE WindowCloses(o)
  <2>1. \A x \in Orgs \ {o} : entitlement'[x] = entitlement[x]
    BY <1>0, <1>5 DEF WindowCloses, PlansOK
  <2> QED BY <1>5, <2>1, SeatsDisturbed DEF WindowCloses, rowVars
<1>6. CASE PolarChanges(o)
  <2>1. PICK status \in PolarStatus, cancel \in BOOLEAN :
          Reports(o, [polar[o] EXCEPT !.status = status, !.cancel = cancel])
    BY <1>6, Zenon DEF PolarChanges
  <2>2. UNCHANGED <<job, row, entitlement, alone, exact>>
    BY <1>6, Zenon DEF PolarChanges, rowVars
  <2>3. \A x \in Orgs : polar'[x].seats = polar[x].seats
    BY <1>0, <2>1 DEF Reports, PlansOK, Subscription
  <2> QED BY <1>1, <2>2, <2>3
<1>7. CASE Webhook(o)
  <2>1. PICK i \in DOMAIN events[o] : entitlement' = [entitlement EXCEPT ![o] = Reconcile(o, events[o][i])]
    BY <1>7 DEF Webhook
  <2>2. UNCHANGED <<job, row, polar, alone, exact>>
    BY <1>7 DEF Webhook, rowVars
  <2>3. \A x \in Orgs : /\ entitlement'[x].trialEndsAt = entitlement[x].trialEndsAt
                        /\ entitlement[x].exists => entitlement'[x].exists
    BY <1>0, <2>1 DEF Reconcile, PlansOK, Entitlement
  <2> QED BY <1>1, <2>2, <2>3
<1> QED BY <1>2, <1>3, <1>4, <1>5, <1>6, <1>7 DEF PlanNext

\* A node comes, or goes.
LEMMA SeatsInsert ==
  ASSUME Formed, SeatsSound, NEW r \in Requests, NEW n \in Nodes, Insert(r, n)
  PROVE  SeatsSound'
<1>0. /\ JobsOK /\ job \in [Requests -> Job] /\ job[r] \in Job /\ row \in [Nodes -> Row]
      /\ Carries(job[r], job[r].at)
  BY DEF Formed, JobsOK, RowsOK
<1>10. PICK o : o = job[r].org
  OBVIOUS
<1>1. /\ o \in Orgs /\ row[n].is = "unborn"
      /\ row' = [row EXCEPT ![n] = [Unborn EXCEPT !.is = "live", !.org = o,
                   !.host = job[r].host, !.managed = job[r].managed, !.token = "minted"]]
      /\ exact' = exact \ {o} /\ UNCHANGED <<alone, entitlement, polar>>
  BY <1>0, <1>10 DEF Insert, At, Carries
<1>2. job'[r].org = o /\ job'[r].at = "trial" /\ \A q \in Requests \ {r} : job'[q] = job[q]
  <2> DEFINE j == [job[r] EXCEPT !.at = "trial", !.node = n]
  <2>1. job' = [job EXCEPT ![r] = j]
    BY <1>0 DEF Insert
  <2>2. j.at = "trial" /\ j.org = o
    BY <1>0, <1>10 DEF Job
  <2> HIDE DEF j
  <2> QED BY <1>0, <2>1, <2>2
<1>3. /\ row'[n].org = o /\ \A m \in Nodes \ {n} : row'[m] = row[m]
  BY <1>0, <1>1 DEF Unborn
<1>4. \A x : x # o => NodesOf(x)' = NodesOf(x)
  BY <1>1, <1>3 DEF NodesOf, Live
<1> SUFFICES ASSUME NEW x \in Orgs PROVE AloneAt(x)' /\ ExactAt(x)'
  BY DEF SeatsSound
<1>5. CASE x # o
  BY <1>1, <1>2, <1>4, <1>5, SeatsElsewhere
<1>6. CASE x = o
  <2>1. ExactAt(o)'
    BY <1>1 DEF ExactAt
  <2>2. AloneAt(o)'
    <3> SUFFICES ASSUME NEW q \in Requests, q \in alone', job'[q].org = o
                 PROVE  /\ \A p \in Requests : job'[p].org = o => p = q
                        /\ job'[q].at \notin {"seats", "push"}
      BY DEF AloneAt, At
    <3>1. q \in alone /\ job[q].org = o
      BY <1>1, <1>2, <1>10
    <3>2. \A p \in Requests : job[p].org = o => p = q
      BY <1>1, <3>1 DEF SeatsSound, AloneAt
    <3>3. q = r
      BY <1>10, <3>2
    <3> QED BY <1>2, <1>10, <3>2, <3>3
  <2> QED BY <1>6, <2>1, <2>2
<1> QED BY <1>5, <1>6

LEMMA SeatsRemove ==
  ASSUME Formed, SeatsSound, NEW r \in Requests, NEW n \in Nodes, RemoveNode(r, n)
  PROVE  SeatsSound'
<1>0. JobsOK /\ row \in [Nodes -> Row]
  BY DEF Formed, RowsOK
<1>1. PICK o : o = row[n].org
  OBVIOUS
<1>2. o \in Orgs
  BY <1>1 DEF Formed, RowsOK, RowsFormed, RemoveNode
<1> DEFINE j == [Idle EXCEPT !.does = "remove", !.org = row[n].org, !.node = n,
                   !.host = row[n].host, !.managed = row[n].managed,
                   !.at = IF row[n].managed THEN "list" ELSE "trial"]
<1>3. /\ Begin(r, j) /\ Meets(r, o) /\ UNCHANGED <<entitlement, polar>> /\ exact' = exact \ {o}
      /\ row' = [row EXCEPT ![n] = [Unborn EXCEPT !.is = "removed"]]
  BY <1>1 DEF RemoveNode
<1>4. j.org = o /\ j.at \notin {"seats", "push", "grant"}
  BY <1>1 DEF Idle
<1> HIDE DEF j
<1>5. row'[n].is = "removed" /\ \A m \in Nodes \ {n} : row'[m] = row[m]
  BY <1>0, <1>3 DEF Unborn
<1>6. \A x : x # o => NodesOf(x)' = NodesOf(x)
  BY <1>1, <1>5 DEF NodesOf, Live
<1>7. \A x : x # o \/ x \in exact' => NodesOf(x)' = NodesOf(x)
  BY <1>3, <1>6
<1> QED BY <1>0, <1>2, <1>3, <1>4, <1>7, SeatsBegin

LEMMA DnsOrg ==
  ASSUME Formed, NEW r \in Requests, DnsStep(r)
  PROVE  job'[r].org = job[r].org /\ \A n \in Nodes : row'[n].org = row[n].org
<1>0. job \in [Requests -> Job] /\ job[r] \in Job /\ row \in [Nodes -> Row]
  BY DEF Formed, JobsOK, RowsOK
<1>1. ASSUME NEW step, Goes(r, step)  PROVE job'[r].org = job[r].org
  BY <1>0, <1>1 DEF Goes, Job
<1>2. CASE List(r)
  <2>1. ASSUME NEW d, job' = [job EXCEPT ![r].at = "write", ![r].found = d]
        PROVE  job'[r].org = job[r].org
    BY <1>0, <2>1 DEF Job
  <2> QED BY <1>1, <1>2, <2>1 DEF List, rowVars
<1>3. CASE ListFails(r) \/ Write(r) \/ WriteFails(r) \/ WriteUnheard(r)
  BY <1>1, <1>3 DEF ListFails, Write, WriteFails, WriteUnheard, GivesUp, rowVars
<1>4. CASE Mark(r)
  BY <1>0, <1>1, <1>4 DEF Mark, Row
<1> QED BY <1>2, <1>3, <1>4 DEF DnsStep

\* Nothing else that a request does to its row counts.
LEMMA SeatsRow ==
  ASSUME Formed, SeatsSound, NEW r \in Requests, RowStep(r)
  PROVE  SeatsSound'
<1>0. /\ JobsOK /\ job \in [Requests -> Job] /\ job[r] \in Job /\ row \in [Nodes -> Row]
      /\ Carries(job[r], job[r].at)
  BY DEF Formed, JobsOK, RowsOK
<1>1. ASSUME UNCHANGED <<entitlement, polar, alone, exact>>,
             \A n \in Nodes : row'[n].is = row[n].is /\ row'[n].org = row[n].org,
             \A q \in Requests \ {r} : job'[q] = job[q],
             job'[r].org = Nothing \/ (job'[r].org = job[r].org /\ job'[r].at \notin {"seats", "push", "grant"})
      PROVE  SeatsSound'
  <2>1. \A x : NodesOf(x)' = NodesOf(x)
    BY <1>1, NodesOfSame
  <2> QED BY <1>1, <2>1, SeatsKept
<1>2. CASE DnsStep(r) /\ UNCHANGED billingVars
  <2>1. /\ \A q \in Requests \ {r} : job'[q] = job[q]
        /\ job'[r].at \in {"write", "mark", "trial", "answer"}
    BY <1>2, DnsMoves
  <2>2. job'[r].org = job[r].org /\ \A n \in Nodes : row'[n].org = row[n].org
    BY <1>2, DnsOrg
  <2>3. \A n \in Nodes : row'[n].is = row[n].is /\ row'[n].org = row[n].org
    BY <1>2, <2>2, DnsRows
  <2> QED BY <1>1, <1>2, <2>1, <2>2, <2>3 DEF billingVars
<1>3. CASE CheckUnique(r) \/ AnswerLost(r)
  <2>1. Goes(r, "insert") \/ Ends(r)
    BY <1>3 DEF CheckUnique, AnswerLost
  <2>2. /\ \A q \in Requests \ {r} : job'[q] = job[q]
        /\ job'[r].org = Nothing \/ (job'[r].org = job[r].org /\ job'[r].at = "insert")
    BY <1>0, <2>1, Onward
  <2>3. UNCHANGED <<row, entitlement, polar, alone, exact>>
    BY <1>3 DEF CheckUnique, AnswerLost, rowVars, billingVars
  <2> QED BY <1>1, <2>2, <2>3
<1>4. CASE Burn(r) \/ Answer(r)
  <2>1. Goes(r, "list") \/ Goes(r, "answer") \/ Ends(r)
    BY <1>4 DEF Burn, Answer, AfterBurn
  <2>2. /\ \A q \in Requests \ {r} : job'[q] = job[q]
        /\ job'[r].org = Nothing \/ (job'[r].org = job[r].org /\ job'[r].at \in {"list", "answer"})
    BY <1>0, <2>1, Onward
  <2>3. UNCHANGED <<entitlement, polar, alone, exact>>
    BY <1>4 DEF Burn, Answer, billingVars
  <2>4. \A n \in Nodes : row'[n].is = row[n].is /\ row'[n].org = row[n].org
    <3>1. CASE Burn(r)
      BY <1>0, <3>1 DEF Burn, Row
    <3>2. CASE Answer(r)
      BY <1>0, <3>2 DEF Answer, Row, rowVars
    <3> QED BY <1>4, <3>1, <3>2
  <2> QED BY <1>1, <2>2, <2>3, <2>4
<1>5. ASSUME NEW j, Begin(r, j), j.org = Nothing, UNCHANGED <<row, entitlement, polar, alone, exact>>
      PROVE  SeatsSound'
  <2>1. job'[r] = j /\ \A q \in Requests \ {r} : job'[q] = job[q]
    BY <1>0, <1>5 DEF Begin
  <2> QED BY <1>1, <1>5, <2>1
<1>6. ASSUME NEW n \in Nodes, Activate(r, n)  PROVE SeatsSound'
  <2> DEFINE j == [Idle EXCEPT !.does = "activate", !.at = "burn", !.node = n,
                     !.host = row[n].host, !.managed = row[n].managed, !.ip = address[n]]
  <2>1. Begin(r, j) /\ UNCHANGED <<row, entitlement, polar, alone, exact>>
    BY <1>6 DEF Activate, rowVars, billingVars
  <2>2. j.org = Nothing
    BY DEF Idle
  <2> HIDE DEF j
  <2> QED BY <1>5, <2>1, <2>2
<1>7. ASSUME NEW n \in Nodes, Beat(r, n)  PROVE SeatsSound'
  <2> DEFINE j == [Idle EXCEPT !.does = "beat", !.at = "list", !.node = n,
                     !.host = row[n].host, !.managed = TRUE, !.ip = address[n]]
  <2>1. Begin(r, j) /\ UNCHANGED <<row, entitlement, polar, alone, exact>>
    BY <1>7 DEF Beat, rowVars, billingVars
  <2>2. j.org = Nothing
    BY DEF Idle
  <2> HIDE DEF j
  <2> QED BY <1>5, <2>1, <2>2
<1>8. ASSUME NEW o \in Orgs, NEW h \in Hosts, NEW m \in BOOLEAN, CreateNode(r, o, h, m)
      PROVE  SeatsSound'
  <2> DEFINE j == [Idle EXCEPT !.does = "create", !.org = o, !.host = h, !.managed = m,
                     !.at = IF configured THEN "count" ELSE "unique"]
  <2>1. Begin(r, j) /\ Meets(r, o) /\ UNCHANGED <<row, entitlement, polar, exact>>
    BY <1>8 DEF CreateNode, rowVars
  <2>2. j.org = o /\ j.at \notin {"seats", "push", "grant"}
    BY DEF Idle
  <2> HIDE DEF j
  <2>3. \A x : NodesOf(x)' = NodesOf(x)
    BY <2>1, NodesOfSame
  <2> QED BY <1>0, <2>1, <2>2, <2>3, SeatsBegin
<1> QED BY <1>2, <1>3, <1>4, <1>6, <1>7, <1>8, SeatsInsert, SeatsRemove DEF RowStep

LEMMA SeatsStep == Formed /\ CacheSound /\ SeatsSound /\ [Next]_vars => SeatsSound'
<1> SUFFICES ASSUME Formed, CacheSound, SeatsSound, [Next]_vars PROVE SeatsSound'
  OBVIOUS
<1>1. ASSUME UNCHANGED <<job, entitlement, polar, alone, exact>>,
             \A n \in Nodes : row'[n].is = row[n].is /\ row'[n].org = row[n].org
      PROVE  SeatsSound'
  <2>1. \A x : NodesOf(x)' = NodesOf(x)
    BY <1>1, NodesOfSame
  <2> QED BY <1>1, <2>1, SeatsKept
<1>2. ASSUME NEW n \in Nodes, NEW h \in Hosts, UpdateNode(n, h)  PROVE SeatsSound'
  <2>1. \A m \in Nodes : row'[m].is = row[m].is /\ row'[m].org = row[m].org
    BY <1>2 DEF UpdateNode, Formed, RowsOK, Row
  <2> QED BY <1>1, <1>2, <2>1 DEF UpdateNode, billingVars
<1>3. ASSUME NEW n \in Nodes, NEW ip, Moves(n, ip)  PROVE SeatsSound'
  BY <1>1, <1>3 DEF Moves, billingVars
<1>4. CASE PanelRestarts
  <2>1. \A q \in Requests : job'[q].org = Nothing
    BY <1>4 DEF PanelRestarts, Idle
  <2>2. UNCHANGED <<row, entitlement, polar, exact>> /\ alone' = {}
    BY <1>4 DEF PanelRestarts, rowVars
  <2>3. \A x : NodesOf(x)' = NodesOf(x)
    BY <2>2, NodesOfSame
  <2> QED BY <2>1, <2>2, <2>3, SeatsKept
<1>5. ASSUME NEW r \in Requests, Works(r) \/ Asks(r)  PROVE SeatsSound'
  <2>1. BillingStep(r) \/ RowStep(r)
    BY <1>5 DEF Works, Asks, RowStep
  <2> QED BY <2>1, SeatsBilling, SeatsRow
<1>6. CASE UNCHANGED vars
  BY <1>1, <1>6 DEF vars, billingVars
<1> QED BY <1>2, <1>3, <1>4, <1>5, <1>6, SeatsPlan DEF Next

(***************************************************************************)
(* The seats (node-sync.ts:67-73): for any number of nodes, organizations    *)
(* and requests, what a creation or a removal that ran alone pushed is what *)
(* Polar charges until the nodes, the window or the subscription change.    *)
(***************************************************************************)
THEOREM SeatsExactCorrect == Spec => []SeatsExact
<1>1. Init => SeatsSound
  BY DEF Init, BillingInit, SeatsSound, AloneAt, ExactAt
<1>2. Formed /\ SeatsSound => SeatsExact
  BY DEF Formed, PlansOK, SeatsSound, ExactAt, SeatsExact
<1> QED BY <1>1, <1>2, InitCache, WellFormed, CacheStep, SeatsStep, PTL DEF Spec
=============================================================================
