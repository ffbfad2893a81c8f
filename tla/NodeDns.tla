------------------------------ MODULE NodeDns ------------------------------
(***************************************************************************)
(* The A record of a managed node: reconcileManagedNodeDns                  *)
(* (apps/panel/src/server/nodes/dns.ts) lists the records of a hostname and *)
(* then updates, creates or deletes one, by calls to Cloudflare that may    *)
(* fail, or take effect and be reported as failed.  It never throws: an     *)
(* enrollment or a heartbeat marks a success on the node's row              *)
(* (nodes/enrollment.ts), a removal goes on whatever came of it.            *)
(***************************************************************************)
EXTENDS NodeRequests

VARIABLES
  dns,       \* [Records -> [host, ip]]: Cloudflare's A records
  troubled   \* history: hosts on which something went wrong, see Trouble

dnsVars == <<dns, troubled>>

NoRecord == [host |-> Nothing, ip |-> Nothing]
RecordsOf(h) == {d \in Records : dns[d].host = h}

\* The addresses a hostname resolves to.
Resolves(h) == {dns[d].ip : d \in RecordsOf(h)}

DnsInit ==
  /\ dns = [d \in Records |-> NoRecord]
  /\ troubled = {}

Reconciling(r) == job[r].at \in DnsSteps
Others(r) == {q \in Requests \ {r} : Reconciling(q) /\ job[q].host = job'[r].host}

(***************************************************************************)
(* What the handlers do not guard against is kept as a history: two of them *)
(* at work on one hostname, a failed removal, a call that took effect and   *)
(* was reported as failed, a managed hostname that two rows share or that   *)
(* is edited, and the end of the panel between a write and its mark.        *)
(***************************************************************************)
Trouble(H) == troubled' = troubled \cup H

Overlapped(r) == IF Others(r) = {} THEN {} ELSE {job'[r].host}

\* mutation: a failure is marked as well
MarkedAlways(r, ok) == IF job[r].does = "remove" THEN "trial" ELSE "mark"

\* The reconcile is over: what the handler does next.
Reconciled(r, ok) ==
  IF job[r].does = "remove" THEN "trial" ELSE IF ok THEN "mark" ELSE "answer"

\* findARecord, or the refusal of a hostname, an address or a missing token.
List(r) ==
  /\ At(r, "list")
  /\ \/ \E d \in RecordsOf(job[r].host) :
          job' = [job EXCEPT ![r].at = "write", ![r].found = d]
     \/ /\ RecordsOf(job[r].host) = {}
        /\ IF job[r].ip = Nothing
             THEN Goes(r, Reconciled(r, TRUE))
             ELSE job' = [job EXCEPT ![r].at = "write", ![r].found = Nothing]
  /\ UNCHANGED <<rowVars, dnsVars>>

\* What a reconcile that gives up leaves behind: a removal's record for good.
GivesUp(r) ==
  /\ Goes(r, Reconciled(r, FALSE))
  /\ Trouble(IF job[r].ip = Nothing THEN {job[r].host} ELSE {})

ListFails(r) ==
  /\ At(r, "list")
  /\ GivesUp(r)
  /\ UNCHANGED <<rowVars, dns>>

\* DELETE and PUT need the record that was listed to be there still;
\* Cloudflare refuses a second record of the same name and address.
Accepts(r, d) ==
  IF job[r].found = Nothing
    THEN dns[d] = NoRecord /\ job[r].ip \notin Resolves(job[r].host)
    ELSE d = job[r].found /\ dns[d].host = job[r].host

Takes(r, d) ==
  /\ Accepts(r, d)
  /\ dns' = [dns EXCEPT ![d] =
               IF job[r].ip = Nothing THEN NoRecord ELSE [host |-> job[r].host, ip |-> job[r].ip]]

Write(r) ==
  /\ At(r, "write")
  /\ \E d \in Records : Takes(r, d)
  /\ Goes(r, Reconciled(r, TRUE))
  /\ UNCHANGED <<rowVars, troubled>>

\* The call is refused or lost.
WriteFails(r) ==
  /\ At(r, "write")
  /\ GivesUp(r)
  /\ UNCHANGED <<rowVars, dns>>

\* The call takes effect and its answer does not come within the timeout.
WriteUnheard(r) ==
  /\ At(r, "write")
  /\ \E d \in Records : Takes(r, d)
  /\ Goes(r, Reconciled(r, FALSE))
  /\ Trouble({job[r].host})
  /\ UNCHANGED rowVars

\* markDnsSynced: no row is updated once the node is gone.
Mark(r) ==
  /\ At(r, "mark")
  /\ row' = IF Live(job[r].node)
              THEN [row EXCEPT ![job[r].node].dnsSyncedIp = job[r].ip]
              ELSE row
  /\ Goes(r, "answer")
  /\ UNCHANGED <<held, dnsVars>>

DnsStep(r) == List(r) \/ ListFails(r) \/ Write(r) \/ WriteFails(r) \/ WriteUnheard(r) \/ Mark(r)
=============================================================================
