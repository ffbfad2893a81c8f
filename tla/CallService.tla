---------------------------- MODULE CallService ----------------------------
(***************************************************************************)
(* What the panel's callers are promised by the daemon link, whatever       *)
(* happens to sockets, sessions and processes: a call runs on the box at    *)
(* most once and only after it was issued; its caller is told one outcome,  *)
(* once; "ok" is only ever said of a call that ran.  A call that failed may *)
(* or may not have run, and may still run later: the code promises no more. *)
(***************************************************************************)
CONSTANTS
  Unary,      \* control requests
  Streams     \* console streams

VARIABLES
  outcome,    \* [Calls -> Outcome]: what the caller has been told
  ran         \* the calls the box has started to execute

Calls == Unary \cup Streams
Outcome == {"new", "open", "ok", "failed", "cancelled"}
Open == {c \in Calls : outcome[c] = "open"}

TypeOK ==
  /\ outcome \in [Calls -> Outcome]
  /\ ran \subseteq Calls

Init ==
  /\ outcome = [c \in Calls |-> "new"]
  /\ ran = {}

Issue(c) ==
  /\ outcome[c] = "new"
  /\ \E o \in {"open", "failed"} : outcome' = [outcome EXCEPT ![c] = o]
  /\ UNCHANGED ran

Run(c) ==
  /\ outcome[c] # "new"
  /\ c \notin ran
  /\ ran' = ran \cup {c}
  /\ UNCHANGED outcome

Succeed(c) ==
  /\ outcome[c] = "open"
  /\ c \in ran
  /\ outcome' = [outcome EXCEPT ![c] = "ok"]
  /\ UNCHANGED ran

\* A dropped link fails everything in flight on it in one step.
Fail(S) ==
  /\ S \subseteq Open
  /\ outcome' = [c \in Calls |-> IF c \in S THEN "failed" ELSE outcome[c]]
  /\ UNCHANGED ran

Cancel(c) ==
  /\ c \in Streams
  /\ outcome[c] = "open"
  /\ outcome' = [outcome EXCEPT ![c] = "cancelled"]
  /\ UNCHANGED ran

Next ==
  \/ \E c \in Calls : Issue(c) \/ Run(c) \/ Succeed(c) \/ Cancel(c)
  \/ \E S \in SUBSET Calls : Fail(S)

vars == <<outcome, ran>>

\* Only control requests carry a timer: a stream may stay open for ever.
Spec ==
  /\ Init /\ [][Next]_vars
  /\ \A c \in Unary : WF_vars(Succeed(c) \/ Fail({c}))
=============================================================================
