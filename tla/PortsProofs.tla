----------------------------- MODULE PortsProofs -----------------------------
(***************************************************************************)
(* Theorems about Ports, for any ports, slots, servers and requests: the    *)
(* firewall and the allocations go in lockstep, and of the rules that were  *)
(* there at boot only one that ufw takes for the daemon's may go.           *)
(***************************************************************************)
EXTENDS Ports, SequenceTheorems, FiniteSetTheorems, TLAPS

CallsOK ==
  /\ call \in [Askers -> [PortSet -> Call]]
  /\ late \subseteq PortSet \X Call
  /\ rules \in Seq(Rule)

\* A close that has a number to delete was not refused its port.
Aimed(p, c) == c.at = "found" => ~Guarded(p)

AimsOK ==
  /\ \A r \in Askers, p \in PortSet : Aimed(p, call[r][p])
  /\ \A l \in late : Aimed(l[1], l[2])

PortsInv == CallsOK /\ AimsOK

Holds(q) == \E i \in DOMAIN rules : rules[i] = q

USE PortsAssumption DEF PortsAssumption

LEMMA NoCallOK == NoCall \in Call /\ NoCall.at = "sent" /\ \A w \in {"open", "close"} : Sent(w) \in Call /\ Sent(w).at = "sent"
BY DEF NoCall, Call, Sent

(***************************************************************************)
(* One rule is taken away, and the others stay.                             *)
(***************************************************************************)
LEMMA WithoutIs ==
  ASSUME rules \in Seq(Rule), NEW i \in DOMAIN rules
  PROVE  /\ Without(i) \in Seq(Rule) /\ DOMAIN Without(i) = 1..(Len(rules) - 1)
         /\ \A m \in 1..(Len(rules) - 1) : Without(i)[m] = rules[IF m < i THEN m ELSE m + 1]
<1>1. Len(rules) \in Nat /\ i \in 1..Len(rules) /\ DOMAIN rules = 1..Len(rules)
  OBVIOUS
<1> DEFINE a == SubSeq(rules, 1, i - 1)
           b == SubSeq(rules, i + 1, Len(rules))
<1>2. a \in Seq(Rule) /\ Len(a) = i - 1 /\ \A k \in 1..(i - 1) : a[k] = rules[k]
  BY <1>1, SubSeqProperties
<1>3. b \in Seq(Rule) /\ Len(b) = Len(rules) - i /\ \A k \in 1..(Len(rules) - i) : b[k] = rules[i + k]
  <2>1. /\ i + 1 \in Int /\ Len(rules) \in Int
        /\ \A k \in (i + 1)..Len(rules) : k \in 1..Len(rules) /\ rules[k] \in Rule
    BY <1>1
  <2>2. /\ b \in Seq(Rule)
        /\ Len(b) = IF i + 1 <= Len(rules) THEN Len(rules) - (i + 1) + 1 ELSE 0
        /\ \A k \in 1..(Len(rules) - (i + 1) + 1) : b[k] = rules[(i + 1) + k - 1]
    BY <2>1, SubSeqProperties
  <2>3. /\ (IF i + 1 <= Len(rules) THEN Len(rules) - (i + 1) + 1 ELSE 0) = Len(rules) - i
        /\ Len(rules) - (i + 1) + 1 = Len(rules) - i
        /\ \A k \in 1..(Len(rules) - i) : (i + 1) + k - 1 = i + k
    BY <1>1
  <2> HIDE DEF b
  <2> QED BY <2>2, <2>3
<1> HIDE DEF a, b
<1>4. /\ a \o b \in Seq(Rule) /\ Len(a \o b) = Len(rules) - 1
      /\ \A k \in 1..(Len(rules) - 1) : (a \o b)[k] = IF k <= i - 1 THEN a[k] ELSE b[k - (i - 1)]
  <2> a \in Seq(Rule) /\ b \in Seq(Rule)
    BY <1>2, <1>3
  <2>1. /\ a \o b \in Seq(Rule) /\ Len(a \o b) = Len(a) + Len(b)
        /\ \A k \in 1..(Len(a) + Len(b)) : (a \o b)[k] = IF k <= Len(a) THEN a[k] ELSE b[k - Len(a)]
    BY ConcatProperties
  <2>2. Len(a) + Len(b) = Len(rules) - 1
    BY <1>1, <1>2, <1>3
  <2> QED BY <1>2, <2>1, <2>2
<1>5. Without(i) = a \o b
  BY DEF Without, a, b
<1>6. ASSUME NEW m \in 1..(Len(rules) - 1)
      PROVE  (a \o b)[m] = rules[IF m < i THEN m ELSE m + 1]
  <2>1. CASE m < i
    <3>1. m \in 1..(i - 1) /\ m <= i - 1
      BY <1>1, <2>1
    <3> QED BY <1>2, <1>4, <2>1, <3>1
  <2>2. CASE ~(m < i)
    <3>1. ~(m <= i - 1) /\ m - (i - 1) \in 1..(Len(rules) - i) /\ i + (m - (i - 1)) = m + 1
      BY <1>1, <2>2
    <3> QED BY <1>3, <1>4, <2>2, <3>1
  <2> QED BY <2>1, <2>2
<1> QED BY <1>4, <1>5, <1>6

LEMMA WithoutKeeps ==
  ASSUME rules \in Seq(Rule), NEW i \in DOMAIN rules
  PROVE  /\ Without(i) \in Seq(Rule)
         /\ \A k \in DOMAIN rules \ {i} : \E m \in DOMAIN Without(i) : Without(i)[m] = rules[k]
<1>1. Len(rules) \in Nat /\ i \in 1..Len(rules) /\ DOMAIN rules = 1..Len(rules)
  OBVIOUS
<1>2. /\ Without(i) \in Seq(Rule) /\ DOMAIN Without(i) = 1..(Len(rules) - 1)
      /\ \A m \in 1..(Len(rules) - 1) : Without(i)[m] = rules[IF m < i THEN m ELSE m + 1]
  BY WithoutIs
<1>3. ASSUME NEW k \in DOMAIN rules \ {i}
      PROVE  \E m \in 1..(Len(rules) - 1) : Without(i)[m] = rules[k]
  <2>1. CASE k < i
    <3>1. k \in 1..(Len(rules) - 1)
      BY <1>1, <2>1
    <3> QED BY <1>2, <2>1, <3>1
  <2>2. CASE k > i
    <3>1. k - 1 \in 1..(Len(rules) - 1) /\ ~(k - 1 < i) /\ (k - 1) + 1 = k
      BY <1>1, <2>2
    <3> QED BY <1>2, <3>1
  <2>3. k < i \/ k > i
    BY <1>1, <1>3
  <2> QED BY <2>1, <2>2, <2>3
<1> QED BY <1>2, <1>3

LEMMA NotOurs == ASSUME NEW p \in PortSet, ~Guarded(p), NEW q \in AtBoot PROVE q # Ours(p)
BY DEF AtBoot, Others, Theirs, Ours, Guarded

LEMMA TheirsInRules ==
  ASSUME NEW p \in PortSet, NEW i \in TheirsAt(p)
  PROVE  i \in DOMAIN rules /\ rules[i] = Theirs(p) /\ Ours(p) \in Rule
BY DEF TheirsAt, Theirs, Ours, Rule

\* A rule that ufw takes for the daemon's is the operator's of the port the
\* call opens.
Taking(p, c, q) == backend = "ufw" /\ c.does = "open" /\ q = Theirs(p)

\* A command of one call.
LEMMA RunsKeep ==
  ASSUME NEW p \in PortSet, NEW c \in Call, NEW c2 \in After(c), Runs(p, c, c2),
         rules \in Seq(Rule), Aimed(p, c)
  PROVE  /\ c2 \in Call /\ Aimed(p, c2)
         /\ rules' \in Seq(Rule)
         /\ \A q \in AtBoot : Holds(q) /\ ~renumbered' => Holds(q)' \/ Taking(p, c, q)
         /\ renumbered => renumbered'
<1>0. Len(rules) \in Nat /\ DOMAIN rules = 1..Len(rules)
  OBVIOUS
<1>1. ASSUME NEW i \in DOMAIN rules  PROVE [c EXCEPT !.at = "found", !.number = i] \in Call
  <2>1. i \in Nat
    BY <1>0, <1>1
  <2> QED BY <2>1 DEF Call
<1>2. [c EXCEPT !.at = "checked"] \in Call /\ [c EXCEPT !.at = "checked"].at = "checked"
  BY DEF Call
<1>3. c2 \in Call
  BY <1>1, <1>2, NoCallOK DEF After
<1>4. ASSUME UNCHANGED rules  PROVE rules' \in Seq(Rule) /\ \A q \in AtBoot : Holds(q) => Holds(q)'
  BY <1>4 DEF Holds
<1>5. ASSUME rules' = Append(rules, Ours(p))
      PROVE  rules' \in Seq(Rule) /\ \A q \in AtBoot : Holds(q) => Holds(q)'
  <2>1. Ours(p) \in Rule
    BY DEF Ours, Rule
  <2>2. /\ rules' \in Seq(Rule) /\ DOMAIN rules' = 1..(Len(rules) + 1)
        /\ \A k \in 1..Len(rules) : rules'[k] = rules[k]
    BY <1>5, <2>1, AppendProperties
  <2>3. \A k \in 1..Len(rules) : k \in 1..(Len(rules) + 1)
    BY <1>0
  <2> QED BY <1>0, <2>2, <2>3 DEF Holds
<1>6. ASSUME NEW i \in Matches(p), rules' = Without(i), ~Guarded(p)
      PROVE  rules' \in Seq(Rule) /\ \A q \in AtBoot : Holds(q) => Holds(q)'
  <2>1. i \in DOMAIN rules /\ rules[i] = Ours(p)
    BY DEF Matches
  <2>2. \A k \in DOMAIN rules : rules[k] \in AtBoot => k # i
    BY <1>6, <2>1, NotOurs
  <2>3. rules' \in Seq(Rule) /\ \A k \in DOMAIN rules \ {i} : \E m \in DOMAIN rules' : rules'[m] = rules[k]
    BY <1>6, <2>1, WithoutKeeps
  <2> QED BY <2>2, <2>3 DEF Holds
<1>11. ASSUME NEW i \in TheirsAt(p), rules' = [rules EXCEPT ![i] = Ours(p)],
              backend = "ufw", c.does = "open"
       PROVE  rules' \in Seq(Rule) /\ \A q \in AtBoot : Holds(q) => Holds(q)' \/ Taking(p, c, q)
  <2>1. i \in DOMAIN rules /\ rules[i] = Theirs(p) /\ Ours(p) \in Rule
    BY TheirsInRules
  <2>2. DOMAIN rules' = DOMAIN rules /\ \A k \in DOMAIN rules \ {i} : rules'[k] = rules[k]
    BY <1>11
  <2>3. rules' \in Seq(Rule)
    BY <1>11, <2>1
  <2> QED BY <1>11, <2>1, <2>2, <2>3 DEF Holds, Taking
<1>7. CASE Opens(p, c, c2)
  <2>1. CASE UNCHANGED rules \/ rules' = Append(rules, Ours(p))
    BY <1>2, <1>3, <1>4, <1>5, <1>7, <2>1, NoCallOK DEF Opens, Aimed
  <2>2. CASE backend = "ufw" /\ c2 = NoCall /\ \E i \in TheirsAt(p) : rules' = [rules EXCEPT ![i] = Ours(p)]
    BY <1>3, <1>7, <1>11, <2>2, NoCallOK DEF Opens, Aimed
  <2> QED BY <1>7, <2>1, <2>2 DEF Opens, Allows
<1>8. CASE FindsNumber(p, c, c2)
  BY <1>3, <1>4, <1>8 DEF FindsNumber, Aimed
<1>9. CASE DeletesNumber(p, c, c2)
  <2>1. ~Guarded(p) /\ c2 = NoCall /\ c.number \in Nat
    BY <1>9 DEF DeletesNumber, Aimed, Call
  <2>2. CASE c.number \in Matches(p)
    <3>1. rules' = Without(c.number)
      BY <1>0, <1>9, <2>2 DEF DeletesNumber, Matches
    <3> QED BY <1>3, <1>6, <1>9, <2>1, <2>2, <3>1, NoCallOK DEF DeletesNumber, Aimed
  <2>3. CASE c.number \notin Matches(p)
    <3>1. renumbered'
      BY <1>9, <2>3 DEF DeletesNumber
    <3>2. rules' \in Seq(Rule)
      <4>1. CASE c.number = 0 \/ c.number > Len(rules)
        <5>1. CASE c.number > Len(rules)
          BY <1>0, <1>9, <2>1, <5>1 DEF DeletesNumber
        <5>2. CASE c.number = 0
          <6>1. SubSeq(rules, 1, 0 - 1) \in Seq(Rule) /\ SubSeq(rules, 0 + 1, Len(rules)) \in Seq(Rule)
            BY <1>0, SubSeqProperties
          <6> QED BY <1>0, <1>9, <5>2, <6>1, ConcatProperties DEF DeletesNumber, Without
        <5> QED BY <4>1, <5>1, <5>2
      <4>2. CASE c.number \in DOMAIN rules
        BY <1>0, <1>9, <4>2, WithoutKeeps DEF DeletesNumber
      <4> QED BY <1>0, <2>1, <4>1, <4>2
    <3> QED BY <1>3, <2>1, <3>1, <3>2, NoCallOK DEF Aimed
  <2> QED BY <2>2, <2>3
<1>10. CASE DeletesSpec(p, c, c2)
  BY <1>3, <1>4, <1>6, <1>10, NoCallOK DEF DeletesSpec, First, Aimed
<1>12. CASE Refuses(p, c, c2)
  BY <1>3, <1>4, <1>12, NoCallOK DEF Refuses, Aimed
<1> QED BY <1>7, <1>8, <1>9, <1>10, <1>12 DEF Runs

\* The calls of the panel are of the right kind, and begin at the beginning.
LEMMA CallsSet ==
  ASSUME CallsOK, AimsOK, NEW r \in Askers, NEW f \in [PortSet -> Call],
         \A p \in PortSet : Aimed(p, f[p]), call' = [call EXCEPT ![r] = f],
         late' \subseteq PortSet \X Call, \A l \in late' : Aimed(l[1], l[2]), rules' \in Seq(Rule)
  PROVE  CallsOK' /\ AimsOK'
BY DEF CallsOK, AimsOK, Aimed

LEMMA PortsStep == PortsInv /\ [PortsNext]_portsVars => PortsInv'
<1> SUFFICES ASSUME PortsInv, [PortsNext]_portsVars PROVE PortsInv'
  OBVIOUS
<1> USE DEF PortsInv
<1>1. ASSUME UNCHANGED <<call, late, rules, renumbered>>  PROVE PortsInv'
  BY <1>1 DEF CallsOK, AimsOK, Aimed
<1>2. ASSUME NEW r \in Askers, NEW f, call' = [call EXCEPT ![r] = f],
             f \in [PortSet -> Call], \A p \in PortSet : Aimed(p, f[p]),
             UNCHANGED <<late, rules, renumbered>>
      PROVE  PortsInv'
  BY <1>2, CallsSet DEF CallsOK, AimsOK
<1>3. ASSUME NEW r \in Askers, Send(r)  PROVE PortsInv'
  <2> DEFINE w == Sent(IF ask[r].does = "release" THEN "close" ELSE "open")
             f == [call[r] EXCEPT ![ask[r].port] = w]
  <2>1. w \in Call /\ w.at = "sent"
    BY NoCallOK
  <2> HIDE DEF w
  <2>2. f \in [PortSet -> Call] /\ \A p \in PortSet : f[p] = w \/ f[p] = call[r][p]
    BY <2>1 DEF CallsOK
  <2>3. call' = [call EXCEPT ![r] = f] /\ UNCHANGED <<late, rules, renumbered>>
    BY <1>3 DEF Send, w, CallsOK
  <2>4. \A p \in PortSet : Aimed(p, f[p])
    BY <2>1, <2>2 DEF Aimed, AimsOK
  <2> HIDE DEF f
  <2> QED BY <1>2, <2>2, <2>3, <2>4
<1>4. ASSUME NEW r \in Askers, ReleasePorts(r)  PROVE PortsInv'
  <2> DEFINE f == [p \in PortSet |-> IF p \in PortsOf(ask[r].server) THEN Sent("close") ELSE NoCall]
  <2>1. f \in [PortSet -> Call] /\ \A p \in PortSet : Aimed(p, f[p])
    BY NoCallOK DEF Aimed
  <2>2. call' = [call EXCEPT ![r] = f] /\ UNCHANGED <<late, rules, renumbered>>
    BY <1>4 DEF ReleasePorts
  <2> HIDE DEF f
  <2> QED BY <1>2, <2>1, <2>2
<1>5. ASSUME NEW r \in Askers, NEW p \in PortSet, CallFails(r, p) \/ CallTimesOut(r, p)  PROVE PortsInv'
  <2> DEFINE f == [call[r] EXCEPT ![p] = NoCall]
  <2>1. f \in [PortSet -> Call] /\ \A u \in PortSet : f[u] = NoCall \/ f[u] = call[r][u]
    BY NoCallOK DEF CallsOK
  <2>2. \A u \in PortSet : Aimed(u, f[u])
    BY <2>1, NoCallOK DEF Aimed, AimsOK
  <2>3. call' = [call EXCEPT ![r] = f] /\ UNCHANGED <<rules, renumbered>>
    BY <1>5 DEF CallFails, CallTimesOut, CallsOK
  <2>4. late' \subseteq late \cup {<<p, call[r][p]>>}
    BY <1>5 DEF CallFails, CallTimesOut
  <2>5. late' \subseteq PortSet \X Call /\ \A l \in late' : Aimed(l[1], l[2])
    BY <2>4 DEF CallsOK, AimsOK
  <2> HIDE DEF f
  <2> QED BY <2>1, <2>2, <2>3, <2>5, CallsSet DEF CallsOK
<1>6. ASSUME NEW r \in Askers, NEW p \in PortSet, Serve(r, p)  PROVE PortsInv'
  <2>1. PICK c2 \in After(call[r][p]) : Runs(p, call[r][p], c2) /\ call' = [call EXCEPT ![r][p] = c2]
    BY <1>6 DEF Serve
  <2>2. call[r][p] \in Call /\ Aimed(p, call[r][p]) /\ rules \in Seq(Rule)
    BY DEF CallsOK, AimsOK
  <2>3. /\ c2 \in Call /\ Aimed(p, c2)
        /\ rules' \in Seq(Rule)
    BY <2>1, <2>2, RunsKeep
  <2> DEFINE f == [call[r] EXCEPT ![p] = c2]
  <2>4. f \in [PortSet -> Call] /\ \A u \in PortSet : f[u] = IF u = p THEN c2 ELSE call[r][u]
    BY <2>3 DEF CallsOK
  <2>5. \A u \in PortSet : Aimed(u, f[u])
    BY <2>3, <2>4 DEF AimsOK
  <2>6. call' = [call EXCEPT ![r] = f] /\ late' = late
    BY <1>6, <2>1 DEF Serve, CallsOK
  <2> HIDE DEF f
  <2> QED BY <2>3, <2>4, <2>5, <2>6, CallsSet DEF CallsOK, AimsOK
<1>7. ASSUME NEW l \in late, ServeLate(l[1], l[2])  PROVE PortsInv'
  <2>1. PICK c2 \in After(l[2]) :
          /\ Runs(l[1], l[2], c2)
          /\ late' = (late \ {<<l[1], l[2]>>}) \cup (IF c2 = NoCall THEN {} ELSE {<<l[1], c2>>})
    BY <1>7 DEF ServeLate
  <2>2. l[1] \in PortSet /\ l[2] \in Call /\ Aimed(l[1], l[2]) /\ rules \in Seq(Rule)
    BY DEF CallsOK, AimsOK
  <2>3. /\ c2 \in Call /\ Aimed(l[1], c2)
        /\ rules' \in Seq(Rule)
    BY <2>1, <2>2, RunsKeep
  <2>4. call' = call
    BY <1>7 DEF ServeLate
  <2>5. late' \subseteq PortSet \X Call /\ \A k \in late' : k \in late \/ k = <<l[1], c2>>
    BY <2>1, <2>2, <2>3 DEF CallsOK
  <2>6. \A k \in late' : Aimed(k[1], k[2])
    BY <2>3, <2>5 DEF AimsOK
  <2> QED BY <2>3, <2>4, <2>5, <2>6 DEF CallsOK, AimsOK, Aimed
<1>8. CASE UNCHANGED portsVars
  BY <1>1, <1>8 DEF portsVars
<1>9. ASSUME NEW r \in Askers,
             \/ Conclude(r)
             \/ \E p \in PortSet : CreateAllocation(r, p) \/ \E v \in GameServers : DeployServer(r, v, p)
             \/ \E s \in Slots : InsertSlot(r, s) \/ RemoveAllocation(r, s)
             \/ \E v \in GameServers : RemoveServer(r, v)
      PROVE  PortsInv'
  BY <1>1, <1>9 DEF Conclude, CreateAllocation, DeployServer, InsertSlot, RemoveAllocation, RemoveServer
<1> QED BY <1>3, <1>4, <1>5, <1>6, <1>7, <1>8, <1>9 DEF PortsNext

LEMMA BootRules == AtBoot \subseteq Rule /\ Cardinality(AtBoot) \in Nat
<1>1. Others \in Rule /\ (\A p \in Protected : Ours(p) \in Rule) /\ \A p \in ByHand : Theirs(p) \in Rule
  BY DEF Others, Theirs, Ours, Rule
<1>2. IsFiniteSet({Theirs(p) : p \in ByHand}) /\ IsFiniteSet({Ours(p) : p \in Protected})
  <2> DEFINE T == {Theirs(p) : p \in ByHand}
             U == {Ours(p) : p \in Protected}
             f == [p \in ByHand |-> Theirs(p)]
             g == [p \in Protected |-> Ours(p)]
  <2>1. f \in [ByHand -> T] /\ g \in [Protected -> U]
    OBVIOUS
  <2>2. f \in Surjection(ByHand, T) /\ g \in Surjection(Protected, U)
    BY <2>1 DEF Surjection
  <2> HIDE DEF T, U, f, g
  <2>3. IsFiniteSet(T) /\ IsFiniteSet(U)
    BY <2>2, FS_Surjection
  <2> QED BY <2>3 DEF T, U
<1>3. IsFiniteSet({Others})
  BY FS_Singleton
<1>4. IsFiniteSet(AtBoot)
  BY <1>2, <1>3, FS_Union DEF AtBoot
<1> QED BY <1>1, <1>4, FS_CardinalityType DEF AtBoot

LEMMA PortsStart == PortsInit => PortsInv
<1> SUFFICES ASSUME PortsInit PROVE PortsInv
  OBVIOUS
<1>1. rules \in [1..Cardinality(AtBoot) -> Rule]
  BY BootRules DEF PortsInit
<1>2. rules \in Seq(Rule)
  BY <1>1, BootRules, SeqDef
<1> QED BY <1>2, NoCallOK DEF PortsInit, PortsInv, CallsOK, AimsOK, Aimed

(***************************************************************************)
(* Firewall and allocations in lockstep.  First what holds of every request *)
(* and row: a row's port is its own, a call is on its way for a request that *)
(* waits for it, and a removal that found a deploy still claiming a port of  *)
(* its server has crossed that port.                                        *)
(***************************************************************************)
AskShape(a) ==
  /\ a.does = "none" => a = NoAsk
  /\ a.does \in {"reserve", "create"} => a.at \in {"insert", "send", "wait"} /\ a.port \in PortSet
  /\ a.does = "reserve" => a.server = Nobody
  /\ a.does = "create" => a.server \in GameServers /\ server[a.server] # "unborn"
  /\ a.does = "release" =>
       /\ a.at \in {"send", "wait"} /\ a.port \in PortSet /\ a.slot \in Slots
       /\ slot[a.slot].port = a.port /\ slot[a.slot].server = Nobody /\ slot[a.slot].is # "unborn"
  /\ a.does = "remove" =>
       /\ a.at \in {"list", "wait"} /\ a.port = Nobody
       /\ a.server \in GameServers /\ server[a.server] # "unborn"

CallFits(r, p) ==
  call[r][p] # NoCall =>
    /\ ask[r].at = "wait" /\ (ask[r].does = "remove" \/ ask[r].port = p)
    /\ call[r][p].does = IF ask[r].does \in {"release", "remove"} THEN "close" ELSE "open"

RowsOK ==
  /\ slot \in [Slots -> Slot]
  /\ server \in [GameServers -> {"unborn", "live", "gone"}]
  /\ ask \in [Askers -> Ask]
  /\ \A s, t \in Slots : LiveSlot(s) /\ LiveSlot(t) /\ slot[s].port = slot[t].port => s = t
  /\ \A s \in Slots : LiveSlot(s) => slot[s].port \in PortSet

AsksOK ==
  /\ \A r \in Askers : AskShape(ask[r])
  /\ \A r \in Askers, p \in PortSet : CallFits(r, p)
  /\ \A r, q \in Askers :
       ask[r].does = "remove" /\ ask[q].does = "create" /\ ask[r].server = ask[q].server
         => ask[q].port \in crossed

(***************************************************************************)
(* A port the property speaks of: where its request stands, the rule and the *)
(* row are what they should be at that point.                               *)
(***************************************************************************)
Watched(p) == p \notin crossed \cup Protected /\ ~renumbered /\ backend # "unsupported"

AtMostOne(S) == \A i, j \in S : i = j
IsOpen(p) == Matches(p) # {}
IsHeld(p) == SlotsAt(p) # {}
Takes(r) == ask[r].does \in {"reserve", "create"}
Gives(r) == ask[r].does \in {"release", "remove"}
Quiet(r, p) == call[r][p] = NoCall

Phase(r, p) ==
  /\ ask[r].at = "insert" => (IsOpen(p) <=> IsHeld(p))
  /\ Takes(r) /\ ask[r].at = "send" => ~IsOpen(p) /\ IsHeld(p)
  /\ Takes(r) /\ ask[r].at = "wait" => IsHeld(p) /\ (Quiet(r, p) <=> IsOpen(p))
  /\ ask[r].does = "release" => ask[r].slot \in SlotsAt(p)
  /\ ask[r].does = "remove" => p \in PortsOf(ask[r].server)
  /\ Gives(r) /\ ask[r].at # "wait" => IsOpen(p)
  /\ Gives(r) /\ ask[r].at = "wait" /\ Quiet(r, p) => ~IsOpen(p)

PortOK(p) ==
  /\ \A l \in late : l[1] # p
  /\ \A r, q \in Askers : On(r, p) /\ On(q, p) => r = q
  /\ AtMostOne(Matches(p))
  /\ (\A r \in Askers : ~On(r, p)) => (IsOpen(p) <=> IsHeld(p))
  /\ \A r \in Askers : On(r, p) => Phase(r, p)

LockInv == RowsOK /\ AsksOK /\ \A p \in PortSet : Watched(p) => PortOK(p)

(***************************************************************************)
(* What a command of a call on port u does to the rules of port p.          *)
(***************************************************************************)
LEMMA AppendMatches ==
  ASSUME rules \in Seq(Rule), NEW e \in Rule, rules' = Append(rules, e), NEW p
  PROVE  /\ e # Ours(p) => Matches(p)' = Matches(p)
         /\ e = Ours(p) => Matches(p)' = Matches(p) \cup {Len(rules) + 1}
<1>1. /\ DOMAIN rules' = 1..(Len(rules) + 1) /\ rules'[Len(rules) + 1] = e
      /\ \A k \in 1..Len(rules) : rules'[k] = rules[k]
  BY AppendProperties
<1>2. Len(rules) \in Nat /\ DOMAIN rules = 1..Len(rules)
  OBVIOUS
<1>3. 1..(Len(rules) + 1) = 1..Len(rules) \cup {Len(rules) + 1} /\ Len(rules) + 1 \notin 1..Len(rules)
  BY <1>2
<1> QED BY <1>1, <1>2, <1>3 DEF Matches, Ours

LEMMA WithoutMatches ==
  ASSUME rules \in Seq(Rule), NEW i \in DOMAIN rules, rules' = Without(i), NEW p,
         AtMostOne(Matches(p))
  PROVE  /\ AtMostOne(Matches(p)')
         /\ rules[i] # Ours(p) => (Matches(p)' # {} <=> Matches(p) # {})
         /\ rules[i] = Ours(p) => Matches(p)' = {}
<1> DEFINE at(m) == IF m < i THEN m ELSE m + 1
<1>1. /\ DOMAIN rules' = 1..(Len(rules) - 1)
      /\ \A m \in 1..(Len(rules) - 1) : rules'[m] = rules[at(m)]
  BY WithoutIs
<1>2. Len(rules) \in Nat /\ DOMAIN rules = 1..Len(rules) /\ i \in 1..Len(rules)
  OBVIOUS
<1>3. ASSUME NEW m \in 1..(Len(rules) - 1)
      PROVE  at(m) \in 1..Len(rules) /\ at(m) # i
  BY <1>2
<1>4. ASSUME NEW m \in 1..(Len(rules) - 1), NEW n \in 1..(Len(rules) - 1), at(m) = at(n)  PROVE m = n
  BY <1>2, <1>4
<1>5. ASSUME NEW k \in 1..Len(rules), k # i  PROVE \E m \in 1..(Len(rules) - 1) : at(m) = k
  <2>1. CASE k < i
    <3>1. k \in 1..(Len(rules) - 1) /\ at(k) = k
      BY <1>2, <2>1
    <3> QED BY <3>1
  <2>2. CASE k > i
    <3>1. k - 1 \in 1..(Len(rules) - 1) /\ at(k - 1) = k
      BY <1>2, <2>2
    <3> QED BY <3>1
  <2> QED BY <1>2, <1>5, <2>1, <2>2
<1> HIDE DEF at
<1>6. Matches(p)' = {m \in 1..(Len(rules) - 1) : rules[at(m)] = Ours(p)}
  BY <1>1 DEF Matches, Ours
<1>7. Matches(p) = {k \in 1..Len(rules) : rules[k] = Ours(p)}
  BY <1>2 DEF Matches
<1>8. ASSUME NEW m \in Matches(p)'  PROVE at(m) \in Matches(p) /\ at(m) # i
  BY <1>3, <1>6, <1>7
<1>9. AtMostOne(Matches(p)')
  BY <1>4, <1>6, <1>8 DEF AtMostOne
<1>10. ASSUME rules[i] # Ours(p), NEW k \in Matches(p)  PROVE Matches(p)' # {}
  BY <1>5, <1>6, <1>7, <1>10
<1>11. ASSUME rules[i] = Ours(p)  PROVE Matches(p)' = {}
  <2>1. i \in Matches(p)
    BY <1>2, <1>7, <1>11
  <2> QED BY <1>8, <2>1 DEF AtMostOne
<1> QED BY <1>8, <1>9, <1>10, <1>11

\* ufw takes the operator's rule of a port for the daemon's.
LEMMA RelabelMatches ==
  ASSUME rules \in Seq(Rule), NEW u \in PortSet, NEW i \in TheirsAt(u),
         rules' = [rules EXCEPT ![i] = Ours(u)], NEW p
  PROVE  /\ p # u => Matches(p)' = Matches(p)
         /\ p = u => Matches(p)' = Matches(p) \cup {i}
<1>1. i \in DOMAIN rules /\ rules[i] = Theirs(u)
  BY TheirsInRules
<1>2. /\ DOMAIN rules' = DOMAIN rules /\ rules'[i] = Ours(u)
      /\ \A k \in DOMAIN rules \ {i} : rules'[k] = rules[k]
  BY <1>1
<1>3. Theirs(u) # Ours(p) /\ (Ours(u) = Ours(p) <=> u = p)
  BY DEF Theirs, Ours
<1>4. \A k \in DOMAIN rules : k \in Matches(p)' <=> rules'[k] = Ours(p)
  BY <1>2 DEF Matches, Ours
<1> QED BY <1>1, <1>2, <1>3, <1>4 DEF Matches

LEMMA OtherPort ==
  ASSUME NEW p \in PortSet, NEW u \in PortSet, u # p, NEW c \in Call, NEW c2 \in After(c),
         Runs(u, c, c2), rules \in Seq(Rule), ~renumbered', AtMostOne(Matches(p))
  PROVE  AtMostOne(Matches(p)') /\ (Matches(p)' # {} <=> Matches(p) # {})
<1>1. CASE UNCHANGED rules
  BY <1>1 DEF Matches, Ours
<1>2. CASE rules' = Append(rules, Ours(u))
  <2>1. Ours(u) \in Rule /\ Ours(u) # Ours(p)
    BY DEF Ours, Rule
  <2> QED BY <1>2, <2>1, AppendMatches
<1>3. ASSUME NEW i \in Matches(u), rules' = Without(i)
      PROVE  AtMostOne(Matches(p)') /\ (Matches(p)' # {} <=> Matches(p) # {})
  <2>1. i \in DOMAIN rules /\ rules[i] # Ours(p)
    BY DEF Matches, Ours
  <2> QED BY <1>3, <2>1, WithoutMatches
<1>5. CASE \E i \in TheirsAt(u) : rules' = [rules EXCEPT ![i] = Ours(u)]
  BY <1>5, RelabelMatches
<1>4. CASE DeletesNumber(u, c, c2)
  <2>1. c.number \in Matches(u)
    BY <1>4 DEF DeletesNumber
  <2>2. rules' = Without(c.number)
    <3>1. c.number \in 1..Len(rules)
      BY <2>1 DEF Matches
    <3> QED BY <1>4, <3>1 DEF DeletesNumber
  <2> QED BY <1>3, <2>1, <2>2
<1> QED BY <1>1, <1>2, <1>3, <1>4, <1>5 DEF Runs, Opens, Allows, FindsNumber, DeletesSpec, Refuses, First

\* The call of the port itself: an open ends with the port open, a close with
\* it closed, and until it ends an open has added nothing.
LEMMA OwnPort ==
  ASSUME NEW p \in PortSet, NEW c \in Call, NEW c2 \in After(c), Runs(p, c, c2),
         rules \in Seq(Rule), ~renumbered', AtMostOne(Matches(p)), p \notin Protected,
         backend # "unsupported", c.does = "open" => Matches(p) = {}
  PROVE  /\ AtMostOne(Matches(p)')
         /\ c.does = "open" => (Matches(p)' # {} <=> c2 = NoCall)
         /\ c.does = "close" /\ c2 = NoCall => Matches(p)' = {}
         /\ c2 # NoCall => c2.does = c.does
<1>1. CASE Opens(p, c, c2)
  <2>1. c.does = "open" /\ Matches(p) = {}
    BY <1>1 DEF Opens
  <2>2. CASE UNCHANGED rules /\ c2 = [c EXCEPT !.at = "checked"]
    <3>1. Matches(p)' = {}
      BY <2>1, <2>2 DEF Matches, Ours
    <3>2. c2.does = "open" /\ c2 # NoCall
      BY <2>1, <2>2 DEF Call, NoCall
    <3> QED BY <2>1, <3>1, <3>2 DEF AtMostOne
  <2>3. CASE rules' = Append(rules, Ours(p)) /\ c2 = NoCall
    <3>1. Ours(p) \in Rule
      BY DEF Ours, Rule
    <3>2. Matches(p)' = {Len(rules) + 1}
      BY <2>1, <2>3, <3>1, AppendMatches
    <3> QED BY <2>1, <2>3, <3>2 DEF AtMostOne
  <2>4. ASSUME NEW i \in TheirsAt(p), rules' = [rules EXCEPT ![i] = Ours(p)], c2 = NoCall
        PROVE  AtMostOne(Matches(p)') /\ Matches(p)' # {}
    <3>1. Matches(p)' = Matches(p) \cup {i}
      BY <2>4, RelabelMatches
    <3> QED BY <2>1, <3>1 DEF AtMostOne
  <2> QED BY <1>1, <2>1, <2>2, <2>3, <2>4 DEF Opens, Allows
<1>2. ASSUME NEW i \in Matches(p), rules' = Without(i)  PROVE Matches(p)' = {}
  <2>1. i \in DOMAIN rules /\ rules[i] = Ours(p)
    BY DEF Matches
  <2> QED BY <1>2, <2>1, WithoutMatches
<1>3. CASE FindsNumber(p, c, c2)
  <2>1. Matches(p)' = Matches(p)
    BY <1>3 DEF FindsNumber, Matches, Ours
  <2>2. c.does = "close" /\ (Matches(p) = {} \/ \E i \in DOMAIN rules : c2 = [c EXCEPT !.at = "found", !.number = i])
    BY <1>3 DEF FindsNumber
  <2>3. ASSUME NEW i \in DOMAIN rules, c2 = [c EXCEPT !.at = "found", !.number = i]
        PROVE  c2.does = "close" /\ c2 # NoCall
    BY <2>2, <2>3 DEF Call, NoCall
  <2> QED BY <1>3, <2>1, <2>2, <2>3 DEF FindsNumber
<1>4. CASE DeletesNumber(p, c, c2)
  <2>1. c.number \in Matches(p)
    BY <1>4 DEF DeletesNumber
  <2>2. rules' = Without(c.number)
    <3>1. c.number \in 1..Len(rules)
      BY <2>1 DEF Matches
    <3> QED BY <1>4, <3>1 DEF DeletesNumber
  <2> QED BY <1>2, <1>4, <2>1, <2>2 DEF DeletesNumber, AtMostOne
<1>5. CASE DeletesSpec(p, c, c2)
  <2>1. Matches(p)' = {}
    <3>1. CASE Matches(p) = {} /\ UNCHANGED rules
      BY <3>1 DEF Matches, Ours
    <3> QED BY <1>2, <1>5, <3>1 DEF DeletesSpec, First
  <2> QED BY <1>5, <2>1 DEF DeletesSpec, AtMostOne
<1>6. ~Refuses(p, c, c2)
  BY DEF Refuses, Guarded
<1> QED BY <1>1, <1>3, <1>4, <1>5, <1>6 DEF Runs

(***************************************************************************)
(* What a step leaves alone on a port stays as it was.                      *)
(***************************************************************************)
SameRows(p) ==
  \A s \in Slots : (LiveSlot(s) /\ slot[s].port = p) \/ (LiveSlot(s) /\ slot[s].port = p)' => slot'[s] = slot[s]
SameRequest(r, p) == ask'[r] = ask[r] /\ call'[r][p] = call[r][p]

LEMMA RowsStay ==
  ASSUME NEW p, SameRows(p)
  PROVE  SlotsAt(p)' = SlotsAt(p) /\ \A v : p \in PortsOf(v)' <=> p \in PortsOf(v)
<1>1. SlotsAt(p)' = SlotsAt(p)
  BY DEF SameRows, SlotsAt, LiveSlot
<1>2. ASSUME NEW v, p \in PortsOf(v)  PROVE p \in PortsOf(v)'
  <2>1. PICK s \in Slots : LiveSlot(s) /\ slot[s].server = v /\ slot[s].port = p
    BY <1>2 DEF PortsOf, SlotsOf
  <2>2. slot'[s] = slot[s]
    BY <2>1 DEF SameRows
  <2> QED BY <2>1, <2>2 DEF PortsOf, SlotsOf, LiveSlot
<1>3. ASSUME NEW v, p \in PortsOf(v)'  PROVE p \in PortsOf(v)
  <2>1. PICK s \in Slots : (LiveSlot(s) /\ slot[s].server = v /\ slot[s].port = p)'
    BY <1>3 DEF PortsOf, SlotsOf
  <2>2. slot'[s] = slot[s]
    BY <2>1 DEF SameRows
  <2> QED BY <2>1, <2>2 DEF PortsOf, SlotsOf, LiveSlot
<1> QED BY <1>1, <1>2, <1>3

LEMMA OnStays ==
  ASSUME NEW p, SameRows(p), NEW q \in Askers, SameRequest(q, p)
  PROVE  On(q, p)' <=> On(q, p)
BY RowsStay DEF SameRequest, On

LEMMA Untouched ==
  ASSUME NEW p \in PortSet, PortOK(p), SameRows(p),
         \A l \in late' : l[1] = p => l \in late,
         AtMostOne(Matches(p)'), Matches(p)' # {} <=> Matches(p) # {},
         \A q \in Askers : SameRequest(q, p) \/ (~On(q, p) /\ ~On(q, p)')
  PROVE  PortOK(p)'
<1>1. \A q \in Askers : On(q, p)' => On(q, p) /\ SameRequest(q, p)
  BY OnStays
<1>2. \A q \in Askers : On(q, p) => On(q, p)'
  BY OnStays
<1>3. (IsOpen(p)' <=> IsOpen(p)) /\ (IsHeld(p)' <=> IsHeld(p)) /\ SlotsAt(p)' = SlotsAt(p)
  BY RowsStay DEF IsOpen, IsHeld
<1>4. ASSUME NEW q \in Askers, On(q, p)'  PROVE Phase(q, p)'
  <2>1. Phase(q, p) /\ ask'[q] = ask[q] /\ call'[q][p] = call[q][p]
    BY <1>1, <1>4 DEF PortOK, SameRequest
  <2>2. p \in PortsOf(ask[q].server)' <=> p \in PortsOf(ask[q].server)
    BY <2>1, RowsStay
  <2> QED BY <1>3, <2>1, <2>2 DEF Phase, Takes, Gives, Quiet
<1>5. (\A r \in Askers : ~On(r, p)') => (IsOpen(p)' <=> IsHeld(p)')
  BY <1>2, <1>3 DEF PortOK
<1> QED BY <1>1, <1>4, <1>5 DEF PortOK

\* A port with no request on it, and with one request on it.
LEMMA AtRest ==
  ASSUME NEW p \in PortSet, \A l \in late' : l[1] # p, AtMostOne(Matches(p)'),
         \A q \in Askers : ~On(q, p)', IsOpen(p)' <=> IsHeld(p)'
  PROVE  PortOK(p)'
BY DEF PortOK

LEMMA OneOn ==
  ASSUME NEW p \in PortSet, \A l \in late' : l[1] # p, AtMostOne(Matches(p)'),
         NEW r \in Askers, On(r, p)', \A q \in Askers \ {r} : ~On(q, p)', Phase(r, p)'
  PROVE  PortOK(p)'
BY DEF PortOK

\* The shape of a request tells what it is about.
LEMMA Shapes ==
  ASSUME RowsOK, AsksOK, NEW r \in Askers
  PROVE  /\ ask[r] \in Ask
         /\ ask[r].at = "insert" => ask[r].does \in {"reserve", "create"} /\ ask[r].port \in PortSet
         /\ ask[r].at = "send" => ask[r].does \in {"reserve", "create", "release"} /\ ask[r].port \in PortSet
         /\ ask[r].at = "list" => ask[r].does = "remove"
         /\ ask[r].at = "wait" => ask[r].does \in {"reserve", "create", "release", "remove"}
         /\ ask[r].at # "wait" => \A p \in PortSet : call[r][p] = NoCall
         /\ ask[r] = NoAsk => \A p \in PortSet : ~On(r, p)
<1>1. ask[r] \in Ask /\ AskShape(ask[r]) /\ \A p \in PortSet : CallFits(r, p)
  BY DEF RowsOK, AsksOK
<1>2. NoAsk.does = "none" /\ NoAsk.at = "idle" /\ NoAsk.port = Nobody
  BY DEF NoAsk
<1>3. ask[r].does \in {"none", "reserve", "release", "create", "remove"}
  BY <1>1 DEF Ask
<1>4. ask[r].at # "wait" => \A p \in PortSet : call[r][p] = NoCall
  BY <1>1 DEF CallFits
<1>5. ask[r] = NoAsk => \A p \in PortSet : ~On(r, p)
  BY <1>2 DEF On
<1> QED BY <1>1, <1>2, <1>3, <1>4, <1>5 DEF AskShape

\* Nobody else is on the port of a request.
LEMMA OthersOff ==
  ASSUME NEW p \in PortSet, PortOK(p), SameRows(p), NEW r \in Askers, On(r, p),
         \A q \in Askers \ {r} : SameRequest(q, p)
  PROVE  \A q \in Askers \ {r} : ~On(q, p)'
BY OnStays DEF PortOK

(***************************************************************************)
(* The steps of the firewall.                                               *)
(***************************************************************************)
LEMMA SameKind ==
  ASSUME NEW p, NEW c \in Call, NEW c2 \in After(c), Runs(p, c, c2)
  PROVE  c # NoCall /\ (c2 # NoCall => c2.does = c.does)
<1>1. c.does # "none"
  BY DEF Runs, Opens, FindsNumber, DeletesNumber, DeletesSpec, Refuses
<1>2. c2 # NoCall => c2.does = c.does
  BY DEF After, Call
<1> QED BY <1>1, <1>2 DEF NoCall

LEMMA ServeRows ==
  ASSUME PortsInv, RowsOK, AsksOK, NEW r \in Askers, NEW u \in PortSet, Serve(r, u)
  PROVE  RowsOK' /\ AsksOK'
<1> USE DEF PortsInv
<1>1. PICK c2 \in After(call[r][u]) : Runs(u, call[r][u], c2) /\ call' = [call EXCEPT ![r][u] = c2]
  BY DEF Serve
<1>2. call[r][u] # NoCall /\ (c2 # NoCall => c2.does = call[r][u].does)
  BY <1>1, SameKind DEF CallsOK
<1>3. UNCHANGED <<slot, server, ask, crossed>>
  BY DEF Serve
<1>4. RowsOK'
  BY <1>3 DEF RowsOK, LiveSlot
<1>5. ASSUME NEW q \in Askers, NEW p \in PortSet  PROVE CallFits(q, p)'
  <2>1. CallFits(q, p)
    BY DEF AsksOK
  <2>2. CASE q = r /\ p = u
    <3>1. call'[q][p] = c2
      BY <1>1, <2>2 DEF CallsOK
    <3> QED BY <1>2, <1>3, <2>1, <2>2, <3>1 DEF CallFits
  <2>3. CASE ~(q = r /\ p = u)
    <3>1. call'[q][p] = call[q][p]
      BY <1>1, <2>3 DEF CallsOK
    <3> QED BY <1>3, <2>1, <3>1 DEF CallFits
  <2> QED BY <2>2, <2>3
<1> QED BY <1>3, <1>4, <1>5 DEF AsksOK, AskShape

LEMMA ServePorts ==
  ASSUME PortsInv, LockInv, NEW r \in Askers, NEW u \in PortSet, Serve(r, u),
         NEW p \in PortSet, Watched(p)'
  PROVE  PortOK(p)'
<1> USE DEF PortsInv, LockInv
<1>1. PICK c2 \in After(call[r][u]) : Runs(u, call[r][u], c2) /\ call' = [call EXCEPT ![r][u] = c2]
  BY DEF Serve
<1>2. /\ call[r][u] \in Call /\ call[r][u] # NoCall /\ rules \in Seq(Rule)
      /\ c2 # NoCall => c2.does = call[r][u].does
      /\ renumbered => renumbered'
  <2>1. call[r][u] \in Call /\ rules \in Seq(Rule) /\ Aimed(u, call[r][u])
    BY DEF CallsOK, AimsOK
  <2> QED BY <1>1, <2>1, SameKind, RunsKeep
<1>3. UNCHANGED <<slot, server, ask, late, backend, crossed>>
  BY DEF Serve
<1>4. Watched(p) /\ PortOK(p) /\ ~renumbered' /\ SameRows(p) /\ AtMostOne(Matches(p))
  BY <1>2, <1>3 DEF Watched, SameRows, LiveSlot, PortOK
<1>5. CASE p # u
  <2>1. AtMostOne(Matches(p)') /\ (Matches(p)' # {} <=> Matches(p) # {})
    BY <1>1, <1>2, <1>4, <1>5, OtherPort
  <2>2. \A q \in Askers : SameRequest(q, p)
    BY <1>1, <1>3, <1>5 DEF SameRequest, CallsOK
  <2> QED BY <1>3, <1>4, <2>1, <2>2, Untouched
<1>6. CASE p = u
  <2> DEFINE c == call[r][p]
  <2>1. /\ ask[r].at = "wait" /\ (ask[r].does = "remove" \/ ask[r].port = p)
        /\ c.does = IF Gives(r) THEN "close" ELSE "open"
    <3>1. CallFits(r, p)
      BY DEF AsksOK
    <3> QED BY <1>2, <1>6, <3>1 DEF CallFits, Gives
  <2>2. On(r, p)
    BY <1>2, <1>6, <2>1 DEF On
  <2>3. Phase(r, p) /\ call'[r][p] = c2 /\ ask' = ask
    BY <1>1, <1>3, <1>4, <1>6, <2>2 DEF PortOK, CallsOK
  <2>4. Takes(r) \/ Gives(r)
    BY <2>1, Shapes DEF Takes, Gives
  <2>5. c.does = "open" => Matches(p) = {}
    BY <1>2, <1>6, <2>1, <2>3, <2>4 DEF Phase, Quiet, IsOpen
  <2>6. /\ AtMostOne(Matches(p)')
        /\ c.does = "open" => (Matches(p)' # {} <=> c2 = NoCall)
        /\ c.does = "close" /\ c2 = NoCall => Matches(p)' = {}
    BY <1>1, <1>2, <1>4, <1>6, <2>5, OwnPort DEF Watched
  <2>7. \A q \in Askers \ {r} : SameRequest(q, p)
    BY <1>1, <1>3 DEF SameRequest, CallsOK
  <2>8. \A q \in Askers \ {r} : ~On(q, p)'
    BY <1>4, <2>2, <2>7, OthersOff
  <2>9. /\ SlotsAt(p)' = SlotsAt(p)
        /\ p \in PortsOf(ask[r].server)' <=> p \in PortsOf(ask[r].server)
    BY <1>4, <2>3, RowsStay
  <2>10. Phase(r, p)'
    BY <2>1, <2>3, <2>4, <2>6, <2>9 DEF Phase, Takes, Gives, Quiet, IsOpen, IsHeld
  <2>11. On(r, p)'
    BY <2>1, <2>3, <2>9 DEF On, Phase
  <2> QED BY <1>3, <1>4, <2>6, <2>8, <2>10, <2>11, OneOn DEF PortOK
<1> QED BY <1>5, <1>6

LEMMA ServeLatePorts ==
  ASSUME PortsInv, LockInv, NEW l \in late, ServeLate(l[1], l[2]), NEW p \in PortSet, Watched(p)'
  PROVE  PortOK(p)'
<1> USE DEF PortsInv, LockInv
<1>1. PICK c2 \in After(l[2]) :
        /\ Runs(l[1], l[2], c2)
        /\ late' = (late \ {<<l[1], l[2]>>}) \cup (IF c2 = NoCall THEN {} ELSE {<<l[1], c2>>})
  BY DEF ServeLate
<1>2. /\ l[1] \in PortSet /\ l[2] \in Call /\ rules \in Seq(Rule)
      /\ renumbered => renumbered'
  <2>1. l[1] \in PortSet /\ l[2] \in Call /\ rules \in Seq(Rule) /\ Aimed(l[1], l[2])
    BY DEF CallsOK, AimsOK
  <2> QED BY <1>1, <2>1, RunsKeep
<1>3. UNCHANGED <<slot, server, ask, call, backend, crossed>>
  BY DEF ServeLate
<1>4. Watched(p) /\ PortOK(p) /\ ~renumbered' /\ SameRows(p) /\ AtMostOne(Matches(p))
  BY <1>2, <1>3 DEF Watched, SameRows, LiveSlot, PortOK
<1>5. p # l[1]
  BY <1>4 DEF PortOK
<1>6. AtMostOne(Matches(p)') /\ (Matches(p)' # {} <=> Matches(p) # {})
  BY <1>1, <1>2, <1>4, <1>5, OtherPort
<1>7. \A k \in late' : k[1] = p => k \in late
  BY <1>1, <1>5
<1> QED BY <1>3, <1>4, <1>6, <1>7, Untouched DEF SameRequest

LEMMA CallEndsPorts ==
  ASSUME PortsInv, LockInv, NEW r \in Askers, NEW u \in PortSet, CallFails(r, u) \/ CallTimesOut(r, u),
         NEW p \in PortSet, Watched(p)'
  PROVE  PortOK(p)'
<1> USE DEF PortsInv, LockInv
<1>1. /\ call' = [call EXCEPT ![r][u] = NoCall] /\ crossed' = crossed \cup {u}
      /\ UNCHANGED <<slot, server, ask, backend, rules, renumbered>>
      /\ late' \subseteq late \cup {<<u, call[r][u]>>}
  BY DEF CallFails, CallTimesOut
<1>2. p # u /\ Watched(p) /\ PortOK(p) /\ SameRows(p)
  BY <1>1 DEF Watched, SameRows, LiveSlot
<1>3. Matches(p)' = Matches(p)
  BY <1>1 DEF Matches, Ours
<1>4. \A q \in Askers : SameRequest(q, p)
  BY <1>1, <1>2 DEF SameRequest, CallsOK
<1>5. \A k \in late' : k[1] = p => k \in late
  BY <1>1, <1>2
<1> QED BY <1>2, <1>3, <1>4, <1>5, Untouched DEF PortOK

LEMMA CallEndsRows ==
  ASSUME PortsInv, RowsOK, AsksOK, NEW r \in Askers, NEW u \in PortSet,
         CallFails(r, u) \/ CallTimesOut(r, u)
  PROVE  RowsOK' /\ AsksOK'
<1> USE DEF PortsInv
<1>1. /\ call' = [call EXCEPT ![r][u] = NoCall] /\ crossed' = crossed \cup {u}
      /\ UNCHANGED <<slot, server, ask>>
  BY DEF CallFails, CallTimesOut
<1>2. RowsOK'
  BY <1>1 DEF RowsOK, LiveSlot
<1>3. ASSUME NEW q \in Askers, NEW p \in PortSet  PROVE CallFits(q, p)'
  <2>1. CallFits(q, p) /\ (call'[q][p] = NoCall \/ call'[q][p] = call[q][p])
    BY <1>1 DEF AsksOK, CallsOK
  <2> QED BY <1>1, <2>1 DEF CallFits
<1> QED BY <1>1, <1>2, <1>3 DEF AsksOK, AskShape

(***************************************************************************)
(* The steps of the panel's requests.                                       *)
(***************************************************************************)
\* A new request, of the shape of its kind.
LEMMA Begins ==
  ASSUME PortsInv, RowsOK, AsksOK, NEW r \in Askers, NEW a \in Ask, Asks(r, a),
         UNCHANGED <<slot, call>>, AskShape(a)',
         server' \in [GameServers -> {"unborn", "live", "gone"}],
         \A v \in GameServers : server[v] # "unborn" => server'[v] # "unborn",
         crossed \subseteq crossed',
         \A q \in Askers : a.does = "remove" /\ ask[q].does = "create" /\ a.server = ask[q].server
           => ask[q].port \in crossed',
         \A q \in Askers : a.does = "create" /\ ask[q].does = "remove" => a.server # ask[q].server
  PROVE  RowsOK' /\ AsksOK'
<1>1. ask[r] = NoAsk /\ \A q \in Askers : ask'[q] = IF q = r THEN a ELSE ask[q]
  BY DEF RowsOK, Asks
<1>2. RowsOK'
  BY DEF RowsOK, LiveSlot, Asks
<1>3. ASSUME NEW q \in Askers  PROVE AskShape(ask[q])'
  <2>1. CASE q = r
    BY <1>1, <2>1 DEF AskShape
  <2>2. CASE q # r
    <3>1. AskShape(ask[q]) /\ ask'[q] = ask[q]
      BY <1>1, <2>2 DEF AsksOK
    <3> QED BY <3>1 DEF AskShape
  <2> QED BY <2>1, <2>2
<1>4. ASSUME NEW q \in Askers, NEW p \in PortSet  PROVE CallFits(q, p)'
  <2>1. CASE q = r
    <3>1. call'[q][p] = NoCall
      BY <1>1, <2>1, Shapes DEF NoAsk
    <3> QED BY <3>1 DEF CallFits
  <2>2. CASE q # r
    <3>1. CallFits(q, p) /\ ask'[q] = ask[q]
      BY <1>1, <2>2 DEF AsksOK
    <3> QED BY <3>1 DEF CallFits
  <2> QED BY <2>1, <2>2
<1>5. a.does = "create" => a.does # "remove"
  OBVIOUS
<1> QED BY <1>1, <1>2, <1>3, <1>4, <1>5 DEF AsksOK

LEMMA CreateRows ==
  ASSUME PortsInv, RowsOK, AsksOK, NEW r \in Askers, NEW u \in PortSet, CreateAllocation(r, u)
  PROVE  RowsOK' /\ AsksOK'
<1> DEFINE a == [NoAsk EXCEPT !.does = "reserve", !.at = "insert", !.port = u]
<1>1. /\ a \in Ask /\ a.does = "reserve" /\ a.at = "insert" /\ a.port = u /\ a.server = Nobody
      /\ Asks(r, a) /\ UNCHANGED <<slot, call, server>> /\ crossed \subseteq crossed'
  BY DEF CreateAllocation, NoAsk, Ask, Meets
<1>2. AskShape(a)'
  BY <1>1 DEF AskShape
<1> HIDE DEF a
<1> QED BY <1>1, <1>2, Begins DEF RowsOK

LEMMA DeployRows ==
  ASSUME PortsInv, RowsOK, AsksOK, NEW r \in Askers, NEW u \in PortSet, NEW v \in GameServers,
         DeployServer(r, v, u)
  PROVE  RowsOK' /\ AsksOK'
<1> DEFINE a == [NoAsk EXCEPT !.does = "create", !.at = "insert", !.port = u, !.server = v]
<1>1. /\ a \in Ask /\ a.does = "create" /\ a.at = "insert" /\ a.port = u /\ a.server = v
      /\ Asks(r, a) /\ UNCHANGED <<slot, call>> /\ crossed \subseteq crossed'
      /\ server[v] = "unborn" /\ server' = [server EXCEPT ![v] = "live"]
  BY DEF DeployServer, NoAsk, Ask, Meets
<1>2. AskShape(a)'
  BY <1>1 DEF AskShape, RowsOK
<1>3. \A q \in Askers : ask[q].does = "remove" => v # ask[q].server
  BY <1>1 DEF AsksOK, AskShape
<1> HIDE DEF a
<1> QED BY <1>1, <1>2, <1>3, Begins DEF RowsOK

LEMMA ReleaseRows ==
  ASSUME PortsInv, RowsOK, AsksOK, NEW r \in Askers, NEW s \in Slots, RemoveAllocation(r, s)
  PROVE  RowsOK' /\ AsksOK'
<1> DEFINE a == [NoAsk EXCEPT !.does = "release", !.at = "send", !.port = slot[s].port, !.slot = s]
<1>1. slot[s] \in Slot /\ slot[s].is = "live" /\ slot[s].server = Nobody /\ slot[s].port \in PortSet
  BY DEF RemoveAllocation, LiveSlot, RowsOK
<1>2. /\ a \in Ask /\ a.does = "release" /\ a.at = "send" /\ a.port = slot[s].port /\ a.slot = s
      /\ Asks(r, a) /\ UNCHANGED <<slot, call, server>> /\ crossed \subseteq crossed'
  BY <1>1 DEF RemoveAllocation, NoAsk, Ask, Meets
<1> HIDE DEF a
<1>3. ASSUME NEW b, b = a  PROVE AskShape(b)'
  BY <1>1, <1>2, <1>3 DEF AskShape
<1>4. PICK b : b = a
  OBVIOUS
<1> QED BY <1>2, <1>3, <1>4, Begins DEF RowsOK

LEMMA RemoveRows ==
  ASSUME PortsInv, RowsOK, AsksOK, NEW r \in Askers, NEW v \in GameServers, RemoveServer(r, v)
  PROVE  RowsOK' /\ AsksOK'
<1> DEFINE a == [NoAsk EXCEPT !.does = "remove", !.at = "list", !.server = v]
<1>1. /\ a \in Ask /\ a.does = "remove" /\ a.at = "list" /\ a.port = Nobody /\ a.server = v
      /\ Asks(r, a) /\ UNCHANGED <<slot, call, server>> /\ crossed \subseteq crossed'
      /\ server[v] = "live"
  BY DEF RemoveServer, NoAsk, Ask, Meets
<1>2. AskShape(a)'
  BY <1>1 DEF AskShape
<1>3. ASSUME NEW q \in Askers, ask[q].does = "create", v = ask[q].server  PROVE ask[q].port \in crossed'
  <2>1. ask[q].port \in PortSet
    BY <1>3 DEF AsksOK, AskShape
  <2>2. ask[q].port \in Claimed(v) /\ Busy(ask[q].port)
    BY <1>3, <2>1 DEF Claimed, Busy, On
  <2> QED BY <2>2 DEF RemoveServer, Meets
<1> HIDE DEF a
<1> QED BY <1>1, <1>2, <1>3, Begins DEF RowsOK

LEMMA SendRows ==
  ASSUME PortsInv, RowsOK, AsksOK, NEW r \in Askers, Send(r)
  PROVE  RowsOK' /\ AsksOK'
<1> DEFINE w == Sent(IF ask[r].does = "release" THEN "close" ELSE "open")
<1>1. /\ ask[r] \in Ask /\ ask[r].does \in {"reserve", "create", "release"} /\ ask[r].port \in PortSet
      /\ AskShape(ask[r]) /\ \A p \in PortSet : call[r][p] = NoCall
  BY Shapes DEF Send, AsksOK
<1>2. /\ ask' = [ask EXCEPT ![r].at = "wait"] /\ call' = [call EXCEPT ![r][ask[r].port] = w]
      /\ UNCHANGED <<slot, server, crossed>>
  BY DEF Send, Then
<1>3. w.does = IF ask[r].does = "release" THEN "close" ELSE "open"
  BY DEF Sent, NoCall
<1> HIDE DEF w
<1>4. RowsOK'
  <2>1. [ask[r] EXCEPT !.at = "wait"] \in Ask
    BY <1>1 DEF Ask
  <2> QED BY <1>2, <2>1 DEF RowsOK, LiveSlot
<1>5. ASSUME NEW q \in Askers  PROVE AskShape(ask[q])'
  <2>1. CASE q = r
    <3>1. ask'[q] = [ask[r] EXCEPT !.at = "wait"]
      BY <1>2, <2>1 DEF RowsOK
    <3> QED BY <1>1, <1>2, <3>1 DEF AskShape, Ask
  <2>2. CASE q # r
    <3>1. AskShape(ask[q]) /\ ask'[q] = ask[q]
      BY <1>2, <2>2 DEF AsksOK, RowsOK
    <3> QED BY <1>2, <3>1 DEF AskShape
  <2> QED BY <2>1, <2>2
<1>6. ASSUME NEW q \in Askers, NEW p \in PortSet  PROVE CallFits(q, p)'
  <2>1. CASE q = r
    <3>1. ask'[q] = [ask[r] EXCEPT !.at = "wait"] /\ call'[q][p] = IF p = ask[r].port THEN w ELSE NoCall
      BY <1>1, <1>2, <2>1 DEF RowsOK, PortsInv, CallsOK
    <3>2. ask'[q].at = "wait" /\ ask'[q].does = ask[r].does /\ ask'[q].port = ask[r].port
      BY <1>1, <3>1 DEF Ask
    <3> QED BY <1>1, <1>3, <3>1, <3>2 DEF CallFits
  <2>2. CASE q # r
    <3>1. CallFits(q, p) /\ ask'[q] = ask[q] /\ call'[q] = call[q]
      BY <1>2, <2>2 DEF AsksOK, RowsOK, PortsInv, CallsOK
    <3> QED BY <3>1 DEF CallFits
  <2> QED BY <2>1, <2>2
<1>7. \A q \in Askers : ask'[q].does = ask[q].does /\ ask'[q].server = ask[q].server /\ ask'[q].port = ask[q].port
  BY <1>2 DEF RowsOK, Ask
<1> QED BY <1>2, <1>4, <1>5, <1>6, <1>7 DEF AsksOK

LEMMA ReleasePortsRows ==
  ASSUME PortsInv, RowsOK, AsksOK, NEW r \in Askers, ReleasePorts(r)
  PROVE  RowsOK' /\ AsksOK'
<1>1. /\ ask[r] \in Ask /\ ask[r].does = "remove" /\ AskShape(ask[r])
  BY Shapes DEF ReleasePorts, AsksOK
<1>2. /\ ask' = [ask EXCEPT ![r].at = "wait"] /\ UNCHANGED <<slot, server, crossed>>
      /\ call' = [call EXCEPT ![r] =
           [p \in PortSet |-> IF p \in PortsOf(ask[r].server) THEN Sent("close") ELSE NoCall]]
  BY DEF ReleasePorts, Then
<1>3. Sent("close").does = "close"
  BY DEF Sent, NoCall
<1>4. RowsOK'
  <2>1. [ask[r] EXCEPT !.at = "wait"] \in Ask
    BY <1>1 DEF Ask
  <2> QED BY <1>2, <2>1 DEF RowsOK, LiveSlot
<1>5. ASSUME NEW q \in Askers  PROVE AskShape(ask[q])'
  <2>1. CASE q = r
    <3>1. ask'[q] = [ask[r] EXCEPT !.at = "wait"]
      BY <1>2, <2>1 DEF RowsOK
    <3> QED BY <1>1, <1>2, <3>1 DEF AskShape, Ask
  <2>2. CASE q # r
    <3>1. AskShape(ask[q]) /\ ask'[q] = ask[q]
      BY <1>2, <2>2 DEF AsksOK, RowsOK
    <3> QED BY <1>2, <3>1 DEF AskShape
  <2> QED BY <2>1, <2>2
<1>6. ASSUME NEW q \in Askers, NEW p \in PortSet  PROVE CallFits(q, p)'
  <2>1. CASE q = r
    <3>1. ask'[q] = [ask[r] EXCEPT !.at = "wait"] /\ call'[q][p] \in {Sent("close"), NoCall}
      BY <1>1, <1>2, <2>1 DEF RowsOK, PortsInv, CallsOK
    <3>2. ask'[q].at = "wait" /\ ask'[q].does = "remove"
      BY <1>1, <3>1 DEF Ask
    <3> QED BY <1>3, <3>1, <3>2 DEF CallFits
  <2>2. CASE q # r
    <3>1. CallFits(q, p) /\ ask'[q] = ask[q] /\ call'[q] = call[q]
      BY <1>2, <2>2 DEF AsksOK, RowsOK, PortsInv, CallsOK
    <3> QED BY <3>1 DEF CallFits
  <2> QED BY <2>1, <2>2
<1>7. \A q \in Askers : ask'[q].does = ask[q].does /\ ask'[q].server = ask[q].server /\ ask'[q].port = ask[q].port
  BY <1>2 DEF RowsOK, Ask
<1> QED BY <1>2, <1>4, <1>5, <1>6, <1>7 DEF AsksOK

LEMMA InsertRows ==
  ASSUME PortsInv, RowsOK, AsksOK, NEW r \in Askers, NEW s \in Slots, InsertSlot(r, s)
  PROVE  RowsOK' /\ AsksOK'
<1> DEFINE row == [is |-> "live", port |-> ask[r].port, server |-> ask[r].server]
           a == IF Reservable(r) THEN [ask[r] EXCEPT !.at = "send", !.slot = s] ELSE NoAsk
<1>1. /\ ask[r] \in Ask /\ ask[r].does \in {"reserve", "create"} /\ ask[r].port \in PortSet
      /\ AskShape(ask[r]) /\ ask[r].at = "insert" /\ \A p \in PortSet : call[r][p] = NoCall
  BY Shapes DEF InsertSlot, AsksOK
<1>2. /\ slot[s].is = "unborn" /\ ask' = [ask EXCEPT ![r] = a]
      /\ slot' = IF Reservable(r) THEN [slot EXCEPT ![s] = row] ELSE slot
      /\ UNCHANGED <<server, call, crossed>>
  <2>1. CASE Reservable(r)
    BY <2>1 DEF InsertSlot, RowsOK
  <2>2. CASE ~Reservable(r)
    BY <2>2 DEF InsertSlot, Over
  <2> QED BY <2>1, <2>2
<1>3. row \in Slot /\ row.port = ask[r].port
  BY <1>1 DEF Slot, Ask
<1> HIDE DEF row
<1>4. a \in Ask /\ a.at # "wait"
  BY <1>1 DEF Ask, NoAsk
<1>5. a = NoAsk \/ (/\ a.does = ask[r].does /\ a.server = ask[r].server
                    /\ a.port = ask[r].port /\ a.at = "send")
  BY <1>1 DEF Ask
<1> HIDE DEF a
<1>6. \A q \in Askers : ask'[q] = IF q = r THEN a ELSE ask[q]
  BY <1>2 DEF RowsOK
<1>7. \A t \in Slots : slot'[t] = slot[t] \/ (t = s /\ Reservable(r) /\ slot'[t] = row)
  BY <1>2 DEF RowsOK
<1>8. RowsOK'
  <2>1. slot' \in [Slots -> Slot] /\ ask' \in [Askers -> Ask]
    BY <1>2, <1>3, <1>4 DEF RowsOK
  <2>2. \A t \in Slots : LiveSlot(t)' => slot'[t].port \in PortSet
    BY <1>1, <1>3, <1>7 DEF RowsOK, LiveSlot
  <2>3. Reservable(r) => \A t \in Slots : LiveSlot(t) => slot[t].port # ask[r].port
    BY DEF Reservable, SlotsAt
  <2>4. \A t1, t2 \in Slots : LiveSlot(t1)' /\ LiveSlot(t2)' /\ slot'[t1].port = slot'[t2].port => t1 = t2
    BY <1>3, <1>7, <2>3 DEF RowsOK, LiveSlot
  <2> QED BY <1>2, <2>1, <2>2, <2>4 DEF RowsOK
<1>9. ASSUME NEW q \in Askers  PROVE AskShape(ask[q])'
  <2>1. CASE q = r
    <3>1. ask'[q] = a
      BY <1>6, <2>1
    <3>2. CASE a = NoAsk
      BY <3>1, <3>2 DEF AskShape, NoAsk
    <3>3. CASE a # NoAsk
      BY <1>1, <1>2, <1>5, <3>1, <3>3 DEF AskShape
    <3> QED BY <3>2, <3>3
  <2>2. CASE q # r
    <3>1. AskShape(ask[q]) /\ ask'[q] = ask[q]
      BY <1>6, <2>2 DEF AsksOK
    <3>2. ask[q].does = "release" => slot'[ask[q].slot] = slot[ask[q].slot]
      BY <1>2, <1>7, <3>1 DEF AskShape
    <3> QED BY <1>2, <3>1, <3>2 DEF AskShape
  <2> QED BY <2>1, <2>2
<1>10. ASSUME NEW q \in Askers, NEW p \in PortSet  PROVE CallFits(q, p)'
  <2>1. CallFits(q, p) /\ call'[q][p] = call[q][p]
    BY <1>2 DEF AsksOK
  <2> QED BY <1>1, <1>6, <2>1 DEF CallFits
<1>11. \A q \in Askers : ask'[q].does \in {"create", "remove"} =>
         ask'[q].does = ask[q].does /\ ask'[q].server = ask[q].server /\ ask'[q].port = ask[q].port
  BY <1>5, <1>6 DEF NoAsk
<1> QED BY <1>2, <1>8, <1>9, <1>10, <1>11 DEF AsksOK

LEMMA ConcludeRows ==
  ASSUME PortsInv, RowsOK, AsksOK, NEW r \in Askers, Conclude(r)
  PROVE  RowsOK' /\ AsksOK'
<1>1. /\ ask[r] \in Ask /\ AskShape(ask[r]) /\ \A p \in PortSet : call[r][p] = NoCall
      /\ ask[r].does \in {"reserve", "create", "release", "remove"}
  BY Shapes DEF Conclude, Answered, AsksOK
<1>2. /\ \A q \in Askers : ask'[q] = IF q = r THEN NoAsk ELSE ask[q]
      /\ NoAsk \in Ask /\ UNCHANGED <<call, crossed>>
  BY DEF Conclude, Over, RowsOK, NoAsk, Ask
<1>3. \/ UNCHANGED slot
      \/ \E S : slot' = [t \in Slots |-> IF t \in S THEN [slot[t] EXCEPT !.is = "gone"] ELSE slot[t]]
  BY <1>1 DEF Conclude, Gone
<1>4. \A t \in Slots : /\ slot'[t] \in Slot
                       /\ slot'[t].port = slot[t].port /\ slot'[t].server = slot[t].server
                       /\ slot'[t].is = slot[t].is \/ slot'[t].is = "gone"
  BY <1>3 DEF RowsOK, Slot
<1>5. slot' \in [Slots -> Slot]
  <2>1. slot' = [t \in Slots |-> slot'[t]]
    BY <1>3 DEF RowsOK
  <2> QED BY <1>4, <2>1
<1>6. /\ server' \in [GameServers -> {"unborn", "live", "gone"}]
      /\ \A v \in GameServers : server[v] # "unborn" => server'[v] # "unborn"
  BY <1>1 DEF Conclude, RowsOK
<1>7. RowsOK'
  <2>1. ask' \in [Askers -> Ask]
    BY <1>2 DEF RowsOK, Conclude, Over
  <2> QED BY <1>4, <1>5, <1>6, <2>1 DEF RowsOK, LiveSlot
<1>8. ASSUME NEW q \in Askers  PROVE AskShape(ask[q])'
  <2>1. CASE q = r
    BY <1>2, <2>1 DEF AskShape, NoAsk
  <2>2. CASE q # r
    <3>1. AskShape(ask[q]) /\ ask'[q] = ask[q]
      BY <1>2, <2>2 DEF AsksOK
    <3> QED BY <1>4, <1>6, <3>1 DEF AskShape
  <2> QED BY <2>1, <2>2
<1>9. ASSUME NEW q \in Askers, NEW p \in PortSet  PROVE CallFits(q, p)'
  <2>1. CallFits(q, p) /\ call'[q][p] = call[q][p]
    BY <1>2 DEF AsksOK
  <2> QED BY <1>1, <1>2, <2>1 DEF CallFits
<1>10. \A q \in Askers : ask'[q].does \in {"create", "remove"} => ask'[q] = ask[q]
  BY <1>2 DEF NoAsk
<1> QED BY <1>2, <1>7, <1>8, <1>9, <1>10 DEF AsksOK

LEMMA RowsStep ==
  ASSUME PortsInv, RowsOK, AsksOK, [PortsNext]_portsVars
  PROVE  RowsOK' /\ AsksOK'
<1>1. CASE UNCHANGED portsVars
  BY <1>1 DEF portsVars, RowsOK, AsksOK, LiveSlot, AskShape, CallFits
<1>2. ASSUME NEW l \in late, ServeLate(l[1], l[2])  PROVE RowsOK' /\ AsksOK'
  BY <1>2 DEF ServeLate, RowsOK, AsksOK, LiveSlot, AskShape, CallFits
<1> QED BY <1>1, <1>2, ServeRows, CallEndsRows, CreateRows, DeployRows, InsertRows, ReleaseRows, SendRows,
           RemoveRows, ReleasePortsRows, ConcludeRows DEF PortsNext

\* What a step of the panel's requests leaves alone.
LEMMA PanelKeeps ==
  ASSUME PortsInv, LockInv, UNCHANGED <<late, backend, rules, renumbered>>, crossed \subseteq crossed',
         NEW p \in PortSet, Watched(p)'
  PROVE  /\ Watched(p) /\ PortOK(p) /\ Matches(p)' = Matches(p) /\ AtMostOne(Matches(p)')
         /\ \A l \in late' : l[1] # p
         /\ IsOpen(p)' <=> IsOpen(p)
<1>1. Watched(p) /\ PortOK(p)
  BY DEF Watched, LockInv
<1>2. Matches(p)' = Matches(p)
  BY DEF Matches, Ours
<1> QED BY <1>1, <1>2 DEF PortOK, IsOpen

\* A request that begins on a port meets nobody there, or the port is crossed.
LEMMA NobodyThere ==
  ASSUME PortsInv, LockInv, NEW P, Meets(P), NEW p \in PortSet, p \in P, Watched(p)'
  PROVE  \A q \in Askers : ~On(q, p)
BY DEF Meets, Watched, Busy

LEMMA ReservesPorts ==
  ASSUME PortsInv, LockInv, NEW r \in Askers, NEW u \in PortSet,
         CreateAllocation(r, u) \/ \E v \in GameServers : DeployServer(r, v, u),
         NEW p \in PortSet, Watched(p)'
  PROVE  PortOK(p)'
<1> USE DEF LockInv
<1>1. PICK a \in Ask : /\ Asks(r, a) /\ a.does \in {"reserve", "create"} /\ a.at = "insert" /\ a.port = u
  <2>1. CASE CreateAllocation(r, u)
    <3> DEFINE b == [NoAsk EXCEPT !.does = "reserve", !.at = "insert", !.port = u]
    <3>1. b \in Ask /\ b.does = "reserve" /\ b.at = "insert" /\ b.port = u
      BY DEF NoAsk, Ask
    <3>2. Asks(r, b)
      BY <2>1 DEF CreateAllocation
    <3> HIDE DEF b
    <3> QED BY <3>1, <3>2
  <2>2. ASSUME NEW v \in GameServers, DeployServer(r, v, u)
        PROVE  \E a \in Ask : /\ Asks(r, a) /\ a.does \in {"reserve", "create"} /\ a.at = "insert" /\ a.port = u
    <3> DEFINE b == [NoAsk EXCEPT !.does = "create", !.at = "insert", !.port = u, !.server = v]
    <3>1. b \in Ask /\ b.does = "create" /\ b.at = "insert" /\ b.port = u
      BY DEF NoAsk, Ask
    <3>2. Asks(r, b)
      BY <2>2 DEF DeployServer
    <3> HIDE DEF b
    <3> QED BY <3>1, <3>2
  <2> QED BY <2>1, <2>2
<1>2. Meets({u}) /\ UNCHANGED <<slot, call, late, backend, rules, renumbered>>
  BY DEF CreateAllocation, DeployServer
<1>3. ask[r] = NoAsk /\ \A q \in Askers : ask'[q] = IF q = r THEN a ELSE ask[q]
  BY <1>1 DEF RowsOK, Asks
<1>4. /\ Watched(p) /\ PortOK(p) /\ Matches(p)' = Matches(p) /\ AtMostOne(Matches(p)')
      /\ \A l \in late' : l[1] # p
      /\ IsOpen(p)' <=> IsOpen(p)
      /\ SameRows(p)
  <2>1. crossed \subseteq crossed'
    BY <1>2 DEF Meets
  <2> QED BY <1>2, <2>1, PanelKeeps DEF SameRows, LiveSlot
<1>5. \A q \in Askers \ {r} : SameRequest(q, p)
  BY <1>2, <1>3 DEF SameRequest
<1>6. ~On(r, p)
  BY <1>3, Shapes
<1>7. CASE p # u
  <2>1. ~On(r, p)'
    BY <1>1, <1>3, <1>7 DEF On
  <2> QED BY <1>4, <1>5, <1>6, <2>1, Untouched
<1>8. CASE p = u
  <2>1. \A q \in Askers : ~On(q, p)
    BY <1>2, <1>8, NobodyThere
  <2>2. \A q \in Askers \ {r} : ~On(q, p)'
    BY <1>4, <1>5, <2>1, OnStays
  <2>3. IsOpen(p) <=> IsHeld(p)
    BY <1>4, <2>1 DEF PortOK
  <2>4. SlotsAt(p)' = SlotsAt(p)
    BY <1>4, RowsStay
  <2>5. On(r, p)' /\ Phase(r, p)'
    BY <1>1, <1>3, <1>4, <1>8, <2>3, <2>4 DEF On, Phase, Takes, Gives, IsHeld
  <2> QED BY <1>4, <2>2, <2>5, OneOn
<1> QED BY <1>7, <1>8

LEMMA InsertPorts ==
  ASSUME PortsInv, LockInv, NEW r \in Askers, NEW s \in Slots, InsertSlot(r, s),
         NEW p \in PortSet, Watched(p)'
  PROVE  PortOK(p)'
<1> USE DEF LockInv
<1> DEFINE u == ask[r].port
           row == [is |-> "live", port |-> u, server |-> ask[r].server]
           a == IF Reservable(r) THEN [ask[r] EXCEPT !.at = "send", !.slot = s] ELSE NoAsk
<1>1. /\ ask[r] \in Ask /\ ask[r].does \in {"reserve", "create"} /\ ask[r].port \in PortSet
      /\ AskShape(ask[r]) /\ ask[r].at = "insert"
  BY Shapes DEF InsertSlot, AsksOK
<1>2. /\ slot[s].is = "unborn" /\ ask' = [ask EXCEPT ![r] = a]
      /\ slot' = IF Reservable(r) THEN [slot EXCEPT ![s] = row] ELSE slot
      /\ UNCHANGED <<server, call, late, backend, rules, crossed, renumbered>>
  <2>1. CASE Reservable(r)
    BY <2>1 DEF InsertSlot, RowsOK
  <2>2. CASE ~Reservable(r)
    BY <2>2 DEF InsertSlot, Over
  <2> QED BY <2>1, <2>2
<1>3. \A q \in Askers : ask'[q] = IF q = r THEN a ELSE ask[q]
  BY <1>2 DEF RowsOK
<1>4. \A t \in Slots : slot'[t] = slot[t] \/ (t = s /\ Reservable(r) /\ slot'[t] = row)
  BY <1>2 DEF RowsOK
<1>5. a = NoAsk \/ (/\ a.does = ask[r].does /\ a.server = ask[r].server
                    /\ a.port = u /\ a.at = "send")
  BY <1>1 DEF Ask
<1> HIDE DEF a
<1>6. /\ Watched(p) /\ PortOK(p) /\ Matches(p)' = Matches(p) /\ AtMostOne(Matches(p)')
      /\ \A l \in late' : l[1] # p
      /\ IsOpen(p)' <=> IsOpen(p)
  BY <1>2, PanelKeeps
<1>7. \A q \in Askers \ {r} : SameRequest(q, p)
  BY <1>2, <1>3 DEF SameRequest
<1>8. CASE p # u
  <2>1. SameRows(p)
    BY <1>2, <1>4, <1>8 DEF SameRows, LiveSlot
  <2>2. ~On(r, p)
    BY <1>1, <1>8 DEF On
  <2>3. ~On(r, p)'
    BY <1>1, <1>3, <1>5, <1>8 DEF On, NoAsk
  <2> QED BY <1>6, <1>7, <2>1, <2>2, <2>3, Untouched
<1>9. CASE p = u /\ Reservable(r)
  <2>1. On(r, p) /\ Phase(r, p)
    BY <1>6, <1>9 DEF On, PortOK
  <2>2. SlotsAt(p) = {} /\ ~IsOpen(p)
    BY <1>1, <1>9, <2>1 DEF Reservable, Phase, IsHeld
  <2>3. SlotsAt(p)' = {s} /\ slot'[s] = row
    BY <1>2, <1>4, <1>9, <2>2 DEF SlotsAt, LiveSlot, RowsOK
  <2>4. ASSUME NEW q \in Askers \ {r}, On(q, p)'  PROVE FALSE
    <3>1. ~On(q, p) /\ ask'[q] = ask[q] /\ call'[q][p] = call[q][p]
      BY <1>6, <1>7, <2>1 DEF PortOK, SameRequest
    <3>2. ask[q].does = "remove" /\ p \in PortsOf(ask[q].server)'
      BY <2>4, <3>1 DEF On
    <3>3. PICK v : v = ask[q].server
      OBVIOUS
    <3>4. p \in PortsOf(v)'
      BY <3>1, <3>2, <3>3
    <3>5. v = ask[r].server
      BY <2>3, <3>4 DEF PortsOf, SlotsOf, SlotsAt
    <3>6. v \in GameServers
      BY <3>2, <3>3 DEF AsksOK, AskShape
    <3>7. ask[r].does = "create"
      BY <1>1, <3>5, <3>6 DEF AskShape
    <3>8. p \in crossed
      BY <1>9, <3>2, <3>3, <3>5, <3>7 DEF AsksOK
    <3> QED BY <1>6, <3>8 DEF Watched
  <2>5. ask'[r] = a /\ a.does = ask[r].does /\ a.port = u /\ a.at = "send"
    <3>1. a = [ask[r] EXCEPT !.at = "send", !.slot = s]
      BY <1>9 DEF a
    <3> QED BY <1>1, <1>3, <3>1 DEF Ask
  <2>6. On(r, p)' /\ Phase(r, p)'
    BY <1>1, <1>6, <1>9, <2>2, <2>3, <2>5 DEF On, Phase, Takes, Gives, IsHeld
  <2> QED BY <1>6, <2>4, <2>6, OneOn
<1>10. CASE p = u /\ ~Reservable(r)
  <2>1. On(r, p) /\ Phase(r, p)
    BY <1>6, <1>10 DEF On, PortOK
  <2>2. SameRows(p) /\ ask'[r] = NoAsk
    BY <1>3, <1>4, <1>10 DEF SameRows, a
  <2>3. \A q \in Askers \ {r} : ~On(q, p)'
    BY <1>6, <1>7, <2>1, <2>2, OthersOff
  <2>4. ~On(r, p)'
    BY <2>2 DEF On, NoAsk
  <2>5. IsOpen(p)' <=> IsHeld(p)'
    <3>1. SlotsAt(p)' = SlotsAt(p)
      BY <2>2, RowsStay
    <3> QED BY <1>1, <1>6, <2>1, <3>1 DEF Phase, IsHeld
  <2> QED BY <1>6, <2>3, <2>4, <2>5, AtRest
<1> QED BY <1>8, <1>9, <1>10

LEMMA ReleasePortsOf ==
  ASSUME PortsInv, LockInv, NEW r \in Askers, NEW s \in Slots, RemoveAllocation(r, s),
         NEW p \in PortSet, Watched(p)'
  PROVE  PortOK(p)'
<1> USE DEF LockInv
<1> DEFINE u == slot[s].port
           a == [NoAsk EXCEPT !.does = "release", !.at = "send", !.port = u, !.slot = s]
<1>1. /\ LiveSlot(s) /\ Asks(r, a) /\ Meets({u})
      /\ UNCHANGED <<slot, server, call, late, backend, rules, renumbered>>
  BY DEF RemoveAllocation
<1>2. a.does = "release" /\ a.at = "send" /\ a.port = u /\ a.slot = s
  BY DEF NoAsk
<1> HIDE DEF a
<1>3. ask[r] = NoAsk /\ \A q \in Askers : ask'[q] = IF q = r THEN a ELSE ask[q]
  BY <1>1 DEF RowsOK, Asks
<1>4. /\ Watched(p) /\ PortOK(p) /\ Matches(p)' = Matches(p) /\ AtMostOne(Matches(p)')
      /\ \A l \in late' : l[1] # p
      /\ IsOpen(p)' <=> IsOpen(p)
      /\ SameRows(p)
  <2>1. crossed \subseteq crossed'
    BY <1>1 DEF Meets
  <2> QED BY <1>1, <2>1, PanelKeeps DEF SameRows, LiveSlot
<1>5. \A q \in Askers \ {r} : SameRequest(q, p)
  BY <1>1, <1>3 DEF SameRequest
<1>6. ~On(r, p)
  BY <1>3, Shapes
<1>7. CASE p # u
  <2>1. ~On(r, p)'
    BY <1>2, <1>3, <1>7 DEF On
  <2> QED BY <1>4, <1>5, <1>6, <2>1, Untouched
<1>8. CASE p = u
  <2>1. \A q \in Askers : ~On(q, p)
    BY <1>1, <1>8, NobodyThere
  <2>2. \A q \in Askers \ {r} : ~On(q, p)'
    BY <1>4, <1>5, <2>1, OnStays
  <2>3. IsOpen(p) <=> IsHeld(p)
    BY <1>4, <2>1 DEF PortOK
  <2>4. SlotsAt(p)' = SlotsAt(p) /\ s \in SlotsAt(p)
    BY <1>1, <1>4, <1>8, RowsStay DEF SlotsAt
  <2>5. On(r, p)' /\ Phase(r, p)'
    BY <1>2, <1>3, <1>4, <1>8, <2>3, <2>4 DEF On, Phase, Takes, Gives, IsHeld
  <2> QED BY <1>4, <2>2, <2>5, OneOn
<1> QED BY <1>7, <1>8

LEMMA SendPorts ==
  ASSUME PortsInv, LockInv, NEW r \in Askers, Send(r), NEW p \in PortSet, Watched(p)'
  PROVE  PortOK(p)'
<1> USE DEF LockInv
<1> DEFINE u == ask[r].port
           w == Sent(IF ask[r].does = "release" THEN "close" ELSE "open")
<1>1. /\ ask[r] \in Ask /\ ask[r].does \in {"reserve", "create", "release"} /\ u \in PortSet
      /\ ask[r].at = "send" /\ call[r] \in [PortSet -> Call]
  BY Shapes DEF Send, PortsInv, CallsOK
<1>2. /\ ask' = [ask EXCEPT ![r].at = "wait"] /\ call' = [call EXCEPT ![r][u] = w]
      /\ UNCHANGED <<slot, server, late, backend, rules, crossed, renumbered>>
  BY DEF Send, Then
<1>3. w # NoCall
  BY DEF Sent, NoCall
<1> HIDE DEF w
<1>4. \A q \in Askers \ {r} : SameRequest(q, p)
  BY <1>2 DEF SameRequest, RowsOK, PortsInv, CallsOK
<1>5. /\ ask'[r].at = "wait" /\ ask'[r].does = ask[r].does /\ ask'[r].port = u /\ ask'[r].slot = ask[r].slot
      /\ call'[r][p] = IF p = u THEN w ELSE call[r][p]
  BY <1>1, <1>2 DEF RowsOK, Ask, PortsInv, CallsOK
<1>6. /\ Watched(p) /\ PortOK(p) /\ Matches(p)' = Matches(p) /\ AtMostOne(Matches(p)')
      /\ \A l \in late' : l[1] # p
      /\ IsOpen(p)' <=> IsOpen(p)
      /\ SameRows(p)
  BY <1>2, PanelKeeps DEF SameRows, LiveSlot
<1>7. CASE p # u
  <2>1. ~On(r, p) /\ ~On(r, p)'
    BY <1>1, <1>5, <1>7 DEF On
  <2> QED BY <1>4, <1>6, <2>1, Untouched
<1>8. CASE p = u
  <2>1. On(r, p) /\ Phase(r, p)
    BY <1>6, <1>8 DEF On, PortOK
  <2>2. \A q \in Askers \ {r} : ~On(q, p)'
    BY <1>4, <1>6, <2>1, OthersOff
  <2>3. SlotsAt(p)' = SlotsAt(p)
    BY <1>6, RowsStay
  <2>4. On(r, p)'
    BY <1>5, <1>8 DEF On
  <2>5. Phase(r, p)'
    BY <1>1, <1>3, <1>5, <1>6, <1>8, <2>1, <2>3 DEF Phase, Takes, Gives, Quiet, IsHeld
  <2> QED BY <1>6, <2>2, <2>4, <2>5, OneOn
<1> QED BY <1>7, <1>8

LEMMA RemovePorts ==
  ASSUME PortsInv, LockInv, NEW r \in Askers, NEW v \in GameServers, RemoveServer(r, v),
         NEW p \in PortSet, Watched(p)'
  PROVE  PortOK(p)'
<1> USE DEF LockInv
<1> DEFINE a == [NoAsk EXCEPT !.does = "remove", !.at = "list", !.server = v]
<1>1. /\ Asks(r, a) /\ Meets(PortsOf(v) \cup Claimed(v))
      /\ UNCHANGED <<slot, server, call, late, backend, rules, renumbered>>
  BY DEF RemoveServer
<1>2. a.does = "remove" /\ a.at = "list" /\ a.port = Nobody /\ a.server = v
  BY DEF NoAsk
<1> HIDE DEF a
<1>3. ask[r] = NoAsk /\ \A q \in Askers : ask'[q] = IF q = r THEN a ELSE ask[q]
  BY <1>1 DEF RowsOK, Asks
<1>4. /\ Watched(p) /\ PortOK(p) /\ Matches(p)' = Matches(p) /\ AtMostOne(Matches(p)')
      /\ \A l \in late' : l[1] # p
      /\ IsOpen(p)' <=> IsOpen(p)
      /\ SameRows(p)
  <2>1. crossed \subseteq crossed'
    BY <1>1 DEF Meets
  <2> QED BY <1>1, <2>1, PanelKeeps DEF SameRows, LiveSlot
<1>5. \A q \in Askers \ {r} : SameRequest(q, p)
  BY <1>1, <1>3 DEF SameRequest
<1>6. ~On(r, p) /\ call'[r][p] = NoCall
  BY <1>1, <1>3, Shapes DEF NoAsk
<1>7. p \in PortsOf(v)' <=> p \in PortsOf(v)
  BY <1>4, RowsStay
<1>8. p \in PortsOf(ask[r].server)' <=> p \in PortsOf(v)
  BY <1>2, <1>3, <1>7
<1>9. CASE p \notin PortsOf(v)
  <2>1. ~On(r, p)'
    BY <1>2, <1>3, <1>6, <1>8, <1>9 DEF On
  <2> QED BY <1>4, <1>5, <1>6, <2>1, Untouched
<1>10. CASE p \in PortsOf(v)
  <2>1. \A q \in Askers : ~On(q, p)
    BY <1>1, <1>10, NobodyThere
  <2>2. \A q \in Askers \ {r} : ~On(q, p)'
    BY <1>4, <1>5, <2>1, OnStays
  <2>3. IsOpen(p)
    <3>1. IsHeld(p)
      BY <1>10 DEF PortsOf, SlotsOf, IsHeld, SlotsAt
    <3> QED BY <1>4, <2>1, <3>1 DEF PortOK
  <2>4. On(r, p)' /\ Phase(r, p)'
    BY <1>2, <1>3, <1>4, <1>8, <1>10, <2>3 DEF On, Phase, Takes, Gives
  <2> QED BY <1>4, <2>2, <2>4, OneOn
<1> QED BY <1>9, <1>10

LEMMA ReleasePortsPorts ==
  ASSUME PortsInv, LockInv, NEW r \in Askers, ReleasePorts(r), NEW p \in PortSet, Watched(p)'
  PROVE  PortOK(p)'
<1> USE DEF LockInv
<1> DEFINE v == ask[r].server
<1>1. /\ ask[r] \in Ask /\ ask[r].does = "remove" /\ ask[r].at = "list" /\ ask[r].port = Nobody
      /\ call[r][p] = NoCall
  BY Shapes DEF ReleasePorts, AsksOK, AskShape
<1>2. /\ ask' = [ask EXCEPT ![r].at = "wait"]
      /\ call' = [call EXCEPT ![r] = [x \in PortSet |-> IF x \in PortsOf(v) THEN Sent("close") ELSE NoCall]]
      /\ UNCHANGED <<slot, server, late, backend, rules, crossed, renumbered>>
  BY DEF ReleasePorts, Then
<1>3. Sent("close") # NoCall
  BY DEF Sent, NoCall
<1>4. \A q \in Askers \ {r} : SameRequest(q, p)
  BY <1>2 DEF SameRequest, RowsOK, PortsInv, CallsOK
<1>5. /\ ask'[r].at = "wait" /\ ask'[r].does = "remove" /\ ask'[r].port = Nobody /\ ask'[r].server = v
      /\ call'[r][p] = IF p \in PortsOf(v) THEN Sent("close") ELSE NoCall
  BY <1>1, <1>2 DEF RowsOK, Ask, PortsInv, CallsOK
<1>6. /\ Watched(p) /\ PortOK(p) /\ Matches(p)' = Matches(p) /\ AtMostOne(Matches(p)')
      /\ \A l \in late' : l[1] # p
      /\ IsOpen(p)' <=> IsOpen(p)
      /\ SameRows(p)
  BY <1>2, PanelKeeps DEF SameRows, LiveSlot
<1>7. p \in PortsOf(ask[r].server)' <=> p \in PortsOf(v)
  BY <1>5, <1>6, RowsStay
<1>8. CASE p \notin PortsOf(v)
  <2>1. ~On(r, p) /\ ~On(r, p)'
    BY <1>1, <1>5, <1>7, <1>8 DEF On
  <2> QED BY <1>4, <1>6, <2>1, Untouched
<1>9. CASE p \in PortsOf(v)
  <2>1. On(r, p)
    BY <1>1, <1>9 DEF On
  <2>2. \A q \in Askers \ {r} : ~On(q, p)'
    BY <1>4, <1>6, <2>1, OthersOff
  <2>3. On(r, p)' /\ Phase(r, p)'
    BY <1>3, <1>5, <1>7, <1>9 DEF On, Phase, Takes, Gives, Quiet
  <2> QED BY <1>6, <2>2, <2>3, OneOn
<1> QED BY <1>8, <1>9

\* The rows that a request takes with it are on its ports, where nobody else is.
LEMMA ConcludePorts ==
  ASSUME PortsInv, LockInv, NEW r \in Askers, Conclude(r), NEW p \in PortSet, Watched(p)'
  PROVE  PortOK(p)'
<1> USE DEF LockInv
<1>1. /\ ask[r] \in Ask /\ AskShape(ask[r]) /\ ask[r].at = "wait" /\ Quiet(r, p)
      /\ ask[r].does \in {"reserve", "create", "release", "remove"}
  BY Shapes DEF Conclude, Answered, AsksOK, Quiet
<1>2. /\ \A q \in Askers : ask'[q] = IF q = r THEN NoAsk ELSE ask[q]
      /\ UNCHANGED <<call, late, backend, rules, crossed, renumbered>>
  BY DEF Conclude, Over, RowsOK
<1>3. \A t \in Slots : slot'[t] = slot[t] \/ slot'[t] = [slot[t] EXCEPT !.is = "gone"]
  BY <1>1 DEF Conclude, Gone
<1>4. \A t \in Slots : /\ LiveSlot(t)' => slot'[t] = slot[t]
                       /\ slot'[t].port = slot[t].port
  <2> TAKE t \in Slots
  <2>1. slot[t] \in Slot
    BY DEF RowsOK
  <2>2. slot'[t] = slot[t] \/ (slot'[t].is = "gone" /\ slot'[t].port = slot[t].port)
    BY <1>3, <2>1 DEF Slot
  <2> QED BY <2>2 DEF LiveSlot
<1>5. /\ Watched(p) /\ PortOK(p) /\ Matches(p)' = Matches(p) /\ AtMostOne(Matches(p)')
      /\ \A l \in late' : l[1] # p
      /\ IsOpen(p)' <=> IsOpen(p)
  BY <1>2, PanelKeeps
<1>6. \A q \in Askers \ {r} : SameRequest(q, p)
  BY <1>2 DEF SameRequest
<1>7. ~On(r, p)'
  BY <1>2 DEF On, NoAsk
<1>8. ASSUME ~On(r, p), SameRows(p)  PROVE PortOK(p)'
  BY <1>5, <1>6, <1>7, <1>8, Untouched
<1>9. ASSUME On(r, p)  PROVE \A q \in Askers \ {r} : ~On(q, p)'
  <2> SUFFICES ASSUME NEW q \in Askers \ {r}, On(q, p)'  PROVE FALSE
    OBVIOUS
  <2>1. ~On(q, p) /\ ask'[q] = ask[q] /\ call'[q][p] = call[q][p]
    BY <1>5, <1>6, <1>9 DEF PortOK, SameRequest
  <2>2. p \in PortsOf(ask[q].server)' /\ ask[q].does = "remove"
    BY <2>1 DEF On
  <2>3. PICK v : v = ask[q].server
    OBVIOUS
  <2>4. p \in PortsOf(v)'
    BY <2>1, <2>2, <2>3
  <2>5. p \in PortsOf(v)
    <3>1. PICK t \in Slots : (LiveSlot(t) /\ slot[t].server = v /\ slot[t].port = p)'
      BY <2>4 DEF PortsOf, SlotsOf
    <3>2. slot'[t] = slot[t]
      BY <1>4, <3>1
    <3> QED BY <3>1, <3>2 DEF PortsOf, SlotsOf, LiveSlot
  <2> QED BY <2>1, <2>2, <2>3, <2>5 DEF On
<1>10. ASSUME On(r, p), IsOpen(p) <=> IsHeld(p)'  PROVE PortOK(p)'
  BY <1>5, <1>7, <1>9, <1>10, AtRest
<1>11. CASE ask[r].does \in {"reserve", "create"}
  <2>1. SameRows(p)
    BY <1>11 DEF Conclude, SameRows
  <2>2. CASE On(r, p)
    <3>1. Phase(r, p)
      BY <1>5, <2>2 DEF PortOK
    <3>2. SlotsAt(p)' = SlotsAt(p)
      BY <2>1, RowsStay
    <3> QED BY <1>1, <1>10, <1>11, <2>2, <3>1, <3>2 DEF Phase, Takes, IsHeld
  <2> QED BY <1>8, <2>1, <2>2
<1>12. CASE ask[r].does = "release"
  <2> DEFINE s == ask[r].slot
  <2>1. s \in Slots /\ slot[s].port = ask[r].port
    BY <1>1, <1>12 DEF AskShape
  <2>2. \A t \in Slots : IF t = s THEN ~LiveSlot(t)' ELSE slot'[t] = slot[t]
    BY <1>12 DEF Conclude, Gone, LiveSlot, RowsOK, Slot
  <2>3. CASE On(r, p)
    <3>1. Phase(r, p)
      BY <1>5, <2>3 DEF PortOK
    <3>2. s \in SlotsAt(p) /\ ~IsOpen(p)
      BY <1>1, <1>12, <3>1 DEF Phase, Gives
    <3>3. SlotsAt(p)' = {}
      BY <1>4, <2>1, <2>2, <3>2 DEF SlotsAt, LiveSlot, RowsOK
    <3> QED BY <1>10, <2>3, <3>2, <3>3 DEF IsHeld
  <2>4. CASE ~On(r, p)
    <3>1. slot[s].port # p
      BY <2>1, <2>4 DEF On
    <3>2. SameRows(p)
      BY <1>4, <2>2, <3>1 DEF SameRows
    <3> QED BY <1>8, <2>4, <3>2
  <2> QED BY <2>3, <2>4
<1>13. CASE ask[r].does = "remove"
  <2> DEFINE v == ask[r].server
  <2>1. \A t \in Slots : IF t \in SlotsOf(v) THEN ~LiveSlot(t)' ELSE slot'[t] = slot[t]
    BY <1>13 DEF Conclude, Gone, LiveSlot, RowsOK, Slot
  <2>2. CASE On(r, p)
    <3>1. Phase(r, p)
      BY <1>5, <2>2 DEF PortOK
    <3>2. p \in PortsOf(v) /\ ~IsOpen(p)
      BY <1>1, <1>13, <3>1 DEF Phase, Gives
    <3>3. PICK s \in SlotsOf(v) : slot[s].port = p
      BY <3>2 DEF PortsOf
    <3>4. s \in Slots /\ LiveSlot(s)
      BY <3>3 DEF SlotsOf
    <3>5. ASSUME NEW t \in Slots, LiveSlot(t)', slot'[t].port = p  PROVE FALSE
      <4>1. slot'[t] = slot[t] /\ LiveSlot(t)
        BY <1>4, <3>5 DEF LiveSlot
      <4>2. t = s
        BY <3>3, <3>4, <3>5, <4>1 DEF RowsOK
      <4> QED BY <2>1, <3>5, <3>3, <4>2
    <3>6. SlotsAt(p)' = {}
      BY <3>5 DEF SlotsAt
    <3> QED BY <1>10, <2>2, <3>2, <3>6 DEF IsHeld
  <2>3. CASE ~On(r, p)
    <3>1. \A t \in SlotsOf(v) : slot[t].port # p
      BY <1>13, <2>3 DEF On, PortsOf
    <3>2. SameRows(p)
      BY <1>4, <2>1, <3>1 DEF SameRows
    <3> QED BY <1>8, <2>3, <3>2
  <2> QED BY <2>2, <2>3
<1> QED BY <1>1, <1>11, <1>12, <1>13

LEMMA LockStep ==
  ASSUME PortsInv, LockInv, [PortsNext]_portsVars
  PROVE  LockInv'
<1>1. RowsOK' /\ AsksOK'
  BY RowsStep DEF LockInv
<1>2. ASSUME NEW p \in PortSet, Watched(p)'  PROVE PortOK(p)'
  <2>1. CASE UNCHANGED portsVars
    <3>1. Watched(p) /\ PortOK(p)
      BY <1>2, <2>1 DEF portsVars, Watched, LockInv
    <3>2. SameRows(p) /\ Matches(p)' = Matches(p) /\ late' = late /\ \A q \in Askers : SameRequest(q, p)
      BY <2>1 DEF portsVars, SameRows, Matches, Ours, SameRequest
    <3> QED BY <3>1, <3>2, Untouched DEF PortOK
  <2> QED BY <1>2, <2>1, ServePorts, ServeLatePorts, CallEndsPorts, ReservesPorts, InsertPorts, ReleasePortsOf,
             SendPorts, RemovePorts, ReleasePortsPorts, ConcludePorts DEF PortsNext
<1> QED BY <1>1, <1>2 DEF LockInv

LEMMA LockStart == PortsInit => LockInv
<1> SUFFICES ASSUME PortsInit PROVE LockInv
  OBVIOUS
<1>1. RowsOK
  BY DEF PortsInit, RowsOK, LiveSlot, NoSlot, Slot, NoAsk, Ask
<1>2. AsksOK
  BY DEF PortsInit, AsksOK, AskShape, CallFits, NoAsk
<1>3. ASSUME NEW p \in PortSet, Watched(p)  PROVE PortOK(p)
  <2>1. Matches(p) = {}
    <3>1. \A i \in DOMAIN rules : rules[i] \in AtBoot
      BY DEF PortsInit
    <3>2. ~Guarded(p)
      BY <1>3 DEF Watched, Guarded
    <3> QED BY <3>1, <3>2, NotOurs DEF Matches
  <2>2. SlotsAt(p) = {} /\ \A r \in Askers : ~On(r, p)
    BY DEF PortsInit, SlotsAt, LiveSlot, NoSlot, On, NoAsk
  <2>3. late = {}
    BY DEF PortsInit
  <2> QED BY <2>1, <2>2, <2>3 DEF PortOK, AtMostOne, IsOpen, IsHeld
<1> QED BY <1>1, <1>2, <1>3 DEF LockInv

(***************************************************************************)
(* Firewall and allocations in lockstep (allocations/service.ts:10-12), for *)
(* any ports, servers and requests: a port on which nothing met, failed or  *)
(* was late is open exactly while a row holds it.                           *)
(***************************************************************************)
THEOREM LockstepCorrect == PortsSpec => []Lockstep
<1>1. LockInv => Lockstep
  BY DEF LockInv, Lockstep, Watched, PortOK, Busy, IsOpen, IsHeld
<1>2. PortsInit => PortsInv /\ LockInv
  BY PortsStart, LockStart
<1>3. PortsInv /\ LockInv /\ [PortsNext]_portsVars => PortsInv' /\ LockInv'
  BY PortsStep, LockStep
<1> QED BY <1>1, <1>2, <1>3, PTL DEF PortsSpec

(***************************************************************************)
(* The rules that were there at boot.  A port that the panel opens has had a *)
(* row: its rule is the one of the operator's that may be taken over.       *)
(***************************************************************************)
OpensReserved ==
  /\ \A r \in Askers : Takes(r) /\ ask[r].at # "insert" => Reserved(ask[r].port)
  /\ \A l \in late : l[2].does = "open" => Reserved(l[1])

KeptInv == OpensReserved /\ OthersKept

\* A slot is written once and then goes: its port stays one that was reserved.
LEMMA StaysReserved ==
  ASSUME RowsOK, [PortsNext]_portsVars, NEW p, Reserved(p)
  PROVE  Reserved(p)'
<1>1. PICK s \in Slots : slot[s].is # "unborn" /\ slot[s].port = p
  BY DEF Reserved
<1>2. ASSUME slot'[s].is # "unborn", slot'[s].port = p  PROVE Reserved(p)'
  BY <1>2 DEF Reserved
<1>3. ASSUME UNCHANGED slot  PROVE Reserved(p)'
  BY <1>1, <1>2, <1>3
<1>4. ASSUME NEW r \in Askers, NEW t \in Slots, InsertSlot(r, t)  PROVE Reserved(p)'
  <2>1. s # t
    BY <1>1, <1>4 DEF InsertSlot
  <2>2. slot'[s] = slot[s]
    BY <1>4, <2>1 DEF InsertSlot, RowsOK
  <2> QED BY <1>1, <1>2, <2>2
<1>5. ASSUME NEW S, Gone(S)  PROVE Reserved(p)'
  <2>1. slot[s] \in Slot
    BY DEF RowsOK
  <2>2. slot'[s] = slot[s] \/ slot'[s] = [slot[s] EXCEPT !.is = "gone"]
    BY <1>5 DEF Gone
  <2> QED BY <1>1, <1>2, <2>1, <2>2 DEF Slot
<1>6. ASSUME NEW r \in Askers, Conclude(r)  PROVE Reserved(p)'
  BY <1>3, <1>5, <1>6 DEF Conclude
<1>7. ASSUME NEW r \in Askers, NEW u \in PortSet,
             \/ CreateAllocation(r, u) \/ Serve(r, u) \/ CallFails(r, u) \/ CallTimesOut(r, u)
             \/ \E v \in GameServers : DeployServer(r, v, u)
      PROVE  Reserved(p)'
  BY <1>3, <1>7 DEF CreateAllocation, Serve, CallFails, CallTimesOut, DeployServer
<1>8. ASSUME NEW r \in Askers,
             \/ Send(r) \/ ReleasePorts(r)
             \/ \E t \in Slots : RemoveAllocation(r, t)
             \/ \E v \in GameServers : RemoveServer(r, v)
      PROVE  Reserved(p)'
  BY <1>3, <1>8 DEF Send, ReleasePorts, RemoveAllocation, RemoveServer
<1>9. ASSUME NEW l \in late, ServeLate(l[1], l[2])  PROVE Reserved(p)'
  BY <1>3, <1>9 DEF ServeLate
<1> QED BY <1>3, <1>4, <1>6, <1>7, <1>8, <1>9 DEF PortsNext, portsVars

\* An open that is under way is of a request that has its row.
LEMMA OpenIsOf ==
  ASSUME RowsOK, AsksOK, OpensReserved, NEW r \in Askers, NEW p \in PortSet, call[r][p].does = "open"
  PROVE  Reserved(p)
<1>1. call[r][p] # NoCall /\ CallFits(r, p)
  BY DEF NoCall, AsksOK
<1>2. ask[r].at = "wait" /\ ask[r].does \notin {"release", "remove"} /\ ask[r].port = p
  BY <1>1 DEF CallFits
<1> QED BY <1>2, Shapes DEF OpensReserved, Takes

LEMMA OpensReservedStep ==
  ASSUME PortsInv, LockInv, OpensReserved, [PortsNext]_portsVars
  PROVE  OpensReserved'
<1> USE DEF LockInv
<1>1. \A p : Reserved(p) => Reserved(p)'
  BY StaysReserved
<1>2. ASSUME NEW q \in Askers, Takes(q)', ask'[q].at # "insert"  PROVE Reserved(ask[q].port)' /\ ask'[q].port = ask[q].port
  <2>1. CASE ask'[q] = ask[q]
    BY <1>1, <1>2, <2>1 DEF OpensReserved, Takes
  <2>2. ASSUME NEW s \in Slots, InsertSlot(q, s), Reservable(q)  PROVE Reserved(ask[q].port)' /\ ask'[q].port = ask[q].port
    <3>1. slot'[s].is = "live" /\ slot'[s].port = ask[q].port
      BY <2>2 DEF InsertSlot, RowsOK
    <3>2. ask'[q].port = ask[q].port
      BY <2>2 DEF InsertSlot, RowsOK, Ask
    <3> QED BY <3>1, <3>2 DEF Reserved
  <2>3. CASE Send(q)
    <3>1. ask'[q] = [ask[q] EXCEPT !.at = "wait"] /\ ask[q].at = "send" /\ ask[q] \in Ask
      BY <2>3 DEF Send, Then, RowsOK
    <3>2. Takes(q) /\ ask'[q].port = ask[q].port
      BY <1>2, <3>1 DEF Takes, Ask
    <3> QED BY <1>1, <3>1, <3>2 DEF OpensReserved
  <2>4. ~(Conclude(q) \/ \E s \in Slots : InsertSlot(q, s) /\ ~Reservable(q))
    BY <1>2 DEF Conclude, Over, InsertSlot, RowsOK, NoAsk, Takes
  <2>5. ~ReleasePorts(q)
    <3>1. ask[q].at = "list" => ask[q].does = "remove" /\ ask[q] \in Ask
      BY Shapes
    <3> QED BY <1>2, <3>1 DEF ReleasePorts, Then, RowsOK, Ask, Takes
  <2>6. ASSUME NEW a, Asks(q, a), a.at = "insert" \/ a.does \in {"release", "remove"}  PROVE FALSE
    BY <1>2, <2>6 DEF Asks, RowsOK, Takes
  <2>7. ASSUME \/ \E p \in PortSet : CreateAllocation(q, p) \/ \E v \in GameServers : DeployServer(q, v, p)
               \/ \E s \in Slots : RemoveAllocation(q, s)
               \/ \E v \in GameServers : RemoveServer(q, v)
        PROVE  FALSE
    <3>1. ASSUME NEW p \in PortSet, CreateAllocation(q, p)  PROVE FALSE
      BY <2>6, <3>1 DEF CreateAllocation, NoAsk
    <3>2. ASSUME NEW p \in PortSet, NEW v \in GameServers, DeployServer(q, v, p)  PROVE FALSE
      BY <2>6, <3>2 DEF DeployServer, NoAsk
    <3>3. ASSUME NEW s \in Slots, RemoveAllocation(q, s)  PROVE FALSE
      BY <2>6, <3>3 DEF RemoveAllocation, NoAsk
    <3>4. ASSUME NEW v \in GameServers, RemoveServer(q, v)  PROVE FALSE
      BY <2>6, <3>4 DEF RemoveServer, NoAsk
    <3> QED BY <2>7, <3>1, <3>2, <3>3, <3>4
  <2>8. ASSUME NEW r \in Askers \ {q},
               \/ Send(r) \/ ReleasePorts(r) \/ Conclude(r)
               \/ \E p \in PortSet : CreateAllocation(r, p) \/ \E v \in GameServers : DeployServer(r, v, p)
               \/ \E s \in Slots : InsertSlot(r, s) \/ RemoveAllocation(r, s)
               \/ \E v \in GameServers : RemoveServer(r, v)
        PROVE  ask'[q] = ask[q]
    BY <2>8 DEF Send, ReleasePorts, Conclude, CreateAllocation, DeployServer, InsertSlot, RemoveAllocation,
            RemoveServer, Asks, Then, Over, RowsOK
  <2>9. ASSUME \/ \E r \in Askers, p \in PortSet : Serve(r, p) \/ CallFails(r, p) \/ CallTimesOut(r, p)
               \/ \E l \in late : ServeLate(l[1], l[2])
               \/ UNCHANGED portsVars
        PROVE  ask'[q] = ask[q]
    BY <2>9 DEF Serve, ServeLate, CallFails, CallTimesOut, portsVars
  <2> QED BY <2>1, <2>2, <2>3, <2>4, <2>5, <2>7, <2>8, <2>9 DEF PortsNext
<1>3. ASSUME NEW k \in late', k \notin late, k[2].does = "open"  PROVE Reserved(k[1])'
  <2>1. CASE \E r \in Askers, p \in PortSet : CallTimesOut(r, p)
    <3>1. PICK r \in Askers, p \in PortSet : CallTimesOut(r, p)
      BY <2>1
    <3>2. k = <<p, call[r][p]>>
      BY <1>3, <3>1 DEF CallTimesOut
    <3> QED BY <1>1, <1>3, <3>2, OpenIsOf
  <2>2. CASE \E l \in late : ServeLate(l[1], l[2])
    <3>1. PICK l \in late : ServeLate(l[1], l[2])
      BY <2>2
    <3>2. PICK c2 \in After(l[2]) :
            /\ Runs(l[1], l[2], c2)
            /\ late' = (late \ {<<l[1], l[2]>>}) \cup (IF c2 = NoCall THEN {} ELSE {<<l[1], c2>>})
      BY <3>1 DEF ServeLate
    <3>3. k = <<l[1], c2>> /\ c2 # NoCall
      BY <1>3, <3>2
    <3>4. c2.does = l[2].does
      BY <3>2, <3>3, SameKind DEF PortsInv, CallsOK
    <3> QED BY <1>1, <1>3, <3>3, <3>4 DEF OpensReserved
  <2>3. ASSUME NEW r \in Askers,
               \/ Send(r) \/ ReleasePorts(r) \/ Conclude(r)
               \/ \E p \in PortSet : \/ CreateAllocation(r, p) \/ Serve(r, p) \/ CallFails(r, p)
                                     \/ \E v \in GameServers : DeployServer(r, v, p)
               \/ \E s \in Slots : InsertSlot(r, s) \/ RemoveAllocation(r, s)
               \/ \E v \in GameServers : RemoveServer(r, v)
        PROVE  late' = late
    BY <2>3 DEF Send, ReleasePorts, Conclude, CreateAllocation, Serve, CallFails, DeployServer, InsertSlot,
            RemoveAllocation, RemoveServer
  <2> QED BY <1>3, <2>1, <2>2, <2>3 DEF PortsNext, portsVars
<1> QED BY <1>1, <1>2, <1>3 DEF OpensReserved

\* A rule that an open takes over is of a port that has had a row.
LEMMA RunsTake ==
  ASSUME PortsInv, RowsOK, OthersKept, [PortsNext]_portsVars, backend' = backend,
         NEW p \in PortSet, NEW c \in Call, NEW c2 \in After(c), Runs(p, c, c2), Aimed(p, c),
         c.does = "open" => Reserved(p)
  PROVE  OthersKept'
<1>1. /\ renumbered => renumbered'
      /\ \A q \in AtBoot : Holds(q) /\ ~renumbered' => Holds(q)' \/ Taking(p, c, q)
  BY RunsKeep DEF PortsInv, CallsOK
<1>2. ASSUME NEW q \in AtBoot, TakenOver(q)  PROVE TakenOver(q)'
  BY <1>2, StaysReserved DEF TakenOver, Theirs
<1>3. ASSUME NEW q \in AtBoot, Taking(p, c, q)  PROVE TakenOver(q)'
  <2>1. q = Theirs(p) /\ backend = "ufw" /\ Reserved(p)
    BY <1>3 DEF Taking
  <2>2. p \in ByHand
    BY <2>1 DEF AtBoot, Others, Ours, Theirs
  <2> QED BY <2>1, <2>2, StaysReserved DEF TakenOver, Theirs
<1> QED BY <1>1, <1>2, <1>3 DEF OthersKept, Holds

LEMMA KeptStep ==
  ASSUME PortsInv, LockInv, KeptInv, [PortsNext]_portsVars
  PROVE  KeptInv'
<1> USE DEF KeptInv, LockInv
<1>1. OpensReserved'
  BY OpensReservedStep
<1>2. ASSUME UNCHANGED <<rules, renumbered, backend>>  PROVE OthersKept'
  BY <1>2, StaysReserved DEF OthersKept, TakenOver, Theirs
<1>3. ASSUME NEW r \in Askers, NEW p \in PortSet, Serve(r, p)  PROVE OthersKept'
  <2>1. PICK c2 \in After(call[r][p]) : Runs(p, call[r][p], c2)
    BY <1>3 DEF Serve
  <2>2. call[r][p] \in Call /\ Aimed(p, call[r][p]) /\ backend' = backend
    BY <1>3 DEF PortsInv, CallsOK, AimsOK, Serve
  <2> QED BY <2>1, <2>2, OpenIsOf, RunsTake
<1>4. ASSUME NEW l \in late, ServeLate(l[1], l[2])  PROVE OthersKept'
  <2>1. PICK c2 \in After(l[2]) : Runs(l[1], l[2], c2)
    BY <1>4 DEF ServeLate
  <2>2. /\ l[1] \in PortSet /\ l[2] \in Call /\ Aimed(l[1], l[2]) /\ backend' = backend
        /\ l[2].does = "open" => Reserved(l[1])
    BY <1>4 DEF PortsInv, CallsOK, AimsOK, ServeLate, OpensReserved
  <2> QED BY <2>1, <2>2, RunsTake
<1>5. ASSUME NEW r \in Askers,
             \/ Send(r) \/ ReleasePorts(r) \/ Conclude(r)
             \/ \E p \in PortSet : \/ CreateAllocation(r, p) \/ CallFails(r, p) \/ CallTimesOut(r, p)
                                   \/ \E v \in GameServers : DeployServer(r, v, p)
             \/ \E s \in Slots : InsertSlot(r, s) \/ RemoveAllocation(r, s)
             \/ \E v \in GameServers : RemoveServer(r, v)
      PROVE  OthersKept'
  BY <1>2, <1>5 DEF Send, ReleasePorts, Conclude, CreateAllocation, CallFails, CallTimesOut, DeployServer,
         InsertSlot, RemoveAllocation, RemoveServer
<1> QED BY <1>1, <1>2, <1>3, <1>4, <1>5 DEF PortsNext, portsVars

LEMMA KeptStart == PortsInit => KeptInv
<1> SUFFICES ASSUME PortsInit PROVE KeptInv
  OBVIOUS
<1>1. \A r \in Askers : ~Takes(r)
  BY DEF PortsInit, Takes, NoAsk
<1>2. OthersKept
  <2>1. \A q \in AtBoot : \E i \in DOMAIN rules : rules[i] = q
    <3>1. PICK order \in [1..Cardinality(AtBoot) -> AtBoot] :
            AtBoot = {order[i] : i \in DOMAIN order} /\ rules = order
      BY DEF PortsInit
    <3> QED BY <3>1
  <2> QED BY <2>1 DEF OthersKept
<1> QED BY <1>1, <1>2 DEF PortsInit, KeptInv, OpensReserved

(***************************************************************************)
(* The firewall (firewall.go:6-9): whatever is reserved, released, late or  *)
(* lost, and whatever ports the operator had opened himself, the rules that *)
(* were there at boot stay, but for the operator's own of a port the panel   *)
(* has had a row for, which ufw takes for the daemon's, and unless a number *)
(* that ufw was given had moved.                                            *)
(***************************************************************************)
THEOREM OthersKeptCorrect == PortsSpec => []OthersKept
<1>1. PortsInit => PortsInv /\ LockInv /\ KeptInv
  BY PortsStart, LockStart, KeptStart
<1>2. PortsInv /\ LockInv /\ KeptInv /\ [PortsNext]_portsVars => PortsInv' /\ LockInv' /\ KeptInv'
  BY PortsStep, LockStep, KeptStep
<1>3. KeptInv => OthersKept
  BY DEF KeptInv
<1> QED BY <1>1, <1>2, <1>3, PTL DEF PortsSpec

(***************************************************************************)
(* What is left of the types: the backend stays what the box has, and only  *)
(* ports are crossed.                                                       *)
(***************************************************************************)
HistoryOK ==
  /\ backend \in {"ufw", "iptables", "unsupported"}
  /\ crossed \subseteq PortSet
  /\ renumbered \in BOOLEAN

LEMMA RunsKnows ==
  ASSUME NEW p, NEW c, NEW c2, Runs(p, c, c2), renumbered \in BOOLEAN
  PROVE  renumbered' \in BOOLEAN
<1>1. CASE UNCHANGED renumbered
  BY <1>1
<1>2. CASE DeletesNumber(p, c, c2)
  <2>1. renumbered' = (renumbered \/ c.number \notin Matches(p))
    BY <1>2 DEF DeletesNumber
  <2> QED BY <2>1, Zenon
<1>3. Opens(p, c, c2) => UNCHANGED renumbered
  BY DEF Opens
<1>4. FindsNumber(p, c, c2) => UNCHANGED renumbered
  <2>1. FindsNumber(p, c, c2) => UNCHANGED <<rules, renumbered>>
    BY Zenon DEF FindsNumber
  <2> QED BY <2>1
<1>5. DeletesSpec(p, c, c2) => UNCHANGED renumbered
  BY DEF DeletesSpec
<1>6. Refuses(p, c, c2) => UNCHANGED renumbered
  BY DEF Refuses
<1> QED BY <1>1, <1>2, <1>3, <1>4, <1>5, <1>6 DEF Runs

LEMMA HistoryStep ==
  ASSUME RowsOK, HistoryOK, [PortsNext]_portsVars
  PROVE  HistoryOK'
<1> USE DEF HistoryOK
<1>1. ASSUME UNCHANGED <<backend, crossed, renumbered>>  PROVE HistoryOK'
  BY <1>1
<1>2. ASSUME NEW P \in SUBSET PortSet, Meets(P), UNCHANGED <<backend, renumbered>>  PROVE HistoryOK'
  BY <1>2 DEF Meets
<1>3. ASSUME NEW v  PROVE PortsOf(v) \in SUBSET PortSet /\ Claimed(v) \in SUBSET PortSet
  BY DEF PortsOf, SlotsOf, Claimed, RowsOK
<1>4. ASSUME NEW r \in Askers, NEW p \in PortSet,
             CreateAllocation(r, p) \/ \E v \in GameServers : DeployServer(r, v, p)
      PROVE  HistoryOK'
  <2>1. CASE CreateAllocation(r, p)
    <3>1. Meets({p}) /\ UNCHANGED <<backend, renumbered>>
      BY <2>1 DEF CreateAllocation
    <3> QED BY <1>2, <3>1
  <2>2. ASSUME NEW v \in GameServers, DeployServer(r, v, p)  PROVE HistoryOK'
    <3>1. Meets({p}) /\ UNCHANGED <<backend, renumbered>>
      BY <2>2 DEF DeployServer
    <3> QED BY <1>2, <3>1
  <2> QED BY <1>4, <2>1, <2>2
<1>5. ASSUME NEW r \in Askers, NEW s \in Slots, RemoveAllocation(r, s)  PROVE HistoryOK'
  <2>1. Meets({slot[s].port}) /\ UNCHANGED <<backend, renumbered>> /\ slot[s].port \in PortSet
    BY <1>5 DEF RemoveAllocation, RowsOK
  <2> QED BY <1>2, <2>1
<1>6. ASSUME NEW r \in Askers, NEW v \in GameServers, RemoveServer(r, v)  PROVE HistoryOK'
  <2>1. Meets(PortsOf(v) \cup Claimed(v)) /\ UNCHANGED <<backend, renumbered>>
    BY <1>6 DEF RemoveServer
  <2>2. PortsOf(v) \cup Claimed(v) \in SUBSET PortSet
    BY <1>3
  <2> QED BY <1>2, <2>1, <2>2
<1>7. ASSUME NEW r \in Askers, NEW p \in PortSet, CallFails(r, p) \/ CallTimesOut(r, p)  PROVE HistoryOK'
  BY <1>7 DEF CallFails, CallTimesOut
<1>8. ASSUME NEW r \in Askers, NEW p \in PortSet, Serve(r, p)  PROVE HistoryOK'
  BY <1>8, RunsKnows DEF Serve
<1>9. ASSUME NEW l \in late, ServeLate(l[1], l[2])  PROVE HistoryOK'
  BY <1>9, RunsKnows DEF ServeLate
<1>10. ASSUME NEW r \in Askers, Send(r) \/ ReleasePorts(r) \/ Conclude(r) \/ \E s \in Slots : InsertSlot(r, s)
       PROVE  HistoryOK'
  BY <1>1, <1>10 DEF Send, ReleasePorts, Conclude, InsertSlot
<1>11. CASE UNCHANGED portsVars
  BY <1>1, <1>11 DEF portsVars
<1> QED BY <1>4, <1>5, <1>6, <1>7, <1>8, <1>9, <1>10, <1>11 DEF PortsNext

(***************************************************************************)
(* The rows, the requests, the calls and the rules keep their forms: a call *)
(* that is late too, and a rule that moved up when another was deleted.     *)
(***************************************************************************)
THEOREM PortsTypeCorrect == PortsSpec => []PortsTypeOK
<1>1. PortsInv /\ LockInv /\ HistoryOK => PortsTypeOK
  BY DEF PortsInv, CallsOK, LockInv, RowsOK, HistoryOK, PortsTypeOK
<1>2. PortsInit => PortsInv /\ LockInv /\ HistoryOK
  BY PortsStart, LockStart DEF PortsInit, HistoryOK
<1>3. PortsInv /\ LockInv /\ HistoryOK /\ [PortsNext]_portsVars => PortsInv' /\ LockInv' /\ HistoryOK'
  BY PortsStep, LockStep, HistoryStep DEF LockInv
<1> QED BY <1>1, <1>2, <1>3, PTL DEF PortsSpec
=============================================================================
