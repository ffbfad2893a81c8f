---------------------------- MODULE ServersProofs ----------------------------
(***************************************************************************)
(* Theorems about Servers, for any number of users and of late calls.       *)
(***************************************************************************)
EXTENDS Servers, TLAPS

USE LateAssumption DEF Kinds, Power

(***************************************************************************)
(* The engine: what one call may change.                                    *)
(***************************************************************************)
LEMMA EngineType ==
  ASSUME TypeOK, NEW op \in Op, Does(op)
  PROVE  /\ container' \in [Kinds -> {"none", "created", "running", "exited"}]
         /\ volume' \in {"none", "labelled", "plain"}
         /\ exit' \in {"none", "ok", "bad"}
<1>1. CASE op.on = "volume"
  BY <1>1 DEF TypeOK, Op, Does, VolumeDoes
<1>2. CASE op.on # "volume"
  <2>1. op.on \in Kinds /\ op.do \in {"create", "start", "stop", "remove"}
    BY <1>2 DEF Op
  <2>2. Becomes(op) \in {"none", "created", "running", "exited"}
    BY <2>1 DEF Becomes, TypeOK
  <2>3. ExitAfter(op) \in {"none", "ok", "bad"}
    BY <2>1 DEF ExitAfter, Ended, TypeOK
  <2> QED BY <1>2, <2>1, <2>2, <2>3 DEF TypeOK, Does, ContainerDoes
<1> QED BY <1>1, <1>2

LEMMA LateType ==
  ASSUME TypeOK, NEW ops \in SUBSET Op, GoLate(ops)
  PROVE  late' \subseteq Op
BY DEF TypeOK, GoLate

LEMMA OpType ==
  ASSUME NEW what \in {"create", "start", "stop", "remove"}, NEW on \in Kinds \cup {"volume"}
  PROVE  /\ do(what, on) \in Op
         /\ do(what, on).do = what /\ do(what, on).on = on
BY DEF do, Op

LEMMA CallingType == ASSUME TypeOK PROVE Calling \subseteq Op
BY OpType DEF Calling

LEMMA CallOfType ==
  ASSUME NEW q \in Request, q.at \in {"call", "again", "volume"}, Aimed(q)
  PROVE  CallOf(q) \in Op
BY OpType DEF CallOf, Aimed

(***************************************************************************)
(* Types.                                                                   *)
(***************************************************************************)
RequestsOK ==
  /\ request \in [Users -> SUBSET Request]
  /\ \A u \in Users : \A p, q \in request[u] : p = q
  /\ \A u \in Users : \A q \in request[u] : Aimed(q)

LEMMA RequestType ==
  ASSUME TypeOK, NEW u \in Users, NEW r \in Request, Aimed(r), Becoming(u, r)
  PROVE  RequestsOK'
BY DEF TypeOK, RequestsOK, Becoming, Aimed

LEMMA AnswerType ==
  ASSUME TypeOK, NEW u \in Users, NEW q \in request[u], NEW a \in Answer, Answers(u, q, a),
         a = "ok" => q.ask = "delete"
  PROVE  RequestsOK'
<1> DEFINE r == [q EXCEPT !.at = "answered", !.answer = a, !.on = "none"]
<1>1. q \in Request
  BY DEF TypeOK
<1>2. r \in Request
  BY <1>1 DEF Request
<1>3. r.at = "answered" /\ r.answer = a /\ r.ask = q.ask
  BY <1>1 DEF Request
<1>4. Becoming(u, r)
  BY DEF Answers
<1> HIDE DEF r
<1>5. Aimed(r)
  BY <1>3 DEF Aimed
<1> QED BY <1>2, <1>4, <1>5, RequestType

LEMMA FindType ==
  ASSUME TypeOK, NEW u \in Users, NEW q \in request[u], Finds(u, q, "call")
  PROVE  RequestsOK'
<1>1. PICK k \in Present : Becoming(u, [q EXCEPT !.at = "call", !.on = k])
  BY DEF Finds
<1> DEFINE r == [q EXCEPT !.at = "call", !.on = k]
<1>2. q \in Request /\ k \in Kinds /\ Aimed(q)
  BY DEF TypeOK, Present
<1>3. r \in Request /\ r.at = "call" /\ r.on = k /\ r.ask = q.ask /\ r.answer = q.answer
  BY <1>2 DEF Request
<1> HIDE DEF r
<1>4. Aimed(r)
  BY <1>2, <1>3 DEF Aimed
<1> QED BY <1>1, <1>3, <1>4, RequestType DEF r

LEMMA ReportedType == ASSUME NEW k PROVE Reported(k) \in Answer \ {"ok"}
BY DEF Reported, Answer, RowState

LEMMA CreateTypeStep ==
  ASSUME TypeOK, late' \subseteq Op, container' \in [Kinds -> {"none", "created", "running",
          "exited"}],
         volume' \in {"none", "labelled", "plain"}, exit' \in {"none", "ok", "bad"},
         row' \in RowState, told' \in BOOLEAN, step' \in Steps, live' \in BOOLEAN,
         reply' \in {"none", "installing", "running", "stopped", "error"},
         record' \in {"none", "installing", "failed"}, lost' \subseteq Kinds,
         UNCHANGED <<install, request, dropped, deleted>>
  PROVE  TypeOK'
BY DEF TypeOK, Aimed

LEMMA EndsType ==
  ASSUME TypeOK, NEW err \in BOOLEAN, Ends(err)
  PROVE  /\ step' \in Steps /\ live' \in BOOLEAN
         /\ reply' \in {"none", "installing", "running", "stopped", "error"}
         /\ record' \in {"none", "installing", "failed"}
BY DEF TypeOK, Ends, Answered, Recorded, RecordedAlways, Steps

LEMMA GoesType ==
  ASSUME TypeOK, NEW next \in Steps, GoesTo(next)
  PROVE  /\ step' \in Steps /\ live' \in BOOLEAN
         /\ reply' \in {"none", "installing", "running", "stopped", "error"}
         /\ record' \in {"none", "installing", "failed"}
BY DEF TypeOK, GoesTo

LEMMA RemovedType ==
  ASSUME TypeOK, NEW k \in Kinds, Removed(k)
  PROVE  /\ container' \in [Kinds -> {"none", "created", "running", "exited"}]
         /\ volume' \in {"none", "labelled", "plain"} /\ exit' \in {"none", "ok", "bad"}
         /\ lost' \subseteq Kinds
<1>1. CASE Does(do("remove", k)) /\ UNCHANGED lost
  <2>1. do("remove", k) \in Op
    BY OpType
  <2> QED BY <1>1, <2>1, EngineType DEF TypeOK
<1>2. CASE UNCHANGED engineVars /\ lost' = lost \cup ({k} \cap Present)
  BY <1>2 DEF TypeOK, engineVars
<1> QED BY <1>1, <1>2 DEF Removed

\* The steps of createServer and of the daemon's Create.
CreateStep ==
  \/ CreateServer \/ CreateAnswered \/ CreateTimesOut
  \/ ContextEnds \/ CreateInspects \/ CreateVolume \/ PullImage \/ CallFails
  \/ CreateJob \/ StartJob \/ RegisterWait \/ JobWaits \/ RemoveJob
  \/ CreateBox \/ StartBox \/ Rollback \/ CreateSnapshot

LEMMA CreateTypes ==
  ASSUME TypeOK, CreateStep
  PROVE  TypeOK'
<1> USE DEF creatorOnly, engineVars
<1> DEFINE Engine == /\ container' \in [Kinds -> {"none", "created", "running", "exited"}]
                     /\ volume' \in {"none", "labelled", "plain"}
                     /\ exit' \in {"none", "ok", "bad"}
<1>0. /\ UNCHANGED engineVars => Engine
      /\ UNCHANGED late => late' \subseteq Op
      /\ UNCHANGED lost => lost' \subseteq Kinds
      /\ UNCHANGED <<row, told>> => row' \in RowState /\ told' \in BOOLEAN
      /\ TRUE \in BOOLEAN /\ FALSE \in BOOLEAN
  BY DEF TypeOK
<1>s. {"inspect", "volume", "pull", "createJob", "startJob", "register", "wait", "removeJob",
       "dropJob", "createBox", "startBox", "rollback", "snapshot"} \subseteq Steps
  BY DEF Steps
<1>e. ASSUME NEW op \in Op, Does(op) PROVE Engine
  BY <1>e, EngineType
<1>1. CASE CreateServer
  <2>1. row' \in RowState /\ step' \in Steps /\ told' \in BOOLEAN
    BY <1>1 DEF CreateServer, TypeOK, Steps, RowState
  <2> QED BY <1>1, <2>1, <1>0, CreateTypeStep DEF CreateServer, TypeOK
<1>2. CASE CreateAnswered
  BY <1>2 DEF CreateAnswered, TypeOK, RowState, Updated, Aimed
<1>3. CASE CreateTimesOut
  BY <1>3 DEF CreateTimesOut, createVars, TypeOK, RowState, Updated, Aimed
<1>4. CASE ContextEnds
  BY <1>4 DEF ContextEnds, TypeOK, Aimed
<1>5. CASE CreateInspects
  BY <1>5, <1>0, <1>s, GoesType, EndsType, CreateTypeStep DEF CreateInspects
<1>6. CASE CreateVolume
  <2>1. do("create", "volume") \in Op
    BY OpType
  <2>2. Engine
    BY <1>6, <2>1, <1>e DEF CreateVolume
  <2>3. /\ step' \in Steps /\ live' \in BOOLEAN
        /\ reply' \in {"none", "installing", "running", "stopped", "error"}
        /\ record' \in {"none", "installing", "failed"}
    <3>1. CASE install
      BY <1>6, <3>1, <1>s DEF CreateVolume, Answered
    <3>2. CASE ~install
      BY <1>6, <3>2, <1>0, <1>s, GoesType, EndsType DEF CreateVolume
    <3> QED BY <3>1, <3>2
  <2> QED BY <1>6, <2>2, <2>3, <1>0, CreateTypeStep DEF CreateVolume
<1>7. CASE PullImage
  BY <1>7, <1>0, <1>s, GoesType, CreateTypeStep DEF PullImage
<1>8. CASE CallFails
  <2>1. late' \subseteq Op
    BY <1>8, CallingType, LateType DEF CallFails, CutOff
  <2>2. lost' \subseteq Kinds
    BY <1>8 DEF CallFails, NotSeen, TypeOK
  <2>3. Engine /\ row' \in RowState /\ told' \in BOOLEAN
    BY <1>8, <1>0 DEF CallFails
  <2> QED BY <1>8, <2>1, <2>2, <2>3, <1>0, <1>s, GoesType, EndsType,
          CreateTypeStep DEF CallFails
<1>9. CASE CreateJob
  <2>1. do("create", "job") \in Op
    BY OpType
  <2> QED BY <1>9, <2>1, <1>e, <1>0, <1>s, GoesType, CreateTypeStep DEF CreateJob
<1>10. CASE StartJob
  <2>1. do("start", "job") \in Op
    BY OpType
  <2> QED BY <1>10, <2>1, <1>e, <1>0, <1>s, GoesType, CreateTypeStep DEF StartJob
<1>11. CASE RegisterWait
  BY <1>11, <1>0, <1>s, GoesType, CreateTypeStep DEF RegisterWait
<1>12. CASE JobWaits
  BY <1>12, <1>0, <1>s, GoesType, CreateTypeStep DEF JobWaits
<1>13. CASE RemoveJob
  <2>1. Engine /\ lost' \subseteq Kinds
    BY <1>13, RemovedType DEF RemoveJob, JobRemoved
  <2> QED BY <1>13, <2>1, <1>0, <1>s, GoesType, EndsType, CreateTypeStep DEF RemoveJob
<1>14. CASE CreateBox
  <2>1. do("create", "box") \in Op
    BY OpType
  <2> QED BY <1>14, <2>1, <1>e, <1>0, <1>s, GoesType, CreateTypeStep DEF CreateBox
<1>15. CASE StartBox
  <2>1. do("start", "box") \in Op
    BY OpType
  <2> QED BY <1>15, <2>1, <1>e, <1>0, <1>s, GoesType, EndsType, CreateTypeStep DEF StartBox
<1>16. CASE Rollback
  <2>1. Engine /\ lost' \subseteq Kinds
    BY <1>16, RemovedType DEF Rollback, RolledBack
  <2> QED BY <1>16, <2>1, <1>0, EndsType, CreateTypeStep DEF Rollback
<1>17. CASE CreateSnapshot
  BY <1>17 DEF CreateSnapshot, Answered, Reported, TypeOK, Steps, Aimed
<1> QED
  BY <1>1, <1>2, <1>3, <1>4, <1>5, <1>6, <1>7, <1>8, <1>9, <1>10, <1>11, <1>12, <1>13, <1>14,
     <1>15, <1>16, <1>17 DEF CreateStep

\* The steps of the users' requests.
UserStep(u) ==
  \/ \E what \in {"get", "delete"} \cup Power : Ask(u, what)
  \/ Get(u) \/ FindForPower(u) \/ PowerCall(u) \/ PowerSnapshot(u)
  \/ DeleteCancels(u) \/ DeleteFinds(u) \/ DeleteCall(u)
  \/ RequestFails(u) \/ RequestCutOff(u) \/ GivesUp(u) \/ Returns(u)

LEMMA UserTypeStep ==
  ASSUME TypeOK, RequestsOK', late' \subseteq Op,
         container' \in [Kinds -> {"none", "created", "running", "exited"}],
         volume' \in {"none", "labelled", "plain"}, exit' \in {"none", "ok", "bad"},
         row' \in RowState, dropped' \in BOOLEAN, deleted' \in BOOLEAN,
         live' \in BOOLEAN, record' \in {"none", "installing", "failed"},
         UNCHANGED <<told, install, step, reply, lost>>
  PROVE  TypeOK'
BY DEF TypeOK, RequestsOK

LEMMA UserTypes ==
  ASSUME TypeOK, NEW u \in Users, UserStep(u)
  PROVE  TypeOK'
<1> USE DEF userOnly, createVars, engineVars
<1>0. /\ container \in [Kinds -> {"none", "created", "running", "exited"}]
      /\ volume \in {"none", "labelled", "plain"} /\ exit \in {"none", "ok", "bad"}
      /\ row \in RowState /\ dropped \in BOOLEAN /\ deleted \in BOOLEAN
      /\ live \in BOOLEAN /\ record \in {"none", "installing", "failed"}
      /\ late \subseteq Op /\ RequestsOK
  BY DEF TypeOK, RequestsOK
<1>a. /\ {"ok", "error"} \subseteq Answer /\ record \in Answer \ {"ok"}
      /\ \A q \in request[u] : q \in Request /\ Aimed(q)
  BY DEF TypeOK, Answer, RowState
<1>1. ASSUME NEW what \in {"get", "delete"} \cup Power, Ask(u, what) PROVE TypeOK'
  <2> DEFINE r == [ask |-> what, at |-> "sent", on |-> "none", waiting |-> TRUE,
                   seen |-> IF what = "get" THEN row ELSE "none", answer |-> "none"]
  <2>1. r \in Request /\ Aimed(r)
    BY <1>0 DEF Request, RowState, Answer, Aimed
  <2>2. Becoming(u, r)
    BY <1>1 DEF Ask, Becoming
  <2>3. RequestsOK'
    BY <2>1, <2>2, RequestType
  <2> QED BY <1>0, <1>1, <2>3, UserTypeStep DEF Ask
<1>2. CASE Get(u)
  <2>1. RequestsOK'
    BY <1>2, <1>a, AnswerType, ReportedType DEF Get
  <2> QED BY <1>0, <1>2, <2>1, UserTypeStep DEF Get
<1>3. CASE FindForPower(u)
  <2>1. RequestsOK'
    BY <1>3, <1>a, AnswerType, FindType DEF FindForPower
  <2> QED BY <1>0, <1>3, <2>1, UserTypeStep DEF FindForPower
<1>4. CASE PowerCall(u)
  <2> DEFINE after(q) == [q EXCEPT
        !.at = IF q.ask = "restart" /\ q.at = "call" THEN "again" ELSE "snapshot",
        !.on = IF q.ask = "restart" /\ q.at = "call" THEN q.on ELSE "none"]
  <2>1. PICK q \in request[u] : /\ q.ask \in Power /\ q.at \in {"call", "again"}
                                /\ Does(CallOf(q)) /\ Becoming(u, after(q))
    BY <1>4 DEF PowerCall
  <2>2. after(q) \in Request /\ Aimed(after(q))
    BY <2>1, <1>a DEF Request, Aimed
  <2>3. RequestsOK'
    BY <2>1, <2>2, RequestType
  <2>4. CallOf(q) \in Op
    BY <2>1, <1>a, CallOfType
  <2> QED BY <1>0, <1>4, <2>1, <2>3, <2>4, EngineType, UserTypeStep DEF PowerCall
<1>5. CASE PowerSnapshot(u)
  <2>1. RequestsOK'
    BY <1>5, <1>a, AnswerType, ReportedType DEF PowerSnapshot
  <2> QED BY <1>0, <1>5, <2>1, UserTypeStep DEF PowerSnapshot
<1>6. CASE DeleteCancels(u)
  <2> DEFINE next(q) == [q EXCEPT !.at = "find"]
  <2>1. PICK q \in request[u] : q.ask = "delete" /\ Becoming(u, next(q))
    BY <1>6 DEF DeleteCancels
  <2>2. next(q) \in Request /\ Aimed(next(q))
    BY <2>1, <1>a DEF Request, Aimed
  <2>3. RequestsOK'
    BY <2>1, <2>2, RequestType
  <2> QED BY <1>0, <1>6, <2>3, UserTypeStep DEF DeleteCancels
<1>7. CASE DeleteFinds(u)
  <2> DEFINE next(q) == [q EXCEPT !.at = "volume"]
  <2>1. PICK q \in request[u] : /\ q.at = "find"
                                /\ Finds(u, q, "call") \/ Becoming(u, next(q))
    BY <1>7 DEF DeleteFinds
  <2>2. next(q) \in Request /\ Aimed(next(q))
    BY <2>1, <1>a DEF Request, Aimed
  <2>3. RequestsOK'
    BY <2>1, <2>2, FindType, RequestType
  <2> QED BY <1>0, <1>7, <2>3, UserTypeStep DEF DeleteFinds
<1>8. CASE DeleteCall(u)
  <2> DEFINE next(q) == [q EXCEPT !.at = "volume", !.on = "none"]
  <2>1. PICK q \in request[u] :
          /\ q.ask = "delete" /\ q.at \in {"call", "volume"} /\ Does(CallOf(q))
          /\ Becoming(u, next(q)) \/ Answers(u, q, "ok")
          /\ deleted' = (deleted \/ q.at = "volume")
    BY <1>8 DEF DeleteCall
  <2>2. next(q) \in Request /\ Aimed(next(q))
    BY <2>1, <1>a DEF Request, Aimed
  <2>3. RequestsOK'
    BY <2>1, <2>2, <1>a, AnswerType, RequestType
  <2>4. CallOf(q) \in Op
    BY <2>1, <1>a, CallOfType
  <2>5. deleted' \in BOOLEAN
    BY <2>1
  <2> QED BY <1>0, <1>8, <2>1, <2>3, <2>4, <2>5, EngineType, UserTypeStep DEF DeleteCall
<1>9. CASE RequestFails(u)
  <2>1. PICK q \in request[u] : Answers(u, q, "error")
    BY <1>9 DEF RequestFails
  <2>2. RequestsOK'
    BY <2>1, <1>a, AnswerType
  <2> QED BY <1>0, <1>9, <2>2, UserTypeStep DEF RequestFails
<1>10. CASE RequestCutOff(u)
  <2>1. PICK q \in request[u] : /\ q.at \in {"call", "again", "volume"}
                                /\ GoLate({CallOf(q)}) /\ Answers(u, q, "error")
    BY <1>10 DEF RequestCutOff
  <2>2. late' \subseteq Op
    BY <2>1, <1>a, CallOfType, LateType
  <2>3. RequestsOK'
    BY <2>1, <1>a, AnswerType
  <2> QED BY <1>0, <1>10, <2>2, <2>3, UserTypeStep DEF RequestCutOff
<1>11. CASE GivesUp(u)
  <2> DEFINE next(q) == [q EXCEPT !.waiting = FALSE, !.seen = "none"]
  <2>1. PICK q \in request[u] : Becoming(u, next(q)) /\ row' \in {"none", row}
    BY <1>11 DEF GivesUp
  <2>2. next(q) \in Request /\ Aimed(next(q))
    BY <1>a DEF Request, Aimed, RowState
  <2>3. RequestsOK' /\ row' \in RowState
    BY <2>1, <2>2, <1>0, RequestType DEF RowState
  <2> QED BY <1>0, <1>11, <2>3, UserTypeStep DEF GivesUp
<1>12. CASE Returns(u)
  <2>1. RequestsOK'
    BY <1>0, <1>12 DEF Returns, RequestsOK
  <2>2. PICK q \in request[u] : row' \in IF q.waiting THEN RowAfter(q) ELSE {row}
    BY <1>12 DEF Returns
  <2>3. q.ask # "delete" /\ q.answer # "error" => q.answer \in RowState
    BY <1>a DEF Aimed, Request, Answer
  <2>4. RowAfter(q) \subseteq RowState
    BY <1>0, <2>3 DEF RowAfter, Updated, RowState
  <2>5. row' \in RowState
    BY <1>0, <2>2, <2>4
  <2> QED BY <1>0, <1>12, <2>1, <2>5, UserTypeStep DEF Returns
<1> QED
  BY <1>1, <1>2, <1>3, <1>4, <1>5, <1>6, <1>7, <1>8, <1>9, <1>10, <1>11, <1>12 DEF UserStep

\* The steps of the engine, and the death of the daemon.
WorldStep ==
  \/ \E op \in Op : LateCall(op)
  \/ \E how \in {"ok", "bad"} : ScriptEnds(how)
  \/ ServerExits

LEMMA WorldTypes ==
  ASSUME TypeOK, WorldStep
  PROVE  TypeOK'
<1> USE DEF createVars
<1>1. ASSUME NEW op \in Op, LateCall(op) PROVE TypeOK'
  <2>1. /\ container' \in [Kinds -> {"none", "created", "running", "exited"}]
        /\ volume' \in {"none", "labelled", "plain"} /\ exit' \in {"none", "ok", "bad"}
    BY <1>1, EngineType DEF LateCall
  <2> QED BY <1>1, <2>1 DEF LateCall, TypeOK, Aimed
<1>2. ASSUME NEW how \in {"ok", "bad"}, ScriptEnds(how) PROVE TypeOK'
  BY <1>2 DEF ScriptEnds, TypeOK, Ended, Aimed
<1>3. CASE ServerExits
  BY <1>3 DEF ServerExits, TypeOK, Aimed
<1> QED BY <1>1, <1>2, <1>3 DEF WorldStep

LEMMA CrashTypes ==
  ASSUME TypeOK, Crash
  PROVE  TypeOK'
<1> DEFINE cut(q) == [q EXCEPT !.at = "answered", !.on = "none",
                        !.answer = IF q.at = "answered" THEN @ ELSE "error"]
<1>1. request' = [u \in Users |-> {cut(q) : q \in request[u]}]
  BY DEF Crash
<1>2. ASSUME NEW q \in Request, Aimed(q) PROVE cut(q) \in Request /\ Aimed(cut(q))
  BY <1>2 DEF Request, Answer, Aimed
<1>3. \A u \in Users : \A q \in request[u] : q \in Request /\ Aimed(q)
  BY DEF TypeOK
<1>4. \A u \in Users : \A p, q \in request[u] : p = q
  BY DEF TypeOK
<1> HIDE DEF cut
<1>5. RequestsOK'
  BY <1>1, <1>2, <1>3, <1>4 DEF RequestsOK
<1>6. CallsUnderWay \subseteq Op
  BY <1>3, CallingType, CallOfType DEF CallsUnderWay
<1>7. late' \subseteq Op
  BY <1>6, LateType DEF Crash
<1>8. /\ step' \in Steps /\ lost' \subseteq Kinds
      /\ reply' \in {"none", "installing", "running", "stopped", "error"}
      /\ record' = "none" /\ live' = TRUE
      /\ UNCHANGED <<row, told, install, container, volume, exit, dropped, deleted>>
  BY DEF Crash, TypeOK, Steps, Answered, engineVars
<1> QED BY <1>5, <1>7, <1>8 DEF TypeOK, RequestsOK

LEMMA NextSteps ==
  ASSUME Next
  PROVE  CreateStep \/ (\E u \in Users : UserStep(u)) \/ WorldStep \/ Crash
BY DEF Next, CreateStep, UserStep, WorldStep

LEMMA TypeInit == Init => TypeOK
<1> SUFFICES ASSUME Init PROVE TypeOK
  OBVIOUS
<1> QED BY DEF Init, TypeOK, RowState, Steps, Op, Aimed

LEMMA TypeNext == TypeOK /\ [Next]_vars => TypeOK'
<1>1. ASSUME TypeOK, Next PROVE TypeOK'
  BY <1>1, NextSteps, CreateTypes, UserTypes, WorldTypes, CrashTypes
<1>2. ASSUME TypeOK, UNCHANGED vars PROVE TypeOK'
  BY <1>2 DEF TypeOK, vars, createVars, engineVars, Aimed
<1> QED BY <1>1, <1>2

\* Every variable of the server's life keeps its type, and a request that is
\* under way on a container has found one.
THEOREM ServersTypeCorrect == Spec => []TypeOK
<1>1. Init => TypeOK
  BY TypeInit
<1>2. TypeOK /\ [Next]_vars => TypeOK'
  BY TypeNext
<1> QED BY <1>1, <1>2, PTL DEF Spec

(***************************************************************************)
(* The order Create keeps: ServersInv is inductive.                         *)
(***************************************************************************)
\* A call to the engine makes a container only by creating it, and a run of the
\* script that is registered keeps its success.
LEMMA EngineMoves ==
  ASSUME TypeOK, NEW op \in Op, Does(op)
  PROVE  /\ \A k \in Kinds : k \in Present' => k \in Present \/ op = do("create", k)
         /\ exit = "ok" /\ Registered => exit' = "ok"
<1>1. CASE op.on = "volume"
  BY <1>1 DEF TypeOK, Does, VolumeDoes, Present
<1>2. CASE op.on # "volume"
  <2>1. op.on \in Kinds /\ op.do \in {"create", "start", "stop", "remove"}
    BY <1>2 DEF Op
  <2>2. op = [do |-> op.do, on |-> op.on]
    BY DEF Op
  <2>3. /\ op.on \in Present \/ op.do = "create"
        /\ container' = [container EXCEPT ![op.on] = Becomes(op)]
        /\ exit' = ExitAfter(op)
    BY <1>2, <2>1 DEF Does, Accepts, ContainerDoes
  <2>4. \A k \in Kinds : k \in Present' => k \in Present \/ op = do("create", k)
    BY <2>1, <2>2, <2>3 DEF Present, TypeOK, do
  <2>5. exit = "ok" /\ Registered => ExitAfter(op) = "ok"
    BY <2>1 DEF ExitAfter, Ended, Registered
  <2> QED BY <2>3, <2>4, <2>5
<1> QED BY <1>1, <1>2

\* A step that leaves Create where it is keeps its order, if it makes no
\* container but one that may come late and drops a record only by a Delete.
LEMMA InvKept ==
  ASSUME TypeOK, ServersInv, step # "unsent",
         UNCHANGED <<install, step, lost>>,
         \A k \in Kinds : k \in Present' => MayCome(k),
         \A k \in Kinds : do("create", k) \in late' => do("create", k) \in late,
         exit = "ok" /\ Registered => exit' = "ok",
         \/ UNCHANGED <<record, dropped>>
         \/ record' = "none" /\ dropped' = (dropped \/ record # "none")
  PROVE  ServersInv'
<1> USE DEF ServersInv
<1>1. \A k \in Kinds : MayCome(k)' => MayCome(k)
  BY DEF MayCome
<1>2. (LateIsLost /\ JobInOrder /\ BoxInOrder /\ JobIsInstall)'
  BY <1>1 DEF LateIsLost, JobInOrder, BoxInOrder, JobIsInstall
<1>3. ScriptSeen'
  BY <1>1 DEF ScriptSeen, BoxInOrder, BoxSteps, Registered
<1>4. RecordStands'
  <2>1. Background' <=> Background
    BY DEF Background, Under, Foreground
  <2>2. CASE UNCHANGED <<record, dropped>>
    BY <2>1, <2>2 DEF RecordStands
  <2>3. CASE record' = "none" /\ dropped' = (dropped \/ record # "none")
    <3>1. dropped' <=> dropped \/ record # "none"
      BY <2>3, Zenon
    <3>2. record' = "none"
      BY <2>3
    <3> QED BY <2>1, <3>1, <3>2 DEF RecordStands
  <2> QED BY <2>2, <2>3
<1>5. FailedLeavesNothing'
  <2>1. SUFFICES ASSUME record' = "failed", NEW k \in Present' PROVE k \in lost
    BY DEF FailedLeavesNothing
  <2>2. k \in Kinds /\ MayCome(k) /\ record = "failed"
    BY <2>1 DEF Present
  <2> QED BY <2>2 DEF FailedLeavesNothing, LateIsLost, MayCome
<1> QED BY <1>2, <1>3, <1>4, <1>5

LEMMA CallOfCreatesNothing ==
  ASSUME NEW q, NEW k PROVE CallOf(q) # do("create", k)
BY DEF CallOf, do

LEMMA UserInv ==
  ASSUME TypeOK, ServersInv, NEW u \in Users, UserStep(u)
  PROVE  ServersInv'
<1> USE DEF userOnly, createVars, engineVars
<1>1. step # "unsent"
  <2>1. row # "none" \/ request[u] # {}
    BY DEF UserStep, Ask, Get, FindForPower, PowerCall, PowerSnapshot, DeleteCancels,
           DeleteFinds, DeleteCall, RequestFails, RequestCutOff, GivesUp, Returns
  <2> QED BY <2>1 DEF ServersInv
<1>2. ASSUME UNCHANGED <<install, step, lost, container, late, exit>>,
             \/ UNCHANGED <<record, dropped>>
             \/ record' = "none" /\ dropped' = (dropped \/ record # "none")
      PROVE  ServersInv'
  BY <1>1, <1>2, InvKept DEF MayCome, Present
<1>3. ASSUME NEW q \in request[u], q.at \in {"call", "again", "volume"}, Does(CallOf(q)),
             UNCHANGED <<install, step, lost, late, record, dropped>>
      PROVE  ServersInv'
  <2>1. CallOf(q) \in Op
    BY <1>3, CallOfType DEF TypeOK
  <2> QED BY <1>1, <1>3, <2>1, EngineMoves, CallOfCreatesNothing, InvKept DEF MayCome
<1>4. CASE PowerCall(u) \/ DeleteCall(u)
  BY <1>3, <1>4 DEF PowerCall, DeleteCall
<1>5. CASE RequestCutOff(u)
  <2>1. \A k \in Kinds : do("create", k) \in late' => do("create", k) \in late
    BY <1>5, CallOfCreatesNothing DEF RequestCutOff, GoLate
  <2> QED BY <1>1, <1>5, <2>1, InvKept DEF RequestCutOff, MayCome, Present
<1>6. CASE DeleteCancels(u)
  BY <1>2, <1>6 DEF DeleteCancels
<1> QED
  BY <1>2, <1>4, <1>5, <1>6 DEF UserStep, Ask, Get, FindForPower, PowerSnapshot, DeleteFinds,
     RequestFails, GivesUp, Returns

LEMMA WorldInv ==
  ASSUME TypeOK, ServersInv, WorldStep
  PROVE  ServersInv'
<1> USE DEF createVars
<1>1. ASSUME NEW op \in Op, LateCall(op) PROVE ServersInv'
  <2>1. step # "unsent"
    BY <1>1 DEF LateCall, ServersInv
  <2> QED BY <1>1, <2>1, EngineMoves, InvKept DEF LateCall, MayCome
<1>2. ASSUME NEW k \in Kinds, container[k] = "running",
          container' = [container EXCEPT ![k] = "exited"],
             exit = "ok" => exit' = "ok",
             UNCHANGED <<install, step, lost, late, record, dropped>>
      PROVE  ServersInv'
  <2>1. step # "unsent"
    BY <1>2 DEF ServersInv, JobInOrder, BoxInOrder, MayCome, Present, JobSteps, BoxSteps
  <2>2. \A j \in Kinds : j \in Present' => j \in Present
    BY <1>2 DEF Present, TypeOK
  <2> QED BY <1>2, <2>1, <2>2, InvKept DEF MayCome
<1>3. ASSUME NEW how \in {"ok", "bad"}, ScriptEnds(how) PROVE ServersInv'
  BY <1>2, <1>3 DEF ScriptEnds, Ended
<1>4. CASE ServerExits
  BY <1>2, <1>4 DEF ServerExits
<1> QED BY <1>1, <1>3, <1>4 DEF WorldStep

LEMMA CrashInv ==
  ASSUME TypeOK, ServersInv, Crash
  PROVE  ServersInv'
<1> USE DEF engineVars
<1>1. \A k \in Kinds : do("create", k) \in late' =>
         do("create", k) \in late \/ do("create", k) \in Calling
  BY CallOfCreatesNothing DEF Crash, GoLate, CallsUnderWay
<1>2. do("create", "box") \in Calling => step = "createBox"
  BY DEF Calling, do
<1>3. CASE step = "unsent"
  <2>1. \A u \in Users : request'[u] = {}
    BY <1>3 DEF ServersInv, Crash
  <2>2. late' = {}
    <3>1. Calling = {} /\ CallsUnderWay = {}
      BY <1>3 DEF Calling, CallsUnderWay, ServersInv
    <3> QED BY <1>3, <3>1 DEF Crash, GoLate, ServersInv
  <2> QED BY <1>3, <2>1, <2>2
      DEF Crash, Under, ServersInv, LateIsLost, JobInOrder, BoxInOrder, JobIsInstall,
          ScriptSeen,
          RecordStands, FailedLeavesNothing, MayCome, Present, Background, Foreground,
          JobSteps, BoxSteps
<1>4. CASE step # "unsent"
  <2>1. step' = "done" /\ lost' = Kinds /\ record' = "none"
        /\ UNCHANGED <<install, container, exit, dropped>>
    BY <1>4 DEF Crash, Under
  <2>2. MayCome("box")' => MayCome("box") \/ step = "createBox"
    BY <1>1, <1>2, <2>1 DEF MayCome, Present
  <2> QED BY <2>1, <2>2
      DEF Under, ServersInv, LateIsLost, JobInOrder, BoxInOrder, JobIsInstall, ScriptSeen,
          RecordStands, FailedLeavesNothing, Background, Foreground, JobSteps, BoxSteps
<1> QED BY <1>3, <1>4

\* What Create's order says of containers and of the script.
InOrder == LateIsLost /\ JobInOrder /\ BoxInOrder /\ JobIsInstall /\ ScriptSeen

\* A step of Create that goes on leaves the record alone; one that ends it may
\* write the record of an install, as failed only if what is left is lost.
LEMMA CreateGoesOn ==
  ASSUME TypeOK, ServersInv, NEW next, GoesTo(next), step \notin {"unsent", "done", "inspect",
          "volume"},
         next \in JobSteps \cup BoxSteps \cup {"createJob", "createBox", "pull"}, next # "done",
         UNCHANGED <<install, dropped>>, InOrder'
  PROVE  ServersInv'
<1>1. step' = next /\ record' = record /\ step' \notin {"unsent", "done", "inspect", "volume"}
  BY DEF GoesTo, JobSteps, BoxSteps
<1>2. Background' <=> Background
  BY <1>1 DEF Background, Under, Foreground
<1>3. RecordStands'
  BY <1>1, <1>2 DEF ServersInv, RecordStands
<1>4. FailedLeavesNothing'
  BY <1>1 DEF ServersInv, RecordStands, FailedLeavesNothing
<1> QED BY <1>1, <1>3, <1>4 DEF ServersInv, InOrder

LEMMA CreateEnds ==
  ASSUME TypeOK, ServersInv, NEW err \in BOOLEAN, Ends(err), step \notin {"unsent", "done"},
         UNCHANGED <<install, dropped>>, InOrder',
         Background /\ err => Present' \subseteq lost'
  PROVE  ServersInv'
<1>1. step' = "done" /\ ~Background'
  BY DEF Ends, Background, Under
<1>2. CASE Foreground
  <2>1. record' = record /\ record # "failed"
    BY <1>2 DEF Ends, ServersInv, RecordStands
  <2> QED BY <1>1, <2>1 DEF ServersInv, RecordStands, FailedLeavesNothing, InOrder
<1>3. CASE ~Foreground
  <2>1. Background
    BY <1>3 DEF Background, Under, Foreground, TypeOK
  <2>2. record' = "none" \/ (record' = "failed" /\ err)
    BY <1>3 DEF Ends, Recorded, RecordedAlways
  <2> QED BY <1>1, <2>1, <2>2 DEF ServersInv, RecordStands, FailedLeavesNothing, InOrder
<1> QED BY <1>2, <1>3

LEMMA RemovedMoves ==
  ASSUME TypeOK, NEW k \in Kinds, Removed(k)
  PROVE  /\ Present' \subseteq Present /\ lost \subseteq lost'
         /\ k \in Present' => k \in lost'
         /\ exit = "ok" /\ Registered => exit' = "ok"
<1>1. CASE Does(do("remove", k)) /\ UNCHANGED lost
  <2>1. k \notin Present'
    BY <1>1 DEF Does, ContainerDoes, Becomes, do, Present, TypeOK
  <2>2. \A j \in Kinds : j \in Present' => j \in Present
    BY <1>1, OpType, EngineMoves DEF do
  <2> QED BY <1>1, <2>1, <2>2, OpType, EngineMoves DEF Present
<1>2. CASE UNCHANGED engineVars /\ lost' = lost \cup ({k} \cap Present)
  BY <1>2 DEF engineVars, Present
<1> QED BY <1>1, <1>2 DEF Removed

LEMMA CreateInv ==
  ASSUME TypeOK, ServersInv, CreateStep
  PROVE  ServersInv'
<1> USE DEF creatorOnly, engineVars, createVars
<1>1. CASE CreateServer
  BY <1>1 DEF CreateServer, ServersInv, Present, LateIsLost, JobInOrder, BoxInOrder,
          JobIsInstall, ScriptSeen, RecordStands,
          FailedLeavesNothing, MayCome, Background, Under, Foreground, JobSteps, BoxSteps
<1>2. CASE CreateAnswered \/ CreateTimesOut \/ ContextEnds
  <2>1. UNCHANGED <<install, step, record, lost, container, exit, late, request, dropped>>
    BY <1>2 DEF CreateAnswered, CreateTimesOut, ContextEnds
  <2>2. step = "unsent" => row = "none" /\ row' = row
    BY <1>2 DEF CreateAnswered, CreateTimesOut, ContextEnds, MayEnd, Under, ServersInv, Updated
  <2> QED BY <2>1, <2>2 DEF ServersInv, Present, LateIsLost, JobInOrder, BoxInOrder,
          JobIsInstall, ScriptSeen, RecordStands,
          FailedLeavesNothing, MayCome, Background, Under, Foreground, JobSteps, BoxSteps
<1>a. ServersInv => InOrder
  BY DEF ServersInv, InOrder
<1>5. CASE CreateInspects
  <2>1. UNCHANGED <<install, container, exit, late, lost, dropped>>
    BY <1>5 DEF CreateInspects
  <2>2. CASE GoesTo("volume")
    BY <1>5, <2>1, <2>2 DEF CreateInspects, GoesTo, ServersInv, Present, LateIsLost,
          JobInOrder, BoxInOrder, JobIsInstall, ScriptSeen, RecordStands,
          FailedLeavesNothing, MayCome, Background, Under, Foreground, JobSteps, BoxSteps
  <2>3. CASE Ends(TRUE)
    <3>1. InOrder' /\ ~Background
      BY <1>5, <1>a, <2>1, <2>3 DEF CreateInspects, Ends, InOrder, Present, Background,
          Foreground, LateIsLost, JobInOrder, BoxInOrder, JobIsInstall, ScriptSeen, MayCome,
          JobSteps, BoxSteps
    <3> QED BY <1>5, <2>1, <2>3, <3>1, CreateEnds DEF CreateInspects
  <2> QED BY <1>5, <2>2, <2>3 DEF CreateInspects
<1>6. CASE CreateVolume
  <2>1. Present' \subseteq Present /\ UNCHANGED <<install, late, lost, dropped>>
    BY <1>6 DEF CreateVolume, Does, VolumeDoes, do, Present
  <2>2. exit' = exit
    BY <1>6 DEF CreateVolume, Does, VolumeDoes, do
  <2>3. step = "volume" /\ Present \subseteq Kinds
    BY <1>6 DEF CreateVolume, Present
  <2>4. InOrder' /\ step' # "unsent" /\ record \notin {"failed"}
    <3>1. step' \in {"pull", "done"}
      BY <1>6 DEF CreateVolume, GoesTo, Ends
    <3> QED BY <2>1, <2>2, <2>3, <3>1, <1>a DEF InOrder, ServersInv, RecordStands, LateIsLost,
          JobInOrder, BoxInOrder, JobIsInstall, ScriptSeen, MayCome, JobSteps, BoxSteps
  <2>5. CASE install
    <3>1. step' = "pull" /\ record' = "installing"
      BY <1>6, <2>5 DEF CreateVolume
    <3> QED BY <2>1, <2>4, <2>5, <3>1
        DEF ServersInv, InOrder, RecordStands, FailedLeavesNothing, Background, Under,
          Foreground
  <2>6. CASE ~install /\ Ends(TRUE)
    BY <2>1, <2>3, <2>4, <2>6, CreateEnds DEF Background
  <2>7. CASE ~install /\ GoesTo("pull")
    BY <2>1, <2>3, <2>4, <2>7
      DEF ServersInv, InOrder, RecordStands, FailedLeavesNothing, Background, Under,
          Foreground, GoesTo
  <2> QED BY <1>6, <2>5, <2>6, <2>7 DEF CreateVolume
<1>7. CASE PullImage
  <2> DEFINE next == IF install THEN "createJob" ELSE "createBox"
  <2>1. UNCHANGED <<install, container, exit, late, lost,
          dropped>> /\ step = "pull" /\ GoesTo(next)
    BY <1>7 DEF PullImage
  <2>2. InOrder'
    BY <2>1, <1>a DEF InOrder, GoesTo, Present, LateIsLost, JobInOrder, BoxInOrder,
          JobIsInstall, ScriptSeen, MayCome, JobSteps, BoxSteps
  <2> QED BY <2>1, <2>2, CreateGoesOn
<1>8. CASE CallFails
  <2>1. /\ UNCHANGED <<install, container, exit, dropped>>
        /\ Present' = Present
        /\ lost' = lost \cup NotSeen
        /\ \A k \in Kinds : do("create", k) \in late' =>
             \/ do("create", k) \in late
             \/ do("create", k) \in Calling /\ k \in NotSeen
    BY <1>8 DEF CallFails, GoLate, CutOff, NotSeen, Present, do
  <2>2. /\ do("create", "job") \in Calling => step = "createJob"
        /\ do("create", "box") \in Calling => step = "createBox"
    BY DEF Calling, do
  <2>3. CASE step \in {"inspect", "volume", "pull", "createJob", "createBox"} /\ Ends(TRUE)
    <3>1. step' = "done"
      BY <2>3 DEF Ends
    <3>2. InOrder'
      BY <2>1, <2>2, <2>3, <3>1, <1>a DEF InOrder, LateIsLost, JobInOrder, BoxInOrder,
          JobIsInstall, ScriptSeen,
          MayCome, JobSteps, BoxSteps
    <3>3. Present' \subseteq lost'
      BY <2>1, <2>3, <1>a DEF InOrder, Present, LateIsLost, JobInOrder, BoxInOrder,
          JobIsInstall, ScriptSeen, MayCome, JobSteps, BoxSteps
    <3> QED BY <2>1, <2>3, <3>2, <3>3, CreateEnds
  <2>4. CASE step \in {"startJob", "register"} /\ GoesTo("dropJob")
    <3>1. InOrder'
      BY <2>1, <2>2, <2>4, <1>a DEF InOrder, GoesTo, LateIsLost, JobInOrder, BoxInOrder,
          JobIsInstall, ScriptSeen, MayCome, JobSteps, BoxSteps
    <3> QED BY <2>1, <2>4, <3>1, CreateGoesOn DEF JobSteps
  <2>5. CASE step = "startBox" /\ GoesTo("rollback")
    <3>1. InOrder'
      BY <2>1, <2>2, <2>5, <1>a DEF InOrder, GoesTo, LateIsLost, JobInOrder, BoxInOrder,
          JobIsInstall, ScriptSeen, MayCome, JobSteps, BoxSteps
    <3> QED BY <2>1, <2>5, <3>1, CreateGoesOn DEF BoxSteps
  <2> QED BY <1>8, <2>3, <2>4, <2>5 DEF CallFails
<1>9. CASE CreateJob \/ StartJob
  <2>1. PICK op \in {do("create", "job"), do("start", "job")} : Does(op)
    BY <1>9 DEF CreateJob, StartJob
  <2>2. /\ "box" \in Present' => "box" \in Present
        /\ step \in {"createJob", "startJob"}
        /\ UNCHANGED <<install, late, lost, dropped>>
    BY <1>9, <2>1, EngineMoves, OpType DEF CreateJob, StartJob, do
  <2>3. PICK next \in {"startJob", "register", "dropJob"} : GoesTo(next)
    BY <1>9 DEF CreateJob, StartJob
  <2>4. InOrder'
    BY <2>2, <2>3, <1>a DEF InOrder, GoesTo, LateIsLost, JobInOrder, BoxInOrder, JobIsInstall,
          ScriptSeen, MayCome, JobSteps, BoxSteps
  <2> QED BY <2>2, <2>3, <2>4, CreateGoesOn DEF JobSteps
<1>10. CASE RegisterWait \/ JobWaits
  <2>1. PICK next \in {"wait", "removeJob", "dropJob"} :
          GoesTo(next) /\ (next = "removeJob" => exit = "ok")
    BY <1>10 DEF RegisterWait, JobWaits, MayInstallOn
  <2>2. step \in {"register", "wait"} /\ UNCHANGED <<install, container, exit, late, lost,
          dropped>>
    BY <1>10 DEF RegisterWait, JobWaits
  <2>3. InOrder'
    BY <2>1, <2>2, <1>a DEF InOrder, GoesTo, Present, LateIsLost, JobInOrder, BoxInOrder,
          JobIsInstall, ScriptSeen, MayCome, JobSteps, BoxSteps
  <2> QED BY <2>1, <2>2, <2>3, CreateGoesOn DEF JobSteps
<1>11. CASE RemoveJob
  <2>1. step \in {"removeJob", "dropJob"} /\ UNCHANGED <<install, late, dropped>>
    BY <1>11 DEF RemoveJob
  <2>2. /\ Present' \subseteq Present /\ lost \subseteq lost'
        /\ "job" \in Present' => "job" \in lost'
        /\ exit = "ok" => exit' = "ok"
    BY <1>11, <2>1, RemovedMoves DEF RemoveJob, JobRemoved, Registered
  <2>3. step' \in {"createBox", "done"} /\ (step' = "createBox" => step = "removeJob")
    BY <1>11 DEF RemoveJob, GoesTo, Ends
  <2>4. InOrder'
    BY <2>1, <2>2, <2>3, <1>a DEF InOrder, LateIsLost, JobInOrder, BoxInOrder, JobIsInstall,
          ScriptSeen,
          MayCome, JobSteps, BoxSteps
  <2>5. Present' \subseteq lost'
    BY <2>1, <2>2, <1>a DEF InOrder, BoxInOrder, MayCome, BoxSteps, Present
  <2> QED BY <1>11, <2>1, <2>4, <2>5, CreateGoesOn, CreateEnds DEF RemoveJob
<1>12. CASE CreateBox \/ StartBox
  <2>1. PICK op \in {do("create", "box"), do("start", "box")} : Does(op)
    BY <1>12 DEF CreateBox, StartBox
  <2>a. op \in Op /\ op # do("create", "job")
    BY OpType DEF do
  <2>b. step \in {"createBox", "startBox"} /\ UNCHANGED <<install, late, lost, dropped>>
    BY <1>12 DEF CreateBox, StartBox
  <2>2. /\ "job" \in Present' => "job" \in Present
        /\ step \in {"createBox", "startBox"}
        /\ UNCHANGED <<install, late, lost, dropped>>
        /\ exit = "ok" => exit' = "ok"
    BY <2>1, <2>a, <2>b, EngineMoves DEF Registered
  <2>3. \/ \E next \in {"startBox", "rollback", "snapshot"} : GoesTo(next)
        \/ Ends(FALSE)
    BY <1>12 DEF CreateBox, StartBox
  <2>4. step' \in BoxSteps
    BY <2>3 DEF GoesTo, Ends, BoxSteps
  <2>5. InOrder'
    BY <2>2, <2>4, <1>a DEF InOrder, LateIsLost, JobInOrder, BoxInOrder, JobIsInstall,
          ScriptSeen,
          MayCome, JobSteps, BoxSteps
  <2> QED BY <2>2, <2>3, <2>5, CreateGoesOn, CreateEnds DEF BoxSteps
<1>13. CASE Rollback
  <2>1. step = "rollback" /\ Ends(TRUE) /\ step' = "done" /\ UNCHANGED <<install, late,
          dropped>>
    BY <1>13 DEF Rollback, Ends
  <2>2. /\ Present' \subseteq Present /\ lost \subseteq lost'
        /\ "box" \in Present' => "box" \in lost'
        /\ exit = "ok" => exit' = "ok"
    BY <1>13, <2>1, RemovedMoves DEF Rollback, RolledBack, Registered
  <2>3. InOrder'
    BY <2>1, <2>2, <1>a DEF InOrder, LateIsLost, JobInOrder, BoxInOrder, JobIsInstall,
          ScriptSeen,
          MayCome, JobSteps, BoxSteps
  <2>4. Present' \subseteq lost'
    BY <2>1, <2>2, <1>a DEF InOrder, JobInOrder, MayCome, JobSteps, Present
  <2> QED BY <2>1, <2>3, <2>4, CreateEnds
<1>14. CASE CreateSnapshot
  <2>1. /\ step = "snapshot" /\ step' = "done"
        /\ UNCHANGED <<install, container, exit, late, lost, dropped, record>>
    BY <1>14 DEF CreateSnapshot
  <2> QED BY <2>1 DEF ServersInv, Present, RecordStands, FailedLeavesNothing, Background, Under,
            Foreground, LateIsLost, JobInOrder, BoxInOrder, JobIsInstall, ScriptSeen, MayCome,
          JobSteps, BoxSteps
<1> QED
  BY <1>1, <1>2, <1>5, <1>6, <1>7, <1>8, <1>9, <1>10, <1>11, <1>12, <1>13, <1>14 DEF CreateStep

LEMMA InvInit == Init => ServersInv
<1> SUFFICES ASSUME Init PROVE ServersInv
  OBVIOUS
<1> QED
  BY DEF Init, ServersInv, Present, RecordStands, FailedLeavesNothing, Background, Under,
          Foreground,
         LateIsLost, JobInOrder, BoxInOrder, JobIsInstall, ScriptSeen, MayCome, JobSteps,
          BoxSteps

LEMMA InvNext == TypeOK /\ ServersInv /\ [Next]_vars => ServersInv'
<1>1. ASSUME TypeOK, ServersInv, Next PROVE ServersInv'
  BY <1>1, NextSteps, CreateInv, UserInv, WorldInv, CrashInv
<1>2. ASSUME ServersInv, UNCHANGED vars PROVE ServersInv'
  BY <1>2 DEF vars, createVars, engineVars, ServersInv, Present, RecordStands,
          FailedLeavesNothing,
     Background, Under, Foreground, LateIsLost, JobInOrder, BoxInOrder, JobIsInstall,
          ScriptSeen, MayCome, JobSteps, BoxSteps
<1> QED BY <1>1, <1>2

\* The order Create keeps against every interleaving of users, late calls and
\* crashes, and that a failed install leaves nothing but what was lost.
THEOREM CreateKeepsOrder == Spec => []ServersInv
<1>1. Init => TypeOK /\ ServersInv
  BY TypeInit, InvInit
<1>2. TypeOK /\ ServersInv /\ [Next]_vars => (TypeOK /\ ServersInv)'
  BY TypeNext, InvNext
<1> QED BY <1>1, <1>2, PTL DEF Spec

\* There is one container with the server's label, unless a removal failed.
THEOREM OneContainerCorrect == Spec => []OneContainer
<1>1. ServersInv => OneContainer
  BY DEF ServersInv, OneContainer, JobInOrder, BoxInOrder, MayCome, JobSteps, BoxSteps
<1> QED BY <1>1, CreateKeepsOrder, PTL

\* A poll during an install reports the install and not its container.
THEOREM JobHiddenCorrect == Spec => []JobHidden
<1>1. TypeOK /\ ServersInv => JobHidden
  BY DEF TypeOK, ServersInv, JobHidden, JobInOrder, MayCome, JobSteps, JobIsInstall,
          RecordStands,
         Background, Under, Foreground
<1> QED BY <1>1, ServersTypeCorrect, CreateKeepsOrder, PTL

\* The server's container comes to exist only on a finished install.
THEOREM BootsCorrect == Spec => []BootsOnInstalled
<1>1. ServersInv => BootsOnInstalled
  BY DEF ServersInv, BootsOnInstalled, ScriptSeen, MayCome
<1> QED BY <1>1, CreateKeepsOrder, PTL

\* What a failed install leaves was lost.
THEOREM FailedCorrect == Spec => []FailedLeavesNothing
<1>1. ServersInv => FailedLeavesNothing
  BY DEF ServersInv
<1> QED BY <1>1, CreateKeepsOrder, PTL

\* An install that a Delete dropped leaves no record behind when it ends.
THEOREM DroppedCorrect == Spec => []DroppedStays
<1>1. Init => DroppedStays
  BY DEF Init, DroppedStays
<1>2. ASSUME TypeOK, ServersInv, DroppedStays, Next PROVE DroppedStays'
  <2> USE DEF DroppedStays, creatorOnly, userOnly, createVars, engineVars
  <2>1. ASSUME UNCHANGED <<record, dropped>> PROVE DroppedStays'
    BY <1>2, <2>1
  <2>2. ASSUME NEW err \in BOOLEAN, Ends(err), UNCHANGED dropped PROVE DroppedStays'
    BY <1>2, <2>2 DEF Ends, Recorded
  <2>3. ASSUME NEW next, GoesTo(next), UNCHANGED dropped PROVE DroppedStays'
    BY <1>2, <2>3 DEF GoesTo
  <2>4. CASE CreateVolume
    <3>1. ~dropped
      BY <1>2, <2>4 DEF CreateVolume, ServersInv, RecordStands, Background, Foreground
    <3>2. ~dropped'
      BY <2>4, <3>1 DEF CreateVolume
    <3> QED BY <3>2
  <2>5. CASE CreateStep /\ ~CreateVolume
    BY <2>1, <2>2, <2>3, <2>5 DEF CreateStep, CreateServer, CreateAnswered, CreateTimesOut,
       ContextEnds, CreateInspects, PullImage, CallFails, CreateJob, StartJob, RegisterWait,
       JobWaits, RemoveJob, CreateBox, StartBox, Rollback, CreateSnapshot
  <2>6. ASSUME NEW u \in Users, UserStep(u) PROVE DroppedStays'
    BY <2>1, <2>6 DEF UserStep, Ask, Get, FindForPower, PowerCall, PowerSnapshot,
       DeleteCancels, DeleteFinds, DeleteCall, RequestFails, RequestCutOff, GivesUp, Returns
  <2>7. CASE WorldStep
    BY <2>1, <2>7 DEF WorldStep, LateCall, ScriptEnds, ServerExits
  <2>8. CASE Crash
    BY <2>8 DEF Crash
  <2> QED BY <1>2, <2>4, <2>5, <2>6, <2>7, <2>8, NextSteps
<1>3. TypeOK /\ ServersInv /\ DroppedStays /\ [Next]_vars => DroppedStays'
  <2>1. ASSUME DroppedStays, UNCHANGED vars PROVE DroppedStays'
    BY <2>1 DEF DroppedStays, vars, createVars
  <2> QED BY <1>2, <2>1
<1> QED BY <1>1, <1>3, ServersTypeCorrect, CreateKeepsOrder, PTL DEF Spec

\* No answer that comes late brings a removed row back.
THEOREM RowRemovedCorrect == Spec => RowStaysRemoved
<1>1. ASSUME Next, row = "none", row' # "none" PROVE step = "unsent"
  <2> USE DEF creatorOnly, userOnly, createVars, engineVars
  <2>1. CASE CreateStep
    BY <1>1, <2>1 DEF CreateStep, CreateServer, CreateAnswered, CreateTimesOut, Updated,
       ContextEnds, CreateInspects, CreateVolume, PullImage, CallFails, CreateJob, StartJob,
       RegisterWait, JobWaits, RemoveJob, CreateBox, StartBox, Rollback, CreateSnapshot
  <2>2. ASSUME NEW u \in Users, UserStep(u) PROVE FALSE
    <3>1. \A q \in request[u] : RowAfter(q) = {"none"}
      BY <1>1 DEF RowAfter, Updated
    <3> QED BY <1>1, <2>2, <3>1 DEF UserStep, Ask, Get, FindForPower, PowerCall, PowerSnapshot,
       DeleteCancels, DeleteFinds, DeleteCall, RequestFails, RequestCutOff, GivesUp, Returns
  <2>3. CASE WorldStep \/ Crash
    BY <1>1, <2>3 DEF WorldStep, LateCall, ScriptEnds, ServerExits, Crash
  <2> QED BY <1>1, <2>1, <2>2, <2>3, NextSteps
<1>2. [Next]_vars => [row = "none" /\ row' # "none" => step = "unsent"]_vars
  BY <1>1 DEF vars
<1> QED BY <1>2, PTL DEF Spec, RowStaysRemoved
=============================================================================
