--------------------------- MODULE BackupsProofs ---------------------------
(***************************************************************************)
(* Proofs about Backups: its types, that a lock nothing raced holds, that a *)
(* restore nothing disturbed is exact, and that the tracker tells the truth *)
(* about creates, for any number of workers, seconds and versions.          *)
(***************************************************************************)
EXTENDS Backups, TLAPS

\* What a worker does is told by one record, and what it becomes by another.
LEMMA OneJob ==
  ASSUME BackupsTypeOK, NEW w \in Workers, NEW j \in work[w]
  PROVE  j \in Work /\ work[w] = {j}
BY DEF BackupsTypeOK

LEMMA JobChanged ==
  ASSUME BackupsTypeOK, NEW w \in Workers, NEW k \in Work, Becomes(w, k)
  PROVE  /\ work' \in [Workers -> SUBSET Work]
         /\ \A x \in Workers : \A a, b \in work'[x] : a = b
         /\ \A x \in Workers : work'[x] = IF x = w THEN {k} ELSE work[x]
BY DEF BackupsTypeOK, Becomes

LEMMA JobEnds ==
  ASSUME BackupsTypeOK, NEW w \in Workers, Ends(w)
  PROVE  /\ work' \in [Workers -> SUBSET Work]
         /\ \A x \in Workers : \A a, b \in work'[x] : a = b
         /\ \A x \in Workers : work'[x] = IF x = w THEN {} ELSE work[x]
BY DEF BackupsTypeOK, Ends

\* A step of a worker's job to another place keeps all else of the job.
LEMMA JobGoes ==
  ASSUME BackupsTypeOK, NEW w \in Workers, NEW j \in work[w],
         NEW at \in {"meta", "stored", "failed", "forgetting", "checked", "deleting",
                     "deleted", "stopped"},
         Goes(w, j, at)
  PROVE  /\ work' \in [Workers -> SUBSET Work]
         /\ \A x \in Workers : \A a, b \in work'[x] : a = b
         /\ \A x \in Workers :
              work'[x] = IF x = w THEN {[j EXCEPT !.at = at]} ELSE work[x]
<1>1. j \in Work
  BY OneJob
<1>2. [j EXCEPT !.at = at] \in Work
  BY <1>1 DEF Work
<1>. QED
  BY <1>2, JobChanged DEF Goes

LEMMA JobFields ==
  ASSUME NEW j \in Work, NEW d \in Data, NEW c \in BOOLEAN
  PROVE  /\ [j EXCEPT !.alone = FALSE] \in Work
         /\ [j EXCEPT !.watched = FALSE, !.alone = FALSE] \in Work
         /\ [j EXCEPT !.at = "reading", !.seen = d] \in Work
         /\ [j EXCEPT !.at = "restored", !.seen = d] \in Work
         /\ \A b \in BOOLEAN : [j EXCEPT !.at = "extracting", !.wiped = c, !.alone = b] \in Work
BY DEF Work

\* Whatever a step makes of every job at once, a worker still has one at most.
LEMMA NobodyAloneType ==
  ASSUME BackupsTypeOK, NEW w \in Workers
  PROVE  /\ NobodyAlone(w) \in SUBSET Work
         /\ \A a, b \in NobodyAlone(w) : a = b
         /\ Unwatched(w) \in SUBSET Work
         /\ \A a, b \in Unwatched(w) : a = b
<1>1. \A j \in work[w] : j \in Work
  BY OneJob
<1>2. \A j \in work[w] : /\ [j EXCEPT !.alone = FALSE] \in Work
                         /\ [j EXCEPT !.watched = FALSE, !.alone = FALSE] \in Work
  BY <1>1, JobFields DEF Data
<1>3. \A j, k \in work[w] : j = k
  BY DEF BackupsTypeOK
<1>. QED
  BY <1>2, <1>3 DEF NobodyAlone, Unwatched

LEMMA NewJob ==
  ASSUME NEW what \in {"create", "run", "delete", "restore"}, NEW s \in Second,
         NEW at \in {"start", "asked", "stopping"}
  PROVE  New(what, at, s) \in Work
BY DEF New, Work, Data

-----------------------------------------------------------------------------
\* Every variable keeps its type.
THEOREM BackupsTypeCorrect == BackupsSpec => []BackupsTypeOK
<1>1. BackupsInit => BackupsTypeOK
  BY SecondAssumption DEF BackupsInit, BackupsTypeOK, Second, Data
<1>2. BackupsTypeOK /\ [BackupsNext]_backupVars => BackupsTypeOK'
  <2>. SUFFICES ASSUME BackupsTypeOK, [BackupsNext]_backupVars PROVE BackupsTypeOK'
    OBVIOUS
  <2>1. CASE UNCHANGED backupVars
    BY <2>1 DEF backupVars, BackupsTypeOK
  <2>2. CASE Tick
    BY <2>2, SecondAssumption DEF Tick, BackupsTypeOK, Second, repoVars, serverVars
  <2>3. CASE Start
    <3>1. work' = [w \in Workers |-> NobodyAlone(w)]
      BY <2>3 DEF Start
    <3>2. work' \in [Workers -> SUBSET Work]
      BY <3>1, NobodyAloneType
    <3>3. \A w \in Workers : \A j, k \in work'[w] : j = k
      BY <3>1, NobodyAloneType
    <3>. QED
      BY <2>3, <3>2, <3>3 DEF Start, BackupsTypeOK, repoVars
  <2>4. CASE CrashBackups
    <3>1. work' = [w \in Workers |-> Unwatched(w)]
      BY <2>4 DEF CrashBackups
    <3>2. work' \in [Workers -> SUBSET Work]
      BY <3>1, NobodyAloneType
    <3>3. \A w \in Workers : \A j, k \in work'[w] : j = k
      BY <3>1, NobodyAloneType
    <3>. QED
      BY <2>4, <3>2, <3>3 DEF CrashBackups, BackupsTypeOK, repoVars, serverVars
  <2>5. ASSUME NEW v \in Versions, ServerWrites(v) PROVE BackupsTypeOK'
    <3>1. volume' \in Data
      BY <2>5 DEF ServerWrites, BackupsTypeOK, Data
    <3>. QED
      BY <2>5, <3>1 DEF ServerWrites, BackupsTypeOK, repoVars
  <2>6. ASSUME NEW s \in Second, NEW lock \in BOOLEAN, SetLock(s, lock)
        PROVE  BackupsTypeOK'
    BY <2>6 DEF SetLock, BackupsTypeOK, repoVars, serverVars
  <2>7. ASSUME NEW w \in Workers, NEW s \in Second, AskDelete(w, s) \/ AskRestore(w, s)
        PROVE  BackupsTypeOK'
    BY <2>7, NewJob, JobChanged DEF AskDelete, AskRestore, BackupsTypeOK, repoVars, serverVars
  <2>8. ASSUME NEW w \in Workers, Create(w) \/ RunBackup(w) PROVE BackupsTypeOK'
    <3>1. clock \in Second
      BY DEF BackupsTypeOK
    <3>2. PICK k \in Work : Becomes(w, k)
      BY <2>8, <3>1, NewJob DEF Create, RunBackup
    <3>3. /\ work' \in [Workers -> SUBSET Work]
          /\ \A x \in Workers : \A a, b \in work'[x] : a = b
      BY <3>2, JobChanged
    <3>. QED
      BY <2>8, <3>1, <3>3 DEF Create, RunBackup, BackupsTypeOK, repoVars, serverVars
  <2>9. ASSUME NEW w \in Workers, BorgReads(w) PROVE BackupsTypeOK'
    <3>1. PICK j \in work[w] : Becomes(w, [j EXCEPT !.at = "reading", !.seen = volume])
      BY <2>9 DEF BorgReads
    <3>2. [j EXCEPT !.at = "reading", !.seen = volume] \in Work
      BY OneJob, JobFields DEF BackupsTypeOK
    <3>3. /\ work' \in [Workers -> SUBSET Work]
          /\ \A x \in Workers : \A a, b \in work'[x] : a = b
      BY <3>1, <3>2, JobChanged
    <3>. QED
      BY <2>9, <3>3 DEF BorgReads, BackupsTypeOK, repoVars, serverVars
  <2>10. ASSUME NEW w \in Workers, BorgCreates(w) PROVE BackupsTypeOK'
    <3>1. PICK j \in work[w] :
            /\ archives' = archives \cup {j.name}
            /\ content' = [content EXCEPT ![j.name] = Archived(j.seen)]
            /\ Goes(w, j, "meta") \/ Goes(w, j, "failed") \/ Ends(w)
      BY <2>10 DEF BorgCreates
    <3>2. j.name \in Second /\ j.seen \in Data
      BY OneJob DEF Work
    <3>3. Archived(j.seen) \in Data
      BY <3>2 DEF Archived, Data, BackupsTypeOK
    <3>4. /\ work' \in [Workers -> SUBSET Work]
          /\ \A x \in Workers : \A a, b \in work'[x] : a = b
      BY <3>1, JobGoes, JobEnds
    <3>5. archives' \subseteq Second /\ content' \in [Second -> Data]
      BY <3>1, <3>2, <3>3 DEF BackupsTypeOK
    <3>. QED
      BY <2>10, <3>4, <3>5 DEF BorgCreates, BackupsTypeOK, serverVars
  <2>11. ASSUME NEW w \in Workers, PutBackupMeta(w) PROVE BackupsTypeOK'
    BY <2>11, JobGoes, OneJob DEF PutBackupMeta, BackupsTypeOK, repoVars, serverVars
  <2>12. ASSUME NEW w \in Workers, CreateFails(w) PROVE BackupsTypeOK'
    BY <2>12, JobGoes, JobEnds DEF CreateFails, BackupsTypeOK, repoVars, serverVars
  <2>13. ASSUME NEW w \in Workers, CreateEnds(w) PROVE BackupsTypeOK'
    <3>1. creating' \in [Second -> {"none", "creating", "failed"}]
      BY <2>13, OneJob DEF CreateEnds, BackupsTypeOK, Outcome, Work
    <3>. QED
      BY <2>13, <3>1, JobEnds DEF CreateEnds, BackupsTypeOK, repoVars, serverVars
  <2>14. ASSUME NEW w \in Workers,
                DeleteReadsTracker(w) \/ DeleteReadsLock(w) \/ DeleteFails(w)
         PROVE  BackupsTypeOK'
    <3>1. /\ work' \in [Workers -> SUBSET Work]
          /\ \A x \in Workers : \A a, b \in work'[x] : a = b
      BY <2>14, JobGoes, JobEnds DEF DeleteReadsTracker, DeleteReadsLock, DeleteFails
    <3>. QED
      BY <2>14, <3>1 DEF DeleteReadsTracker, DeleteReadsLock, DeleteFails, BackupsTypeOK,
                         repoVars, serverVars
  <2>15. ASSUME NEW w \in Workers, DeleteForgets(w) \/ DeleteBackupMeta(w)
         PROVE  BackupsTypeOK'
    <3>1. /\ meta' \in [Second -> {"none", "unlocked", "locked"}]
          /\ creating' \in [Second -> {"none", "creating", "failed"}]
      BY <2>15 DEF DeleteForgets, DeleteBackupMeta, BackupsTypeOK
    <3>2. Ends(w)
      BY <2>15 DEF DeleteForgets, DeleteBackupMeta
    <3>. QED
      BY <2>15, <3>1, <3>2, JobEnds
         DEF DeleteForgets, DeleteBackupMeta, BackupsTypeOK, repoVars, serverVars
  <2>16. ASSUME NEW w \in Workers, BorgDeletes(w) PROVE BackupsTypeOK'
    <3>1. PICK j \in work[w] :
            /\ archives' = archives \ {j.name}
            /\ content' = [content EXCEPT ![j.name] = {}]
            /\ Goes(w, j, "deleted") \/ Ends(w)
      BY <2>16 DEF BorgDeletes
    <3>2. archives' \subseteq Second /\ content' \in [Second -> Data]
      BY <3>1 DEF BackupsTypeOK, Data
    <3>3. /\ work' \in [Workers -> SUBSET Work]
          /\ \A x \in Workers : \A a, b \in work'[x] : a = b
      BY <3>1, JobGoes, JobEnds
    <3>. QED
      BY <2>16, <3>2, <3>3 DEF BorgDeletes, BackupsTypeOK, serverVars
  <2>17. ASSUME NEW w \in Workers, StopForRestore(w) PROVE BackupsTypeOK'
    BY <2>17, JobGoes DEF StopForRestore, BackupsTypeOK, repoVars
  <2>18. ASSUME NEW w \in Workers, RestoreWipes(w) PROVE BackupsTypeOK'
    <3>1. PICK j \in work[w], wiped \in BOOLEAN :
            /\ volume' \in IF wiped THEN {{}} ELSE {volume, volume \cup {"torn"}}
            /\ work' = [x \in Workers |->
              IF x = w THEN {[j EXCEPT !.at = "extracting", !.wiped = wiped,
                                       !.alone = ~up /\ ~Extracting]}
                       ELSE NobodyAlone(x)]
      BY <2>18 DEF RestoreWipes
    <3>2. (~up /\ ~Extracting) \in BOOLEAN
      OBVIOUS
    <3>3. [j EXCEPT !.at = "extracting", !.wiped = wiped,
                    !.alone = (~up /\ ~Extracting)] \in Work
      <4>. DEFINE b == ~up /\ ~Extracting
      <4>1. j \in Work /\ {} \in Data
        BY OneJob DEF Data
      <4>2. b \in BOOLEAN
        BY <3>2
      <4>. HIDE DEF b
      <4>3. [j EXCEPT !.at = "extracting", !.wiped = wiped, !.alone = b] \in Work
        BY <4>1, <4>2, JobFields
      <4>. QED
        BY <4>3 DEF b
    <3>5. work' \in [Workers -> SUBSET Work]
      BY <3>1, <3>3, NobodyAloneType
    <3>6. \A x \in Workers : \A a, b \in work'[x] : a = b
      BY <3>1, NobodyAloneType
    <3>7. volume' \in Data
      BY <3>1 DEF BackupsTypeOK, Data
    <3>. QED
      BY <2>18, <3>5, <3>6, <3>7 DEF RestoreWipes, BackupsTypeOK, repoVars
  <2>19. ASSUME NEW w \in Workers, BorgExtracts(w) PROVE BackupsTypeOK'
    <3>1. PICK j \in work[w] :
            /\ volume' = volume \cup content[j.name]
            /\ \/ Becomes(w, [j EXCEPT !.at = "restored", !.seen = content[j.name]])
               \/ Ends(w)
      BY <2>19 DEF BorgExtracts
    <3>2. j \in Work /\ content[j.name] \in Data
      BY OneJob DEF Work, BackupsTypeOK
    <3>3. [j EXCEPT !.at = "restored", !.seen = content[j.name]] \in Work
      BY <3>2 DEF Work
    <3>4. volume' \in Data
      BY <3>1, <3>2 DEF BackupsTypeOK, Data
    <3>5. /\ work' \in [Workers -> SUBSET Work]
          /\ \A x \in Workers : \A a, b \in work'[x] : a = b
      BY <3>1, <3>3, JobChanged, JobEnds
    <3>. QED
      BY <2>19, <3>4, <3>5 DEF BorgExtracts, BackupsTypeOK, repoVars
  <2>20. ASSUME NEW w \in Workers, RestoreFails(w) \/ RestoreReturns(w)
         PROVE  BackupsTypeOK'
    <3>1. volume' \in Data
      BY <2>20 DEF RestoreFails, RestoreReturns, BackupsTypeOK, Data, serverVars
    <3>2. Ends(w)
      BY <2>20 DEF RestoreFails, RestoreReturns, Reported
    <3>. QED
      BY <2>20, <3>1, <3>2, JobEnds
         DEF RestoreFails, RestoreReturns, BackupsTypeOK, repoVars, serverVars
  <2>. QED
    BY <2>1, <2>2, <2>3, <2>4, <2>5, <2>6, <2>7, <2>8, <2>9, <2>10, <2>11, <2>12, <2>13,
       <2>14, <2>15, <2>16, <2>17, <2>18, <2>19, <2>20 DEF BackupsNext
<1>. QED
  BY <1>1, <1>2, PTL DEF BackupsSpec
-----------------------------------------------------------------------------
\* Locks.

Touching == {"meta", "deleting", "deleted"}

\* A worker that turns to nothing, or to a place where it cannot change the
\* metadata of s, leaves s settled.
LEMMA StaysSettled ==
  ASSUME NEW s \in Second, Settled(s), NEW w \in Workers,
         \A x \in Workers : x # w => work'[x] = work[x],
         \A k \in work'[w] : k.name = s => k.at \notin Touching
  PROVE  Settled(s)'
<1>. SUFFICES ASSUME NEW x \in Workers, NEW k \in work'[x], k.name = s
              PROVE  k.at \notin Touching
  BY DEF Settled, Touching
<1>1. CASE x = w
  BY <1>1
<1>2. CASE x # w
  BY <1>2 DEF Settled, Touching
<1>. QED
  BY <1>1, <1>2

LEMMA BecomesSettled ==
  ASSUME BackupsTypeOK, NEW s \in Second, Settled(s), NEW w \in Workers, NEW k \in Work,
         Becomes(w, k), k.name = s => k.at \notin Touching
  PROVE  Settled(s)'
<1>1. \A x \in Workers : work'[x] = IF x = w THEN {k} ELSE work[x]
  BY JobChanged
<1>. QED
  BY <1>1, StaysSettled

LEMMA EndsSettled ==
  ASSUME BackupsTypeOK, NEW s \in Second, Settled(s), NEW w \in Workers, Ends(w)
  PROVE  Settled(s)'
<1>1. \A x \in Workers : work'[x] = IF x = w THEN {} ELSE work[x]
  BY JobEnds
<1>. QED
  BY <1>1, StaysSettled

LEMMA GoesSettled ==
  ASSUME BackupsTypeOK, NEW s \in Second, Settled(s), NEW w \in Workers,
         NEW j \in work[w],
         NEW at \in {"meta", "stored", "failed", "forgetting", "checked", "deleting",
                     "deleted", "stopped"},
         Goes(w, j, at), j.name # s \/ at \notin Touching
  PROVE  Settled(s)'
<1>1. j \in Work
  BY OneJob
<1>2. /\ [j EXCEPT !.at = at] \in Work
      /\ [j EXCEPT !.at = at].name = j.name
      /\ [j EXCEPT !.at = at].at = at
  BY <1>1 DEF Work
<1>. QED
  BY <1>2, BecomesSettled DEF Goes

\* The same of what a start or a crash makes of every job at once.
LEMMA AllStaySettled ==
  ASSUME BackupsTypeOK, NEW s \in Second, Settled(s),
         \A x \in Workers : work'[x] = NobodyAlone(x) \/ work'[x] = Unwatched(x)
  PROVE  Settled(s)'
<1>. SUFFICES ASSUME NEW x \in Workers, NEW j \in work'[x], j.name = s
              PROVE  j.at \notin Touching
  BY DEF Settled, Touching
<1>1. ASSUME NEW k \in work[x]
      PROVE  /\ [k EXCEPT !.alone = FALSE].name = k.name
             /\ [k EXCEPT !.alone = FALSE].at = k.at
             /\ [k EXCEPT !.watched = FALSE, !.alone = FALSE].name = k.name
             /\ [k EXCEPT !.watched = FALSE, !.alone = FALSE].at = k.at
  BY <1>1, OneJob DEF Work
<1>2. CASE work'[x] = NobodyAlone(x)
  <2>1. PICK k \in work[x] : j = [k EXCEPT !.alone = FALSE]
    BY <1>2 DEF NobodyAlone
  <2>. QED
    BY <2>1, <1>1 DEF Settled, Touching
<1>3. CASE work'[x] = Unwatched(x)
  <2>1. PICK k \in work[x] : j = [k EXCEPT !.watched = FALSE, !.alone = FALSE]
    BY <1>3 DEF Unwatched
  <2>. QED
    BY <2>1, <1>1 DEF Settled, Touching
<1>. QED
  BY <1>2, <1>3

THEOREM LocksCorrect == BackupsSpec => [](LockHolds /\ LockInv)
<1>1. BackupsInit => LockInv
  BY DEF BackupsInit, LockInv
<1>2. BackupsTypeOK /\ LockInv /\ [BackupsNext]_backupVars => LockInv'
  <2>. SUFFICES ASSUME BackupsTypeOK, LockInv, [BackupsNext]_backupVars,
                       NEW s \in Second, promise'[s] = "clear"
                PROVE  (s \in archives /\ meta[s] = "locked" /\ Settled(s))'
    BY DEF LockInv
  <2>. DEFINE Goal == (s \in archives /\ meta[s] = "locked" /\ Settled(s))'
              Before == s \in archives /\ meta[s] = "locked" /\ Settled(s)
  <2>0. promise' = promise => Before
    BY DEF LockInv
  <2>1. CASE UNCHANGED backupVars
    BY <2>0, <2>1 DEF backupVars, Settled
  <2>2. CASE Tick
    BY <2>0, <2>2 DEF Tick, Settled, repoVars
  <2>3. CASE Start
    <3>1. \A x \in Workers : work'[x] = NobodyAlone(x)
      BY <2>3 DEF Start
    <3>. QED
      BY <2>0, <2>3, <3>1, AllStaySettled DEF Start, repoVars
  <2>4. CASE CrashBackups
    <3>1. \A x \in Workers : work'[x] = Unwatched(x)
      BY <2>4 DEF CrashBackups
    <3>. QED
      BY <2>0, <2>4, <3>1, AllStaySettled DEF CrashBackups, repoVars
  <2>5. ASSUME NEW v \in Versions, ServerWrites(v) PROVE Goal
    BY <2>0, <2>5 DEF ServerWrites, Settled, repoVars
  <2>6. ASSUME NEW t \in Second, NEW lock \in BOOLEAN, SetLock(t, lock) PROVE Goal
    <3>1. Settled(s)' <=> Settled(s)
      BY <2>6 DEF SetLock, Settled
    <3>2. archives' = archives
      BY <2>6 DEF SetLock, repoVars
    <3>3. CASE t # s
      <4>1. promise'[s] = promise[s] /\ meta'[s] = meta[s]
        BY <2>6, <3>3 DEF SetLock, BackupsTypeOK
      <4>. QED
        BY <3>1, <3>2, <4>1 DEF LockInv
    <3>4. CASE t = s
      <4>1. lock /\ (promise[s] = "clear" \/ (Settled(s) /\ s \in archives))
        BY <2>6, <3>4 DEF SetLock, BackupsTypeOK
      <4>2. meta'[s] = "locked"
        BY <2>6, <3>4, <4>1 DEF SetLock, BackupsTypeOK
      <4>. QED
        BY <3>1, <3>2, <4>1, <4>2 DEF LockInv
    <3>. QED
      BY <3>3, <3>4
  <2>7. ASSUME NEW w \in Workers, NEW t \in Second, AskDelete(w, t) \/ AskRestore(w, t)
        PROVE  Goal
    <3>1. PICK k \in {New("delete", "asked", t), New("restore", "stopping", t)} :
            Becomes(w, k)
      BY <2>7 DEF AskDelete, AskRestore
    <3>2. k \in Work
      BY NewJob
    <3>3. k.at \notin Touching
      BY DEF New, Touching
    <3>4. UNCHANGED <<archives, meta, promise>>
      BY <2>7 DEF AskDelete, AskRestore, repoVars
    <3>. QED
      BY <2>0, <3>1, <3>2, <3>3, <3>4, BecomesSettled
  <2>8. ASSUME NEW w \in Workers, Create(w) \/ RunBackup(w) PROVE Goal
    <3>1. PICK k \in {New("create", "start", clock), New("run", "start", clock)} :
            Becomes(w, k)
      BY <2>8 DEF Create, RunBackup
    <3>2. k \in Work
      BY NewJob DEF BackupsTypeOK
    <3>3. k.at \notin Touching
      BY DEF New, Touching
    <3>4. UNCHANGED <<archives, meta, promise>>
      BY <2>8 DEF Create, RunBackup, repoVars
    <3>. QED
      BY <2>0, <3>1, <3>2, <3>3, <3>4, BecomesSettled
  <2>9. ASSUME NEW w \in Workers, BorgReads(w) PROVE Goal
    <3>1. PICK j \in work[w] : Becomes(w, [j EXCEPT !.at = "reading", !.seen = volume])
      BY <2>9 DEF BorgReads
    <3>. DEFINE k == [j EXCEPT !.at = "reading", !.seen = volume]
    <3>2. j \in Work /\ k \in Work
      BY OneJob, JobFields DEF BackupsTypeOK
    <3>3. k.at \notin Touching
      BY <3>2 DEF Work, Touching
    <3>4. Becomes(w, k)
      BY <3>1
    <3>5. UNCHANGED <<archives, meta, promise>>
      BY <2>9 DEF BorgReads, repoVars
    <3>. HIDE DEF k
    <3>. QED
      BY <2>0, <3>2, <3>3, <3>4, <3>5, BecomesSettled
  <2>10. ASSUME NEW w \in Workers, BorgCreates(w) PROVE Goal
    <3>1. PICK j \in work[w] :
            /\ j.name \notin archives
            /\ archives' = archives \cup {j.name}
            /\ Goes(w, j, "meta") \/ Goes(w, j, "failed") \/ Ends(w)
      BY <2>10 DEF BorgCreates
    <3>2. UNCHANGED <<meta, promise>>
      BY <2>10 DEF BorgCreates
    <3>3. Before /\ j.name # s
      BY <2>0, <3>1, <3>2
    <3>4. Settled(s)'
      BY <3>1, <3>3, GoesSettled, EndsSettled
    <3>. QED
      BY <3>1, <3>2, <3>3, <3>4
  <2>11. ASSUME NEW w \in Workers, PutBackupMeta(w) PROVE Goal
    <3>1. PICK j \in work[w] : /\ j.at = "meta"
                               /\ meta' = [meta EXCEPT ![j.name] = "unlocked"]
                               /\ Goes(w, j, "stored")
      BY <2>11 DEF PutBackupMeta
    <3>2. UNCHANGED <<archives, promise>>
      BY <2>11 DEF PutBackupMeta, repoVars
    <3>3. Before /\ j.name # s
      BY <2>0, <3>1, <3>2 DEF Settled
    <3>4. Settled(s)'
      BY <3>1, <3>3, GoesSettled
    <3>5. meta'[s] = meta[s]
      BY <3>1, <3>3 DEF BackupsTypeOK
    <3>. QED
      BY <3>2, <3>3, <3>4, <3>5
  <2>12. ASSUME NEW w \in Workers, CreateFails(w) PROVE Goal
    <3>1. PICK j \in work[w] : Goes(w, j, "failed") \/ Ends(w)
      BY <2>12 DEF CreateFails
    <3>2. Before /\ UNCHANGED <<archives, meta, promise>>
      BY <2>0, <2>12 DEF CreateFails, repoVars
    <3>3. Settled(s)'
      BY <3>1, <3>2, GoesSettled, EndsSettled DEF Touching
    <3>. QED
      BY <3>2, <3>3
  <2>13. ASSUME NEW w \in Workers,
                CreateEnds(w) \/ DeleteForgets(w) \/ DeleteFails(w) \/ RestoreFails(w)
                  \/ RestoreReturns(w)
         PROVE  Goal
    <3>1. Ends(w) /\ UNCHANGED <<archives, meta, promise>>
      BY <2>13 DEF CreateEnds, DeleteForgets, DeleteFails, RestoreFails, Reported, RestoreReturns,
                   repoVars
    <3>. QED
      BY <2>0, <3>1, EndsSettled
  <2>14. ASSUME NEW w \in Workers, DeleteReadsTracker(w) \/ StopForRestore(w) PROVE Goal
    <3>1. PICK j \in work[w] :
            (\E at \in {"checked", "forgetting", "stopped"} : Goes(w, j, at)) \/ Ends(w)
      BY <2>14 DEF DeleteReadsTracker, StopForRestore
    <3>2. Before /\ UNCHANGED <<archives, meta, promise>>
      BY <2>0, <2>14 DEF DeleteReadsTracker, StopForRestore, repoVars
    <3>3. Settled(s)'
      BY <3>1, <3>2, GoesSettled, EndsSettled DEF Touching
    <3>. QED
      BY <3>2, <3>3
  <2>15. ASSUME NEW w \in Workers, DeleteReadsLock(w) PROVE Goal
    <3>1. PICK j \in work[w] :
            IF meta[j.name] # "locked" THEN Goes(w, j, "deleting") ELSE Ends(w)
      BY <2>15 DEF DeleteReadsLock, MayDelete
    <3>2. Before /\ UNCHANGED <<archives, meta, promise>>
      BY <2>0, <2>15 DEF DeleteReadsLock, repoVars
    <3>3. Settled(s)'
      <4>1. CASE meta[j.name] # "locked"
        BY <3>1, <3>2, <4>1, GoesSettled
      <4>2. CASE meta[j.name] = "locked"
        BY <3>1, <3>2, <4>2, EndsSettled
      <4>. QED
        BY <4>1, <4>2
    <3>. QED
      BY <3>2, <3>3
  <2>16. ASSUME NEW w \in Workers, BorgDeletes(w) PROVE Goal
    <3>1. PICK j \in work[w] : /\ j.at = "deleting"
                               /\ archives' = archives \ {j.name}
                               /\ Goes(w, j, "deleted") \/ Ends(w)
      BY <2>16 DEF BorgDeletes
    <3>2. UNCHANGED <<meta, promise>>
      BY <2>16 DEF BorgDeletes
    <3>3. Before /\ j.name # s
      BY <2>0, <3>1, <3>2 DEF Settled
    <3>4. Settled(s)'
      BY <3>1, <3>3, GoesSettled, EndsSettled
    <3>. QED
      BY <3>1, <3>2, <3>3, <3>4
  <2>17. ASSUME NEW w \in Workers, DeleteBackupMeta(w) PROVE Goal
    <3>1. PICK j \in work[w] : /\ j.at = "deleted"
                               /\ meta' = [meta EXCEPT ![j.name] = "none"]
      BY <2>17 DEF DeleteBackupMeta
    <3>2. Ends(w) /\ UNCHANGED <<archives, promise>>
      BY <2>17 DEF DeleteBackupMeta, repoVars
    <3>3. Before /\ j.name # s
      BY <2>0, <3>1, <3>2 DEF Settled
    <3>4. Settled(s)'
      BY <3>2, <3>3, EndsSettled
    <3>. QED
      BY <3>1, <3>2, <3>3, <3>4 DEF BackupsTypeOK
  <2>18. ASSUME NEW w \in Workers, RestoreWipes(w) PROVE Goal
    <3>1. PICK j \in work[w], wiped \in BOOLEAN :
            work' = [x \in Workers |->
              IF x = w THEN {[j EXCEPT !.at = "extracting", !.wiped = wiped,
                                       !.alone = ~up /\ ~Extracting]}
                       ELSE NobodyAlone(x)]
      BY <2>18 DEF RestoreWipes
    <3>2. Before /\ UNCHANGED <<archives, meta>>
      BY <2>0, <2>18 DEF RestoreWipes, repoVars
    <3>3. ASSUME NEW x \in Workers, NEW k \in work'[x], k.name = s
          PROVE  k.at \notin {"meta", "deleting", "deleted"}
      <4>1. CASE x = w
        BY <3>1, <3>3, <4>1, OneJob DEF Work
      <4>2. CASE x # w
        <5>1. PICK i \in work[x] : k = [i EXCEPT !.alone = FALSE]
          BY <3>1, <4>2 DEF NobodyAlone
        <5>. QED
          BY <3>2, <3>3, <5>1, OneJob DEF Settled, Work
      <4>. QED
        BY <4>1, <4>2
    <3>. QED
      BY <3>2, <3>3 DEF Settled
  <2>19. ASSUME NEW w \in Workers, BorgExtracts(w) PROVE Goal
    <3>1. PICK j \in work[w] :
            \/ Becomes(w, [j EXCEPT !.at = "restored", !.seen = content[j.name]])
            \/ Ends(w)
      BY <2>19 DEF BorgExtracts
    <3>. DEFINE k == [j EXCEPT !.at = "restored", !.seen = content[j.name]]
    <3>2. j \in Work /\ content[j.name] \in Data
      BY OneJob DEF Work, BackupsTypeOK
    <3>3. k \in Work /\ k.at = "restored"
      BY <3>2 DEF Work
    <3>4. UNCHANGED <<archives, meta, promise>>
      BY <2>19 DEF BorgExtracts, repoVars
    <3>. HIDE DEF k
    <3>5. Becomes(w, k) \/ Ends(w)
      BY <3>1 DEF k
    <3>6. Settled(s)'
      BY <2>0, <3>3, <3>4, <3>5, BecomesSettled, EndsSettled DEF Touching
    <3>. QED
      BY <2>0, <3>4, <3>6
  <2>. QED
    BY <2>1, <2>2, <2>3, <2>4, <2>5, <2>6, <2>7, <2>8, <2>9, <2>10, <2>11, <2>12, <2>13,
       <2>14, <2>15, <2>16, <2>17, <2>18, <2>19 DEF BackupsNext
<1>3. LockInv => LockHolds
  BY DEF LockInv, LockHolds
<1>. QED
  BY <1>1, <1>2, <1>3, BackupsTypeCorrect, PTL DEF BackupsSpec
-----------------------------------------------------------------------------
\* Restores.

\* A worker that neither extracts nor claims to be alone disturbs nobody.
LEMMA Undisturbed ==
  ASSUME RestoreInv, NEW w \in Workers,
         \A x \in Workers : x # w => work'[x] = work[x],
         \A k \in work'[w] : ~k.alone /\ k.at # "extracting",
         volume' = volume, up' = up \/ ~up'
  PROVE  RestoreInv'
BY DEF RestoreInv

LEMMA BecomesUndisturbed ==
  ASSUME BackupsTypeOK, RestoreInv, NEW w \in Workers, NEW k \in Work, Becomes(w, k),
         ~k.alone, k.at # "extracting", volume' = volume, up' = up
  PROVE  RestoreInv'
<1>1. \A x \in Workers : work'[x] = IF x = w THEN {k} ELSE work[x]
  BY JobChanged
<1>. QED
  BY <1>1, Undisturbed

LEMMA EndsUndisturbed ==
  ASSUME BackupsTypeOK, RestoreInv, NEW w \in Workers, Ends(w),
         volume' = volume, up' = up
  PROVE  RestoreInv'
<1>1. \A x \in Workers : work'[x] = IF x = w THEN {} ELSE work[x]
  BY JobEnds
<1>. QED
  BY <1>1, Undisturbed

LEMMA GoesUndisturbed ==
  ASSUME BackupsTypeOK, RestoreInv, NEW w \in Workers, NEW j \in work[w],
         NEW at \in {"meta", "stored", "failed", "forgetting", "checked", "deleting",
                     "deleted", "stopped"},
         Goes(w, j, at), j.at \notin {"extracting", "restored"},
         volume' = volume, up' = up \/ ~up'
  PROVE  RestoreInv'
<1>1. j \in Work /\ ~j.alone
  BY OneJob DEF RestoreInv
<1>2. /\ [j EXCEPT !.at = at] \in Work
      /\ [j EXCEPT !.at = at].alone = j.alone
      /\ [j EXCEPT !.at = at].at = at
  BY <1>1 DEF Work
<1>3. \A x \in Workers : work'[x] = IF x = w THEN {[j EXCEPT !.at = at]} ELSE work[x]
  BY <1>2, JobChanged DEF Goes
<1>. QED
  BY <1>1, <1>2, <1>3, Undisturbed

\* A step after which nobody is alone.
LEMMA NobodyIsAlone ==
  ASSUME BackupsTypeOK,
         \A x \in Workers : work'[x] = NobodyAlone(x) \/ work'[x] = Unwatched(x)
  PROVE  RestoreInv'
<1>1. ASSUME NEW x \in Workers, NEW j \in work'[x] PROVE ~j.alone
  <2>1. ASSUME NEW k \in work[x]
        PROVE  /\ ~[k EXCEPT !.alone = FALSE].alone
               /\ ~[k EXCEPT !.watched = FALSE, !.alone = FALSE].alone
    BY <2>1, OneJob DEF Work
  <2>2. \E k \in work[x] : j \in {[k EXCEPT !.alone = FALSE],
                                  [k EXCEPT !.watched = FALSE, !.alone = FALSE]}
    <3>1. CASE work'[x] = NobodyAlone(x)
      BY <3>1 DEF NobodyAlone
    <3>2. CASE work'[x] = Unwatched(x)
      BY <3>2 DEF Unwatched
    <3>. QED
      BY <3>1, <3>2
  <2>. QED
    BY <2>1, <2>2
<1>. QED
  BY <1>1 DEF RestoreInv

\* A restore that reported success, and that nothing disturbed, left all of its
\* archive, and nothing else if its wipe removed everything.
THEOREM RestoresCorrect == BackupsSpec => [](RestoredExactly /\ RestoreInv)
<1>1. BackupsInit => RestoreInv
  BY DEF BackupsInit, RestoreInv
<1>2. BackupsTypeOK /\ RestoreInv /\ [BackupsNext]_backupVars => RestoreInv'
  <2>. SUFFICES ASSUME BackupsTypeOK, RestoreInv, [BackupsNext]_backupVars
                PROVE  RestoreInv'
    OBVIOUS
  <2>1. CASE UNCHANGED backupVars
    BY <2>1 DEF backupVars, RestoreInv
  <2>2. CASE Tick
    BY <2>2 DEF Tick, RestoreInv, serverVars
  <2>3. CASE Start
    BY <2>3, NobodyIsAlone DEF Start
  <2>4. CASE CrashBackups
    BY <2>4, NobodyIsAlone DEF CrashBackups
  <2>5. ASSUME NEW v \in Versions, ServerWrites(v) PROVE RestoreInv'
    BY <2>5 DEF ServerWrites, RestoreInv
  <2>6. ASSUME NEW s \in Second, NEW lock \in BOOLEAN, SetLock(s, lock) PROVE RestoreInv'
    BY <2>6 DEF SetLock, RestoreInv, serverVars
  <2>7. ASSUME NEW w \in Workers, NEW s \in Second, AskDelete(w, s) \/ AskRestore(w, s)
        PROVE  RestoreInv'
    <3>1. PICK k \in {New("delete", "asked", s), New("restore", "stopping", s)} :
            Becomes(w, k)
      BY <2>7 DEF AskDelete, AskRestore
    <3>2. k \in Work
      BY NewJob
    <3>3. ~k.alone /\ k.at # "extracting"
      BY DEF New
    <3>. QED
      BY <2>7, <3>1, <3>2, <3>3, BecomesUndisturbed DEF AskDelete, AskRestore, serverVars
  <2>8. ASSUME NEW w \in Workers, Create(w) \/ RunBackup(w) PROVE RestoreInv'
    <3>1. PICK k \in {New("create", "start", clock), New("run", "start", clock)} :
            Becomes(w, k)
      BY <2>8 DEF Create, RunBackup
    <3>2. k \in Work
      BY NewJob DEF BackupsTypeOK
    <3>3. ~k.alone /\ k.at # "extracting"
      BY DEF New
    <3>. QED
      BY <2>8, <3>1, <3>2, <3>3, BecomesUndisturbed DEF Create, RunBackup, serverVars
  <2>9. ASSUME NEW w \in Workers, BorgReads(w) PROVE RestoreInv'
    <3>1. PICK j \in work[w] : /\ j.at = "start"
                               /\ Becomes(w, [j EXCEPT !.at = "reading", !.seen = volume])
      BY <2>9 DEF BorgReads
    <3>. DEFINE k == [j EXCEPT !.at = "reading", !.seen = volume]
    <3>2. j \in Work /\ k \in Work /\ ~j.alone
      BY <3>1, OneJob, JobFields DEF BackupsTypeOK, RestoreInv
    <3>3. ~k.alone /\ k.at # "extracting"
      BY <3>2 DEF Work
    <3>4. Becomes(w, k)
      BY <3>1
    <3>. HIDE DEF k
    <3>. QED
      BY <2>9, <3>2, <3>3, <3>4, BecomesUndisturbed DEF BorgReads, serverVars
  <2>10. ASSUME NEW w \in Workers, BorgCreates(w) \/ PutBackupMeta(w) \/ CreateFails(w)
         PROVE  RestoreInv'
    <3>1. PICK j \in work[w] :
            /\ j.at \in {"start", "reading", "meta"}
            /\ (\E at \in {"meta", "stored", "failed"} : Goes(w, j, at)) \/ Ends(w)
      BY <2>10 DEF BorgCreates, PutBackupMeta, CreateFails, MayFail
    <3>. QED
      BY <2>10, <3>1, GoesUndisturbed, EndsUndisturbed
         DEF BorgCreates, PutBackupMeta, CreateFails, serverVars
  <2>11. ASSUME NEW w \in Workers,
                DeleteReadsTracker(w) \/ DeleteReadsLock(w) \/ BorgDeletes(w)
         PROVE  RestoreInv'
    <3>1. PICK j \in work[w] :
            /\ j.at \in {"asked", "checked", "deleting"}
            /\ \/ \E at \in {"checked", "forgetting", "deleting", "deleted"} : Goes(w, j, at)
               \/ Ends(w)
      BY <2>11 DEF DeleteReadsTracker, DeleteReadsLock, BorgDeletes
    <3>. QED
      BY <2>11, <3>1, GoesUndisturbed, EndsUndisturbed
         DEF DeleteReadsTracker, DeleteReadsLock, BorgDeletes, serverVars
  <2>12. ASSUME NEW w \in Workers,
                CreateEnds(w) \/ DeleteForgets(w) \/ DeleteFails(w) \/ DeleteBackupMeta(w)
                  \/ RestoreReturns(w)
         PROVE  RestoreInv'
    BY <2>12, EndsUndisturbed
       DEF CreateEnds, DeleteForgets, DeleteFails, DeleteBackupMeta, RestoreReturns, serverVars
  <2>13. ASSUME NEW w \in Workers, StopForRestore(w) PROVE RestoreInv'
    <3>1. PICK j \in work[w] : j.at = "stopping" /\ Goes(w, j, "stopped")
      BY <2>13 DEF StopForRestore
    <3>2. volume' = volume /\ (up' = up \/ ~up')
      BY <2>13 DEF StopForRestore
    <3>. QED
      BY <3>1, <3>2, GoesUndisturbed
  <2>14. ASSUME NEW w \in Workers, RestoreWipes(w) PROVE RestoreInv'
    <3>. DEFINE b == ~up /\ ~Extracting
    <3>1. PICK j \in work[w], wiped \in BOOLEAN :
            /\ wiped => volume' = {}
            /\ work' = [x \in Workers |->
                 IF x = w THEN {[j EXCEPT !.at = "extracting", !.wiped = wiped, !.alone = b]}
                          ELSE NobodyAlone(x)]
      BY <2>14 DEF RestoreWipes
    <3>2. up' = up
      BY <2>14 DEF RestoreWipes
    <3>3. b => ~up /\ \A x \in Workers : \A k \in work[x] : k.at # "extracting"
      BY DEF Extracting
    <3>. HIDE DEF b
    <3>4. ASSUME NEW x \in Workers, x # w, NEW k \in work'[x]
          PROVE  ~k.alone /\ (b => k.at # "extracting")
      <4>1. PICK i \in work[x] : k = [i EXCEPT !.alone = FALSE]
        BY <3>1, <3>4 DEF NobodyAlone
      <4>2. i \in Work
        BY OneJob
      <4>3. ~k.alone /\ k.at = i.at
        BY <4>1, <4>2 DEF Work
      <4>. QED
        BY <3>3, <4>3
    <3>5. ASSUME NEW k \in work'[w]
          PROVE  k.at = "extracting" /\ (k.alone => b) /\ (k.wiped => volume' = {})
      <4>1. j \in Work
        BY OneJob
      <4>2. k = [j EXCEPT !.at = "extracting", !.wiped = wiped, !.alone = b]
        BY <3>1
      <4>. QED
        BY <3>1, <4>1, <4>2 DEF Work
    <3>. QED
      BY <3>2, <3>3, <3>4, <3>5 DEF RestoreInv
  <2>15. ASSUME NEW w \in Workers, BorgExtracts(w) PROVE RestoreInv'
    <3>1. PICK j \in work[w] :
            /\ j.at = "extracting"
            /\ volume' = volume \cup content[j.name]
            /\ \/ Becomes(w, [j EXCEPT !.at = "restored", !.seen = content[j.name]])
               \/ Ends(w)
      BY <2>15 DEF BorgExtracts
    <3>2. up' = up
      BY <2>15 DEF BorgExtracts
    <3>3. ASSUME NEW x \in Workers, x # w, NEW k \in work[x] PROVE ~k.alone
      BY <3>1, <3>3 DEF RestoreInv
    <3>4. ASSUME NEW x \in Workers \ {w} PROVE work'[x] = work[x]
      BY <3>1, BackupsTypeOK DEF BackupsTypeOK, Becomes, Ends
    <3>5. ASSUME NEW k \in work'[w], k.alone
          PROVE  /\ k.at = "restored" /\ ~up
                 /\ k.seen \subseteq volume' /\ (k.wiped => volume' = k.seen)
                 /\ \A x \in Workers \ {w} : \A i \in work[x] : i.at # "extracting"
      <4>1. work'[w] = {[j EXCEPT !.at = "restored", !.seen = content[j.name]]}
        BY <3>1, <3>5 DEF BackupsTypeOK, Becomes, Ends
      <4>2. j \in Work
        BY OneJob
      <4>3. k.at = "restored" /\ k.seen = content[j.name] /\ j.alone /\ k.wiped = j.wiped
        BY <3>5, <4>1, <4>2 DEF Work
      <4>4. j.wiped => volume = {}
        BY <3>1, <4>3 DEF RestoreInv
      <4>. QED
        BY <3>1, <4>3, <4>4 DEF RestoreInv
    <3>. QED
      BY <3>2, <3>3, <3>4, <3>5 DEF RestoreInv
  <2>16. ASSUME NEW w \in Workers, RestoreFails(w) PROVE RestoreInv'
    <3>1. Ends(w) /\ up' = up
      BY <2>16 DEF RestoreFails, Reported
    <3>2. PICK j \in work[w] : (j.at = "stopped" /\ volume' = volume) \/ j.at = "extracting"
      BY <2>16 DEF RestoreFails
    <3>3. CASE volume' = volume
      BY <3>1, <3>3, EndsUndisturbed
    <3>4. CASE j.at = "extracting"
      <4>1. \A x \in Workers \ {w} : \A k \in work[x] : ~k.alone
        BY <3>4 DEF RestoreInv
      <4>2. \A x \in Workers : work'[x] = IF x = w THEN {} ELSE work[x]
        BY <3>1, JobEnds
      <4>. QED
        BY <4>1, <4>2 DEF RestoreInv
    <3>. QED
      BY <3>2, <3>3, <3>4
  <2>. QED
    BY <2>1, <2>2, <2>3, <2>4, <2>5, <2>6, <2>7, <2>8, <2>9, <2>10, <2>11, <2>12, <2>13,
       <2>14, <2>15, <2>16 DEF BackupsNext
<1>3. RestoreInv => RestoredExactly
  BY DEF RestoreInv, RestoredExactly
<1>. QED
  BY <1>1, <1>2, <1>3, BackupsTypeCorrect, PTL DEF BackupsSpec
-----------------------------------------------------------------------------
\* Creates.

CreatesOf(s, jobs) == {j \in jobs : j.does = "create" /\ j.name = s /\ j.watched}

\* One worker's step, after which its create is still at work if it is still in
\* the tracker.
LEMMA StillCreating ==
  ASSUME CreatingIsTrue, CreateInv, NEW w \in Workers,
         \A x \in Workers : x # w => work'[x] = work[x],
         \A k \in work'[w] :
           k.does = "create" => k.at \in {"start", "reading", "meta", "stored", "failed"},
         \A s \in Second : creating'[s] = "creating" =>
           CreatesOf(s, work'[w]) # {} \/ (creating[s] = "creating" /\ CreatesOf(s, work[w]) = {})
  PROVE  (CreatingIsTrue /\ CreateInv)'
<1>1. CreateInv'
  BY DEF CreateInv
<1>2. ASSUME NEW s \in Second, creating'[s] = "creating"
      PROVE  \E x \in Workers : CreatesOf(s, work'[x]) # {}
  <2>1. CASE CreatesOf(s, work'[w]) # {}
    BY <2>1
  <2>2. CASE creating[s] = "creating" /\ CreatesOf(s, work[w]) = {}
    <3>1. PICK x \in Workers : CreatesOf(s, work[x]) # {}
      BY <2>2 DEF CreatingIsTrue, CreatesOf
    <3>. QED
      BY <2>2, <3>1
  <2>. QED
    BY <1>2, <2>1, <2>2
<1>3. CreatingIsTrue'
  BY <1>2 DEF CreatingIsTrue, CreatesOf
<1>. QED
  BY <1>1, <1>3

\* The worker is given a job; a job that it had goes on as the same create.
LEMMA CreateBecomes ==
  ASSUME BackupsTypeOK, CreatingIsTrue, CreateInv, NEW w \in Workers, NEW k \in Work,
         Becomes(w, k), creating' = creating,
         k.does = "create" => k.at \in {"start", "reading", "meta", "stored", "failed"},
         \A j \in work[w] : j.does = "create" =>
           k.does = "create" /\ k.name = j.name /\ k.watched = j.watched
  PROVE  (CreatingIsTrue /\ CreateInv)'
<1>1. \A x \in Workers : work'[x] = IF x = w THEN {k} ELSE work[x]
  BY JobChanged
<1>2. ASSUME NEW s \in Second, CreatesOf(s, work[w]) # {}
      PROVE  CreatesOf(s, work'[w]) # {}
  BY <1>1, <1>2 DEF CreatesOf
<1>. QED
  BY <1>1, <1>2, StillCreating

LEMMA CreateGoes ==
  ASSUME BackupsTypeOK, CreatingIsTrue, CreateInv, NEW w \in Workers, NEW j \in work[w],
         NEW at \in {"meta", "stored", "failed", "forgetting", "checked", "deleting",
                     "deleted", "stopped"},
         Goes(w, j, at), creating' = creating,
         j.does = "create" => at \in {"meta", "stored", "failed"}
  PROVE  (CreatingIsTrue /\ CreateInv)'
<1>1. j \in Work /\ work[w] = {j}
  BY OneJob
<1>2. /\ [j EXCEPT !.at = at] \in Work
      /\ [j EXCEPT !.at = at].does = j.does
      /\ [j EXCEPT !.at = at].name = j.name
      /\ [j EXCEPT !.at = at].watched = j.watched
      /\ [j EXCEPT !.at = at].at = at
  BY <1>1 DEF Work
<1>. QED
  BY <1>1, <1>2, CreateBecomes DEF Goes

\* A worker ends; if it was a create, the tracker does not show it any more.
LEMMA CreateEnded ==
  ASSUME BackupsTypeOK, CreatingIsTrue, CreateInv, NEW w \in Workers, Ends(w),
         \A s \in Second : creating'[s] = "creating" => creating[s] = "creating",
         \A j \in work[w] : j.does = "create" =>
           ~j.watched \/ creating'[j.name] # "creating"
  PROVE  (CreatingIsTrue /\ CreateInv)'
<1>1. \A x \in Workers : work'[x] = IF x = w THEN {} ELSE work[x]
  BY JobEnds
<1>2. \A s \in Second : creating'[s] = "creating" => CreatesOf(s, work[w]) = {}
  BY DEF CreatesOf
<1>. QED
  BY <1>1, <1>2, StillCreating

\* A create that List shows as creating is one that a goroutine works on.
THEOREM CreatesCorrect == BackupsSpec => [](CreatingIsTrue /\ CreateInv)
<1>1. BackupsInit => CreatingIsTrue /\ CreateInv
  BY DEF BackupsInit, CreatingIsTrue, CreateInv
<1>2. BackupsTypeOK /\ CreatingIsTrue /\ CreateInv /\ [BackupsNext]_backupVars
        => (CreatingIsTrue /\ CreateInv)'
  <2>. SUFFICES ASSUME BackupsTypeOK, CreatingIsTrue, CreateInv, [BackupsNext]_backupVars
                PROVE  (CreatingIsTrue /\ CreateInv)'
    OBVIOUS
  <2>. DEFINE Goal == (CreatingIsTrue /\ CreateInv)'
  <2>1. CASE UNCHANGED <<work, creating>>
    BY <2>1 DEF CreatingIsTrue, CreateInv
  <2>2. CASE UNCHANGED backupVars \/ Tick
    BY <2>1, <2>2 DEF backupVars, Tick
  <2>3. ASSUME NEW x \in Versions, ServerWrites(x) PROVE Goal
    BY <2>1, <2>3 DEF ServerWrites
  <2>4. ASSUME NEW s \in Second, NEW lock \in BOOLEAN, SetLock(s, lock) PROVE Goal
    BY <2>1, <2>4 DEF SetLock
  <2>5. ASSUME creating' = creating, NEW W \in SUBSET Workers,
               \A x \in Workers \ W : work'[x] = NobodyAlone(x),
               \A x \in W : \A j \in work[x] : j.does # "create",
               \A x \in W : \A j \in work'[x] : j.does # "create"
        PROVE  Goal
    <3>1. ASSUME NEW x \in Workers, NEW j \in work[x]
          PROVE  /\ [j EXCEPT !.alone = FALSE].does = j.does
                 /\ [j EXCEPT !.alone = FALSE].name = j.name
                 /\ [j EXCEPT !.alone = FALSE].at = j.at
                 /\ [j EXCEPT !.alone = FALSE].watched = j.watched
      BY <3>1, OneJob DEF Work
    <3>2. CreateInv'
      <4>. SUFFICES ASSUME NEW x \in Workers, NEW k \in work'[x], k.does = "create"
                    PROVE  k.at \in {"start", "reading", "meta", "stored", "failed"}
        BY DEF CreateInv
      <4>1. x \notin W
        BY <2>5
      <4>2. PICK j \in work[x] : k = [j EXCEPT !.alone = FALSE]
        BY <2>5, <4>1 DEF NobodyAlone
      <4>. QED
        BY <3>1, <4>2 DEF CreateInv
    <3>3. ASSUME NEW s \in Second, creating'[s] = "creating"
          PROVE  \E x \in Workers : \E k \in work'[x] :
                   k.does = "create" /\ k.name = s /\ k.watched
      <4>0. PICK x \in Workers : \E j \in work[x] :
              j.does = "create" /\ j.name = s /\ j.watched
        BY <2>5, <3>3 DEF CreatingIsTrue
      <4>1. PICK j \in work[x] : j.does = "create" /\ j.name = s /\ j.watched
        BY <4>0
      <4>2. x \notin W
        BY <2>5, <4>1
      <4>3. work'[x] = {[i EXCEPT !.alone = FALSE] : i \in work[x]}
        BY <2>5, <4>2 DEF NobodyAlone
      <4>4. [j EXCEPT !.alone = FALSE] \in work'[x]
        BY <4>3
      <4>. DEFINE k == [j EXCEPT !.alone = FALSE]
      <4>5. k.does = "create" /\ k.name = s /\ k.watched
        BY <3>1, <4>1
      <4>6. k \in work'[x]
        BY <4>4
      <4>. HIDE DEF k
      <4>. QED
        BY <4>5, <4>6
    <3>4. CreatingIsTrue'
      BY <3>3 DEF CreatingIsTrue
    <3>. QED
      BY <3>2, <3>4
  <2>6. CASE Start
    <3>1. creating' = creating /\ \A x \in Workers \ {} : work'[x] = NobodyAlone(x)
      BY <2>6 DEF Start
    <3>2. /\ {} \in SUBSET Workers
          /\ \A x \in {} : \A j \in work[x] : j.does # "create"
          /\ \A x \in {} : \A j \in work'[x] : j.does # "create"
      OBVIOUS
    <3>. QED
      BY <2>5, <3>1, <3>2
  <2>7. CASE CrashBackups
    <3>1. \A s \in Second : creating'[s] # "creating"
      BY <2>7 DEF CrashBackups
    <3>2. ASSUME NEW x \in Workers, NEW j \in work'[x]
          PROVE  j.does = "create" => j.at = "reading"
      <4>1. PICK k \in work[x] : /\ k.at \in {"reading", "deleting", "extracting"}
                                 /\ j = [k EXCEPT !.watched = FALSE, !.alone = FALSE]
        BY <2>7, <3>2 DEF CrashBackups, Unwatched
      <4>2. k \in Work
        BY OneJob
      <4>. QED
        BY <4>1, <4>2 DEF CreateInv, Work
    <3>. QED
      BY <3>1, <3>2 DEF CreatingIsTrue, CreateInv
  <2>8. ASSUME NEW w \in Workers, NEW s \in Second, AskDelete(w, s) \/ AskRestore(w, s)
        PROVE  Goal
    <3>1. PICK k \in {New("delete", "asked", s), New("restore", "stopping", s)} :
            Becomes(w, k)
      BY <2>8 DEF AskDelete, AskRestore
    <3>2. k \in Work
      BY NewJob
    <3>3. k.does # "create"
      BY DEF New
    <3>4. work[w] = {} /\ creating' = creating
      BY <2>8 DEF AskDelete, AskRestore, Idle
    <3>. QED
      BY <3>1, <3>2, <3>3, <3>4, CreateBecomes
  <2>9. ASSUME NEW w \in Workers, RunBackup(w) PROVE Goal
    <3>. DEFINE k == New("run", "start", clock)
    <3>1. k \in Work
      BY NewJob DEF BackupsTypeOK
    <3>2. k.does # "create"
      BY DEF New
    <3>3. Becomes(w, k) /\ work[w] = {} /\ creating' = creating
      BY <2>9 DEF RunBackup, Idle
    <3>. HIDE DEF k
    <3>. QED
      BY <3>1, <3>2, <3>3, CreateBecomes
  <2>10. ASSUME NEW w \in Workers, Create(w) PROVE Goal
    <3>. DEFINE k == New("create", "start", clock)
    <3>1. k \in Work
      BY NewJob DEF BackupsTypeOK
    <3>2. k.does = "create" /\ k.at = "start" /\ k.name = clock /\ k.watched
      BY DEF New
    <3>3. Becomes(w, k) /\ work[w] = {}
      BY <2>10 DEF Create, Idle
    <3>. HIDE DEF k
    <3>4. \A x \in Workers : work'[x] = IF x = w THEN {k} ELSE work[x]
      BY <3>1, <3>3, JobChanged
    <3>5. ASSUME NEW s \in Second, creating'[s] = "creating"
          PROVE  s = clock \/ creating[s] = "creating"
      BY <2>10, <3>5 DEF Create, BackupsTypeOK
    <3>6. CreatesOf(clock, work'[w]) # {} /\ \A s \in Second : CreatesOf(s, work[w]) = {}
      BY <3>2, <3>3, <3>4 DEF CreatesOf
    <3>. QED
      BY <3>2, <3>4, <3>5, <3>6, StillCreating
  <2>11. ASSUME NEW w \in Workers, BorgReads(w) PROVE Goal
    <3>1. PICK j \in work[w] : /\ j.at = "start"
                               /\ Becomes(w, [j EXCEPT !.at = "reading", !.seen = volume])
      BY <2>11 DEF BorgReads
    <3>. DEFINE k == [j EXCEPT !.at = "reading", !.seen = volume]
    <3>2. j \in Work /\ k \in Work /\ work[w] = {j}
      BY OneJob, JobFields DEF BackupsTypeOK
    <3>3. k.does = j.does /\ k.name = j.name /\ k.watched = j.watched /\ k.at = "reading"
      BY <3>2 DEF Work
    <3>4. Becomes(w, k) /\ creating' = creating
      BY <2>11, <3>1 DEF BorgReads
    <3>. HIDE DEF k
    <3>. QED
      BY <3>2, <3>3, <3>4, CreateBecomes
  <2>12. ASSUME NEW w \in Workers, BorgCreates(w) \/ PutBackupMeta(w) \/ CreateFails(w)
         PROVE  Goal
    <3>1. PICK j \in work[w] :
            \/ \E at \in {"meta", "stored", "failed"} : Goes(w, j, at)
            \/ Ends(w) /\ ~j.watched
      BY <2>12 DEF BorgCreates, PutBackupMeta, CreateFails
    <3>2. creating' = creating /\ work[w] = {j}
      BY <2>12, OneJob DEF BorgCreates, PutBackupMeta, CreateFails
    <3>. QED
      BY <3>1, <3>2, CreateGoes, CreateEnded
  <2>13. ASSUME NEW w \in Workers, CreateEnds(w) PROVE Goal
    <3>1. PICK j \in work[w] :
            creating' = IF j.does = "create" THEN [creating EXCEPT ![j.name] = Outcome(j)]
                                             ELSE creating
      BY <2>13 DEF CreateEnds
    <3>2. j \in Work /\ work[w] = {j}
      BY OneJob
    <3>3. j.name \in Second /\ Outcome(j) # "creating"
      BY <3>2 DEF Work, Outcome
    <3>4. \A s \in Second : creating'[s] = "creating" => creating[s] = "creating"
      BY <3>1, <3>3 DEF BackupsTypeOK
    <3>5. j.does = "create" => creating'[j.name] # "creating"
      BY <3>1, <3>3 DEF BackupsTypeOK
    <3>6. Ends(w)
      BY <2>13 DEF CreateEnds
    <3>. QED
      BY <3>2, <3>4, <3>5, <3>6, CreateEnded
  <2>14. ASSUME NEW w \in Workers,
                \/ DeleteReadsTracker(w) \/ DeleteReadsLock(w) \/ BorgDeletes(w)
                \/ DeleteFails(w) \/ DeleteBackupMeta(w) \/ StopForRestore(w)
                \/ RestoreFails(w) \/ RestoreReturns(w)
         PROVE  Goal
    <3>1. PICK j \in work[w] :
            /\ j.at \in {"asked", "checked", "deleting", "deleted", "stopping", "stopped",
                         "extracting", "restored"}
            /\ \/ \E at \in {"checked", "forgetting", "deleting", "deleted", "stopped"} :
                    Goes(w, j, at)
               \/ Ends(w)
      BY <2>14 DEF DeleteReadsTracker, DeleteReadsLock, BorgDeletes, DeleteFails,
                   DeleteBackupMeta, StopForRestore, RestoreFails, Reported, RestoreReturns
    <3>2. creating' = creating /\ work[w] = {j}
      BY <2>14, OneJob DEF DeleteReadsTracker, DeleteReadsLock, BorgDeletes, DeleteFails,
                   DeleteBackupMeta, StopForRestore, RestoreFails, RestoreReturns
    <3>3. j.does # "create"
      BY <3>1 DEF CreateInv
    <3>. QED
      BY <3>1, <3>2, <3>3, CreateGoes, CreateEnded
  <2>15. ASSUME NEW w \in Workers, DeleteForgets(w) PROVE Goal
    <3>1. PICK j \in work[w] : /\ j.at = "forgetting"
                               /\ creating' = [creating EXCEPT ![j.name] = "none"]
      BY <2>15 DEF DeleteForgets
    <3>2. work[w] = {j} /\ Ends(w)
      BY <2>15, OneJob DEF DeleteForgets
    <3>3. j.does # "create"
      BY <3>1 DEF CreateInv
    <3>4. \A s \in Second : creating'[s] = "creating" => creating[s] = "creating"
      BY <3>1 DEF BackupsTypeOK
    <3>. QED
      BY <3>2, <3>3, <3>4, CreateEnded
  <2>16. ASSUME NEW w \in Workers, RestoreWipes(w) PROVE Goal
    <3>. DEFINE b == ~up /\ ~Extracting
    <3>1. PICK j \in work[w], wiped \in BOOLEAN :
            /\ j.at = "stopped"
            /\ work' = [x \in Workers |->
                 IF x = w THEN {[j EXCEPT !.at = "extracting", !.wiped = wiped, !.alone = b]}
                          ELSE NobodyAlone(x)]
      BY <2>16 DEF RestoreWipes
    <3>. HIDE DEF b
    <3>2. j \in Work /\ work[w] = {j} /\ j.does # "create"
      BY <3>1, OneJob DEF CreateInv
    <3>3. work'[w] = {[j EXCEPT !.at = "extracting", !.wiped = wiped, !.alone = b]}
      BY <3>1
    <3>4. \A k \in work'[w] : k.does # "create"
      BY <3>2, <3>3 DEF Work
    <3>5. creating' = creating /\ \A x \in Workers \ {w} : work'[x] = NobodyAlone(x)
      BY <2>16, <3>1 DEF RestoreWipes
    <3>6. /\ {w} \in SUBSET Workers
          /\ \A x \in {w} : \A k \in work[x] : k.does # "create"
          /\ \A x \in {w} : \A k \in work'[x] : k.does # "create"
      BY <3>2, <3>4
    <3>. QED
      BY <2>5, <3>5, <3>6
  <2>17. ASSUME NEW w \in Workers, BorgExtracts(w) PROVE Goal
    <3>1. PICK j \in work[w] :
            /\ j.at = "extracting"
            /\ \/ Becomes(w, [j EXCEPT !.at = "restored", !.seen = content[j.name]])
               \/ Ends(w)
      BY <2>17 DEF BorgExtracts
    <3>. DEFINE k == [j EXCEPT !.at = "restored", !.seen = content[j.name]]
    <3>2. j \in Work /\ work[w] = {j} /\ j.does # "create" /\ content[j.name] \in Data
      BY <3>1, OneJob DEF Work, BackupsTypeOK, CreateInv
    <3>3. k \in Work /\ k.does # "create"
      BY <3>2 DEF Work
    <3>4. creating' = creating /\ (Becomes(w, k) \/ Ends(w))
      BY <2>17, <3>1 DEF BorgExtracts
    <3>. HIDE DEF k
    <3>. QED
      BY <3>2, <3>3, <3>4, CreateBecomes, CreateEnded
  <2>. QED
    BY <2>2, <2>3, <2>4, <2>6, <2>7, <2>8, <2>9, <2>10, <2>11, <2>12, <2>13, <2>14,
       <2>15, <2>16, <2>17 DEF BackupsNext
<1>. QED
  BY <1>1, <1>2, BackupsTypeCorrect, PTL DEF BackupsSpec
=============================================================================
