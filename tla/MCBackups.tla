----------------------------- MODULE MCBackups -----------------------------
(***************************************************************************)
(* A small instance of Backups for TLC.  A behaviour follows one plan:      *)
(* archives created, locked and deleted, or created and restored under a    *)
(* server that starts and writes, so that one run covers both.              *)
(***************************************************************************)
EXTENDS Backups

VARIABLE plan

Plans ==
  {[does |-> {"create", "run", "delete"}, last |-> 1, server |-> FALSE],
   [does |-> {"run", "restore"}, last |-> LastSecond, server |-> TRUE]}

InPlan ==
  /\ \A w \in Workers : \A j \in work'[w] : j.does \in plan.does
  /\ clock' <= plan.last
  /\ plan.server => meta' = meta
  /\ plan.server \/ (up' = up /\ volume' = volume)

MCInit == BackupsInit /\ plan \in Plans /\ volume = {CHOOSE v \in Versions : TRUE}
MCNext == BackupsNext /\ InPlan /\ UNCHANGED plan
MCSpec == MCInit /\ [][MCNext]_<<backupVars, plan>> /\ BackupsFairness
=============================================================================
