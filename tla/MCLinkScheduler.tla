--------------------------- MODULE MCLinkScheduler ---------------------------
(***************************************************************************)
(* A small instance of Link and of Scheduler, which share nothing, for one   *)
(* run of TLC under the fairness of both.  A behaviour with an empty scope   *)
(* is about the schedules, and the link stays as it starts; the others are   *)
(* about the link, by a daemon that could not read its schedules.            *)
(***************************************************************************)
EXTENDS MCLink, Scheduler

LiveInit == MCInit /\ SchedulerInit

Unscheduled == scope # {} /\ ListFails(Main) /\ UNCHANGED <<vars, scope>>
LinkStep == pc[Main] = "unstarted" /\ scope # {} /\ MCNext /\ UNCHANGED schedulerVars
SchedulerStep == scope = {} /\ SchedulerNext /\ UNCHANGED <<vars, scope>>
LiveNext == Unscheduled \/ LinkStep \/ SchedulerStep

LiveSpec ==
  /\ LiveInit /\ [][LiveNext]_<<vars, scope, schedulerVars>>
  /\ Fairness /\ SchedulerFairness
=============================================================================
