----------------------------- MODULE MCCronJobs -----------------------------
(***************************************************************************)
(* A finite instance of CronJobs: one CronJob with two versions of its job *)
(* template, two Job names that may be drawn, one that callers choose too. *)
(***************************************************************************)
EXTENDS CronJobs, TLC

CONSTANTS backup, j, g

Drawn == backup :> {j, g}

CronJobRequests ==
  [tool : suspendTools, name : {backup}]
  \cup [tool : {"jobs_create"}, cronjob : {backup}, job_name : {j, None}]
  \cup [tool : {"jobs_delete"}, name : {j}]
  \cup [tool : {"pods_delete"}, name : PodName]

Symmetry == Permutations(Handler)
=============================================================================
