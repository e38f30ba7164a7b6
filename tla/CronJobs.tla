------------------------------ MODULE CronJobs ------------------------------
(***************************************************************************)
(* The tools that write CronJobs, Jobs and their pods: cronjobs_suspend,   *)
(* cronjobs_resume, jobs_create, jobs_delete and pods_delete               *)
(* (internal/tools).                                                       *)
(*                                                                         *)
(* A handler is a goroutine that makes one request to the API server after *)
(* another and keeps what it read on its stack, while other handlers, the  *)
(* CronJob controller and other clients write the same objects.  The API   *)
(* server executes each request atomically; a handler may get an error     *)
(* instead of the answer before or after that.  A caller may repeat a call.*)
(* Names stand for names within one namespace.                             *)
(***************************************************************************)
EXTENDS FiniteSets

CONSTANTS
  CronJobName,
  JobName,
  PodName,
  Generated,   \* the names generateJobName may draw for each CronJob
  Template,    \* spec.jobTemplate, with everything a Job copies
  Handler,     \* goroutines serving calls: bounds the calls in flight
  Requests,    \* the calls that arrive
  None         \* an absent object, field or parameter

suspendTools == {"cronjobs_suspend", "cronjobs_resume"}

Request == [tool : suspendTools, name : CronJobName]
           \cup [tool : {"jobs_create"}, cronjob : CronJobName,
                 job_name : JobName \cup {None}]
           \cup [tool : {"jobs_delete"}, name : JobName]
           \cup [tool : {"pods_delete"}, name : PodName]

ASSUME ConstantsAssumption ==
  /\ Generated \in [CronJobName -> SUBSET JobName]
  /\ Requests \subseteq Request

\* spec.suspend may be unset.
CronJob == [suspend : BOOLEAN \cup {None}, template : Template]

\* made_for is the call whose handler created the Job: a ghost.
Job == [template : Template, made_for : Requests \cup {None}]

ASSUME NoneAssumption ==
  None \notin BOOLEAN \cup JobName \cup Requests \cup CronJob \cup Job

\* Of the answers only what CronJobSummary says of spec.suspend matters here.
Idle == [at |-> "idle"]
Call == {Idle}
        \cup [at : {"asked"}, req : Requests]
        \cup [at : {"read"}, req : Requests, cronJob : CronJob]
        \cup [at : {"patched"}, req : {r \in Requests : r.tool \in suspendTools}]
        \cup [at : {"answered"}, req : {r \in Requests : r.tool \in suspendTools},
              suspend : BOOLEAN]
        \cup [at : {"answered"}, req : {r \in Requests : r.tool \notin suspendTools},
              suspend : {None}]
        \cup [at : {"failed"}, req : Requests]

VARIABLES
  cronJobs,   \* the CronJobs in the API server, None where there is none
  jobs,       \* the Jobs in the API server
  pods,       \* the names of the pods in the API server
  call        \* the call each handler works on

vars == <<cronJobs, jobs, pods, call>>

Init ==
  /\ cronJobs \in [CronJobName -> CronJob \cup {None}]
  /\ jobs = [j \in JobName |-> None]
  /\ pods \in SUBSET PodName
  /\ call = [h \in Handler |-> Idle]

-----------------------------------------------------------------------------
(* Shared steps.                                                           *)

Ask(h) ==
  /\ call[h].at \in {"idle", "answered", "failed"}
  /\ \E req \in Requests : call' = [call EXCEPT ![h] = [at |-> "asked", req |-> req]]
  /\ UNCHANGED <<cronJobs, jobs, pods>>

Fails(h) == call' = [call EXCEPT ![h] = [at |-> "failed", req |-> call[h].req]]

Answers(h, suspend) ==
  call' = [call EXCEPT ![h] = [at |-> "answered", req |-> call[h].req,
                               suspend |-> suspend]]

\* A request fails, and the handler returns its error: it was not executed.
RequestFails(h) ==
  /\ call[h].at \in {"asked", "read", "patched"}
  /\ Fails(h)
  /\ UNCHANGED <<cronJobs, jobs, pods>>

-----------------------------------------------------------------------------
(* cronjobs_suspend and cronjobs_resume.                                   *)

\* The value the tool's patch sets.
Wants(req) == req.tool = "cronjobs_suspend"

\* toCronJobSummary: unset counts as false.
Suspended(cronJob) == cronJob.suspend # None /\ cronJob.suspend

\* Mutant: resume with the test of suspend.
AlreadySuspended(req, cronJob) == Suspended(cronJob)

\* Whether the handler returns at once with the CronJob it has read.
AlreadyThere(req, cronJob) == Suspended(cronJob) = Wants(req)

GetFirst(h) ==
  LET req == call[h].req
      read == cronJobs[req.name]
  IN  /\ call[h].at = "asked" /\ req.tool \in suspendTools
      /\ \/ read = None /\ Fails(h)
         \/ /\ read # None /\ AlreadyThere(req, read)
            /\ Answers(h, Suspended(read))
         \/ /\ read # None /\ ~AlreadyThere(req, read)
            /\ call' = [call EXCEPT ![h] = [at |-> "read", req |-> req,
                                            cronJob |-> read]]
      /\ UNCHANGED <<cronJobs, jobs, pods>>

\* Mutant: the CronJob that was read is written back.
WrittenBack(stored, req, read) == [read EXCEPT !.suspend = Wants(req)]

\* What the merge patch makes of the CronJob that is stored by then.
Patched(stored, req, read) == [stored EXCEPT !.suspend = Wants(req)]

Patch(h) ==
  LET req == call[h].req
      stored == cronJobs[req.name]
  IN  /\ call[h].at = "read" /\ req.tool \in suspendTools
      /\ \/ stored = None /\ Fails(h) /\ UNCHANGED cronJobs
         \/ /\ stored # None
            /\ cronJobs' = [cronJobs EXCEPT
                              ![req.name] = Patched(stored, req, call[h].cronJob)]
            /\ \/ call' = [call EXCEPT ![h] = [at |-> "patched", req |-> req]]
               \/ Fails(h)
      /\ UNCHANGED <<jobs, pods>>

GetAgain(h) ==
  LET stored == cronJobs[call[h].req.name]
  IN  /\ call[h].at = "patched"
      /\ \/ stored = None /\ Fails(h)
         \/ stored # None /\ Answers(h, Suspended(stored))
      /\ UNCHANGED <<cronJobs, jobs, pods>>

-----------------------------------------------------------------------------
(* jobs_create, jobs_delete and pods_delete.                               *)

GetCronJob(h) ==
  LET req == call[h].req
  IN  /\ call[h].at = "asked" /\ req.tool = "jobs_create"
      /\ IF cronJobs[req.cronjob] = None
           THEN Fails(h)
           ELSE call' = [call EXCEPT ![h] = [at |-> "read", req |-> req,
                                             cronJob |-> cronJobs[req.cronjob]]]
      /\ UNCHANGED <<cronJobs, jobs, pods>>

\* Mutant: job_name is not looked at.
AlwaysGenerated(req) == Generated[req.cronjob]

\* finalJobName
NamesFor(req) ==
  IF req.job_name # None THEN {req.job_name} ELSE Generated[req.cronjob]

\* createJobFromCronJob: a name that is taken is an error, drawn or not.
Create(h) ==
  LET req == call[h].req
  IN  /\ call[h].at = "read" /\ req.tool = "jobs_create"
      /\ \E j \in NamesFor(req) :
           \/ jobs[j] # None /\ Fails(h) /\ UNCHANGED jobs
           \/ /\ jobs[j] = None
              /\ jobs' = [jobs EXCEPT ![j] = [template |-> call[h].cronJob.template,
                                              made_for |-> req]]
              /\ Answers(h, None) \/ Fails(h)
      /\ UNCHANGED <<cronJobs, pods>>

Delete(h) ==
  LET req == call[h].req
  IN  /\ call[h].at = "asked" /\ req.tool = "jobs_delete"
      /\ \/ jobs[req.name] = None /\ Fails(h) /\ UNCHANGED jobs
         \/ /\ jobs[req.name] # None
            /\ jobs' = [jobs EXCEPT ![req.name] = None]
            /\ Answers(h, None) \/ Fails(h)
      /\ UNCHANGED <<cronJobs, pods>>

\* The name is all that the request says of the pod.
DeletePod(h) ==
  LET name == call[h].req.name
  IN  /\ call[h].at = "asked" /\ call[h].req.tool = "pods_delete"
      /\ \/ name \notin pods /\ Fails(h)
         \/ name \in pods /\ (Answers(h, None) \/ Fails(h))
      /\ pods' = pods \ {name}
      /\ UNCHANGED <<cronJobs, jobs>>

-----------------------------------------------------------------------------
(* Controllers and other clients.                                          *)

WriteCronJob ==
  /\ \E c \in CronJobName, cronJob \in CronJob \cup {None} :
       cronJobs' = [cronJobs EXCEPT ![c] = cronJob]
  /\ UNCHANGED <<jobs, pods, call>>

WriteJob ==
  /\ \/ \E j \in JobName, t \in Template :
          /\ jobs[j] = None
          /\ jobs' = [jobs EXCEPT ![j] = [template |-> t, made_for |-> None]]
     \/ \E j \in JobName : jobs[j] # None /\ jobs' = [jobs EXCEPT ![j] = None]
  /\ UNCHANGED <<cronJobs, pods, call>>

WritePods == pods' \in SUBSET PodName /\ UNCHANGED <<cronJobs, jobs, call>>

-----------------------------------------------------------------------------
Serve(h) == \/ RequestFails(h)
            \/ GetFirst(h) \/ Patch(h) \/ GetAgain(h)
            \/ GetCronJob(h) \/ Create(h) \/ Delete(h) \/ DeletePod(h)

Next == \/ \E h \in Handler : Ask(h) \/ Serve(h)
        \/ WriteCronJob \/ WriteJob \/ WritePods

Spec == Init /\ [][Next]_vars

-----------------------------------------------------------------------------
(* Properties.                                                             *)

\* Objects and calls have the shapes above.
TypeOK ==
  /\ cronJobs \in [CronJobName -> CronJob \cup {None}]
  /\ jobs \in [JobName -> Job \cup {None}]
  /\ pods \subseteq PodName
  /\ call \in [Handler -> Call]

\* A suspend or resume call changes nothing of the CronJob but spec.suspend, also
\* when others edit, replace or remove it between the handler's Get and its patch.
ForeignEditsSurvive ==
  [][\A c \in CronJobName :
       (\E h \in Handler : Serve(h)) /\ cronJobs'[c] # cronJobs[c]
       => /\ cronJobs[c] # None /\ cronJobs'[c] # None
          /\ cronJobs'[c].template = cronJobs[c].template]_vars

\* However often a jobs_create with a job_name is repeated, because its answer was
\* lost or by several callers at once, its CronJob is not run more than once by it
\* as long as the Job is there.
RetriedRunIsOneJob ==
  \A req \in Requests :
    req.tool = "jobs_create" /\ req.job_name # None
    => \A i, j \in {n \in JobName : jobs[n] # None /\ jobs[n].made_for = req} : i = j

\* Suspend and resume are the atomic switch of SuspendSwitch: the early return of
\* a handler that finds nothing to do, and the patch of one that does, take effect
\* at one moment between the call and its answer, on the CronJob of that moment.
PositionOf(cronJob) ==
  IF cronJob = None THEN "absent"
  ELSE IF Suspended(cronJob) THEN "suspended" ELSE "running"

WantedPosition(req) == IF Wants(req) THEN "suspended" ELSE "running"

SwitchCall(c) ==
  IF c.at = "idle" \/ c.req.tool \notin suspendTools THEN [at |-> "idle"]
  ELSE CASE c.at \in {"asked", "read"} ->
              [at |-> "asked", switch |-> c.req.name, want |-> WantedPosition(c.req)]
         [] c.at = "patched" ->
              [at |-> "turned", switch |-> c.req.name, want |-> WantedPosition(c.req)]
         [] c.at = "answered" ->
              [at |-> "succeeded",
               reported |-> IF c.suspend THEN "suspended" ELSE "running"]
         [] c.at = "failed" -> [at |-> "failed"]

Positions == [c \in CronJobName |-> PositionOf(cronJobs[c])]
Calls == [h \in Handler |-> SwitchCall(call[h])]

Switches == INSTANCE SuspendSwitch WITH
              Switch <- CronJobName, Caller <- Handler,
              position <- Positions, call <- Calls

ImplementsSwitch == Switches!Spec

=============================================================================
