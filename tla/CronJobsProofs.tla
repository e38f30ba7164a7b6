---------------------------- MODULE CronJobsProofs ----------------------------
(***************************************************************************)
(* Proofs about CronJobs, for every number of CronJobs, Jobs, handlers and *)
(* repeated calls, whatever other clients do.                              *)
(***************************************************************************)
EXTENDS CronJobs, TLAPS

-----------------------------------------------------------------------------
(* Typing.                                                                 *)

\* What a call in flight holds, by the point it has reached.
LEMMA CallFields ==
  ASSUME NEW c \in Call
  PROVE  /\ c.at \in {"asked", "read", "patched"} => c.req \in Requests
         /\ c.at = "read" => c.cronJob \in CronJob
         /\ c.at # "idle" => c.req \in Requests
         /\ c.at = "patched" => c.req.tool \in suspendTools
BY DEF Call, Idle

\* What a request says, by its tool.
LEMMA RequestFields ==
  ASSUME NEW req \in Requests
  PROVE  /\ req.tool \in suspendTools => req.name \in CronJobName
         /\ req.tool = "jobs_create" => /\ req.cronjob \in CronJobName
                                        /\ req.job_name \in JobName \cup {None}
         /\ req.tool = "jobs_delete" => req.name \in JobName
BY ConstantsAssumption DEF Request, suspendTools

\* Unset counts as false, so spec.suspend is always one or the other.
LEMMA SuspendedType ==
  ASSUME NEW cronJob \in CronJob
  PROVE  Suspended(cronJob) \in BOOLEAN
BY DEF Suspended

\* The three ways in which a call goes on.
LEMMA NextCallType ==
  ASSUME TypeOK, NEW h \in Handler, call[h].at \in {"asked", "read", "patched"}
  PROVE  /\ Fails(h) => call' \in [Handler -> Call]
         /\ call[h].req.tool \in suspendTools =>
              \A b \in BOOLEAN : Answers(h, b) => call' \in [Handler -> Call]
         /\ call[h].req.tool \notin suspendTools =>
              (Answers(h, None) => call' \in [Handler -> Call])
         /\ \A cronJob \in CronJob :
              call' = [call EXCEPT ![h] = [at |-> "read", req |-> call[h].req,
                                           cronJob |-> cronJob]]
              => call' \in [Handler -> Call]
         /\ call[h].req.tool \in suspendTools =>
              (call' = [call EXCEPT ![h] = [at |-> "patched", req |-> call[h].req]]
               => call' \in [Handler -> Call])
<1>1. call[h].req \in Requests /\ call \in [Handler -> Call]
  BY CallFields DEF TypeOK
<1>2. [at |-> "failed", req |-> call[h].req] \in Call
  BY <1>1 DEF Call
<1>3. ASSUME NEW b \in BOOLEAN, call[h].req.tool \in suspendTools
      PROVE  [at |-> "answered", req |-> call[h].req, suspend |-> b] \in Call
  BY <1>1, <1>3 DEF Call
<1>4. ASSUME call[h].req.tool \notin suspendTools
      PROVE  [at |-> "answered", req |-> call[h].req, suspend |-> None] \in Call
  BY <1>1, <1>4 DEF Call
<1>5. ASSUME NEW cronJob \in CronJob
      PROVE  [at |-> "read", req |-> call[h].req, cronJob |-> cronJob] \in Call
  BY <1>1, <1>5 DEF Call
<1>6. ASSUME call[h].req.tool \in suspendTools
      PROVE  [at |-> "patched", req |-> call[h].req] \in Call
  BY <1>1, <1>6 DEF Call
<1> QED
  BY <1>1, <1>2, <1>3, <1>4, <1>5, <1>6 DEF Fails, Answers

\* Every step keeps the types: one step per action.
LEMMA TypeOKStep == TypeOK /\ [Next]_vars => TypeOK'
<1> SUFFICES ASSUME TypeOK, [Next]_vars PROVE TypeOK'
  OBVIOUS
<1>1. ASSUME NEW h \in Handler, Ask(h)
      PROVE  TypeOK'
  <2>1. \A req \in Requests : [at |-> "asked", req |-> req] \in Call
    BY DEF Call
  <2> QED
    BY <1>1, <2>1 DEF Ask, TypeOK
<1>2. ASSUME NEW h \in Handler, RequestFails(h)
      PROVE  TypeOK'
  BY <1>2, NextCallType DEF RequestFails, TypeOK
<1>3. ASSUME NEW h \in Handler, GetFirst(h)
      PROVE  TypeOK'
  <2>1. /\ call[h].at = "asked" /\ call[h].req.tool \in suspendTools
        /\ cronJobs[call[h].req.name] \in CronJob \cup {None}
        /\ UNCHANGED <<cronJobs, jobs, pods>>
    BY <1>3, CallFields, RequestFields DEF GetFirst, TypeOK
  <2>2. call' \in [Handler -> Call]
    BY <1>3, <2>1, NextCallType, SuspendedType DEF GetFirst
  <2> QED
    BY <2>1, <2>2 DEF TypeOK
<1>4. ASSUME NEW h \in Handler, Patch(h)
      PROVE  TypeOK'
  <2> DEFINE name == call[h].req.name
  <2>1. /\ call[h].at = "read" /\ call[h].req.tool \in suspendTools
        /\ name \in CronJobName /\ UNCHANGED <<jobs, pods>>
    BY <1>4, CallFields, RequestFields DEF Patch, TypeOK
  <2>2. call' \in [Handler -> Call]
    BY <1>4, <2>1, NextCallType DEF Patch
  <2>3. \A stored \in CronJob :
          Patched(stored, call[h].req, call[h].cronJob) \in CronJob
    BY DEF Patched, CronJob, Wants
  <2>4. cronJobs' \in [CronJobName -> CronJob \cup {None}]
    BY <1>4, <2>1, <2>3 DEF Patch, TypeOK
  <2> QED
    BY <2>1, <2>2, <2>4 DEF TypeOK
<1>5. ASSUME NEW h \in Handler, GetAgain(h)
      PROVE  TypeOK'
  <2>1. call[h].req.tool \in suspendTools
    BY <1>5, CallFields DEF GetAgain, TypeOK
  <2>2. /\ call[h].at = "patched"
        /\ cronJobs[call[h].req.name] \in CronJob \cup {None}
        /\ UNCHANGED <<cronJobs, jobs, pods>>
    BY <1>5, <2>1, CallFields, RequestFields DEF GetAgain, TypeOK
  <2>3. call' \in [Handler -> Call]
    BY <1>5, <2>1, <2>2, NextCallType, SuspendedType DEF GetAgain
  <2> QED
    BY <2>2, <2>3 DEF TypeOK
<1>6. ASSUME NEW h \in Handler, GetCronJob(h)
      PROVE  TypeOK'
  <2>1. /\ call[h].at = "asked"
        /\ cronJobs[call[h].req.cronjob] \in CronJob \cup {None}
        /\ UNCHANGED <<cronJobs, jobs, pods>>
    BY <1>6, CallFields, RequestFields DEF GetCronJob, TypeOK
  <2>2. call' \in [Handler -> Call]
    BY <1>6, <2>1, NextCallType DEF GetCronJob
  <2> QED
    BY <2>1, <2>2 DEF TypeOK
<1>7. ASSUME NEW h \in Handler, Create(h)
      PROVE  TypeOK'
  <2>1. /\ call[h].at = "read" /\ call[h].req.tool \notin suspendTools
        /\ call[h].req \in Requests /\ call[h].cronJob \in CronJob
        /\ UNCHANGED <<cronJobs, pods>>
    BY <1>7, CallFields DEF Create, TypeOK, suspendTools
  <2>2. call' \in [Handler -> Call]
    BY <1>7, <2>1, NextCallType DEF Create
  <2>3. [template |-> call[h].cronJob.template, made_for |-> call[h].req] \in Job
    BY <2>1 DEF Job, CronJob
  <2>4. jobs' \in [JobName -> Job \cup {None}]
    BY <1>7, <2>3 DEF Create, TypeOK
  <2> QED
    BY <2>1, <2>2, <2>4 DEF TypeOK
<1>8. ASSUME NEW h \in Handler, Delete(h)
      PROVE  TypeOK'
  <2>1. /\ call[h].at = "asked" /\ call[h].req.tool \notin suspendTools
        /\ UNCHANGED <<cronJobs, pods>>
    BY <1>8 DEF Delete, suspendTools
  <2>2. call' \in [Handler -> Call]
    BY <1>8, <2>1, NextCallType DEF Delete
  <2> QED
    BY <1>8, <2>1, <2>2 DEF Delete, TypeOK
<1>9. ASSUME NEW h \in Handler, DeletePod(h)
      PROVE  TypeOK'
  <2>1. /\ call[h].at = "asked" /\ call[h].req.tool \notin suspendTools
        /\ UNCHANGED <<cronJobs, jobs>>
    BY <1>9 DEF DeletePod, suspendTools
  <2>2. call' \in [Handler -> Call]
    BY <1>9, <2>1, NextCallType DEF DeletePod
  <2> QED
    BY <1>9, <2>1, <2>2 DEF DeletePod, TypeOK
<1>10. CASE WriteCronJob
  BY <1>10 DEF WriteCronJob, TypeOK
<1>11. CASE WriteJob
  <2>1. \A t \in Template : [template |-> t, made_for |-> None] \in Job
    BY DEF Job
  <2> QED
    BY <1>11, <2>1 DEF WriteJob, TypeOK
<1>12. CASE WritePods
  BY <1>12 DEF WritePods, TypeOK
<1>13. CASE UNCHANGED vars
  BY <1>13 DEF vars, TypeOK
<1> QED
  BY <1>1, <1>2, <1>3, <1>4, <1>5, <1>6, <1>7, <1>8, <1>9, <1>10, <1>11, <1>12,
     <1>13 DEF Next, Serve

\* Objects and calls always have the declared shapes.
THEOREM TypeCorrect == Spec => []TypeOK
<1>1. Init => TypeOK
  BY DEF Init, TypeOK, Call
<1> QED
  BY <1>1, TypeOKStep, PTL DEF Spec

-----------------------------------------------------------------------------
(* Retries.                                                                *)

\* A Job that a call has made for a chosen name bears it.
MadeInv ==
  \A n \in JobName :
    jobs[n] # None /\ jobs[n].made_for # None
    => jobs[n].made_for.job_name \in {n, None}

\* MadeInv is inductive: Jobs are made in one place, and nobody renames them.
LEMMA MadeInvStep == TypeOK /\ MadeInv /\ [Next]_vars => MadeInv'
<1> SUFFICES ASSUME TypeOK, MadeInv, [Next]_vars PROVE MadeInv'
  OBVIOUS
<1>1. ASSUME NEW h \in Handler, Create(h)
      PROVE  MadeInv'
  <2> DEFINE job == [template |-> call[h].cronJob.template, made_for |-> call[h].req]
  <2>1. PICK j \in NamesFor(call[h].req) :
             jobs' = jobs \/ jobs' = [jobs EXCEPT ![j] = job]
    BY <1>1 DEF Create
  <2>2. call[h].req.job_name \in {j, None}
    BY <2>1 DEF NamesFor
  <2>3. job.made_for = call[h].req
    OBVIOUS
  <2> HIDE DEF job
  <2>4. ASSUME NEW n \in JobName
        PROVE  jobs'[n] = jobs[n] \/ (n = j /\ jobs'[n] = job)
    BY <2>1 DEF TypeOK
  <2> QED
    BY <2>2, <2>3, <2>4 DEF MadeInv
<1>2. ASSUME \A n \in JobName :
               jobs'[n] \in {jobs[n], None} \/ jobs'[n].made_for = None
      PROVE  MadeInv'
  BY <1>2 DEF MadeInv
<1>3. ASSUME NEW h \in Handler, Delete(h)
      PROVE  MadeInv'
  BY <1>2, <1>3 DEF Delete, TypeOK
<1>4. CASE WriteJob
  <2>1. \A n \in JobName : jobs'[n] \in {jobs[n], None} \/ jobs'[n].made_for = None
    BY <1>4 DEF WriteJob, TypeOK
  <2> QED
    BY <1>2, <2>1
<1>5. CASE UNCHANGED jobs
  BY <1>2, <1>5
<1> QED
  BY <1>1, <1>3, <1>4, <1>5
  DEF Next, Serve, vars, Ask, RequestFails, GetFirst, Patch, GetAgain, GetCronJob,
      DeletePod, WriteCronJob, WritePods

\* A jobs_create with a chosen name runs its CronJob once, however often and by
\* however many callers it is repeated, as long as the Job is there.
THEOREM RetrySafety == Spec => []RetriedRunIsOneJob
<1>1. Init => MadeInv
  BY DEF Init, MadeInv
<1>2. MadeInv => RetriedRunIsOneJob
  <2> SUFFICES ASSUME MadeInv, NEW req \in Requests, req.job_name # None,
                      NEW n \in JobName, jobs[n] # None, jobs[n].made_for = req
               PROVE  n = req.job_name
    BY DEF RetriedRunIsOneJob
  <2>1. req # None
    BY NoneAssumption
  <2> QED
    BY <2>1 DEF MadeInv
<1> QED
  BY <1>1, <1>2, MadeInvStep, TypeCorrect, PTL DEF Spec

-----------------------------------------------------------------------------
(* The switch.                                                             *)

\* Of all that handlers do only the patch writes a CronJob, and only spec.suspend.
THEOREM ForeignEdits == Spec => ForeignEditsSurvive
<1>1. ASSUME TypeOK, NEW c \in CronJobName, NEW h \in Handler, Serve(h),
             cronJobs'[c] # cronJobs[c]
      PROVE  /\ cronJobs[c] # None /\ cronJobs'[c] # None
             /\ cronJobs'[c].template = cronJobs[c].template
  <2>1. Patch(h)
    BY <1>1 DEF Serve, RequestFails, GetFirst, GetAgain, GetCronJob, Create, Delete,
                DeletePod
  <2>2. /\ c = call[h].req.name /\ cronJobs[c] # None
        /\ cronJobs'[c] = [cronJobs[c] EXCEPT !.suspend = Wants(call[h].req)]
    BY <1>1, <2>1 DEF Patch, Patched, TypeOK
  <2>3. cronJobs[c] \in CronJob
    BY <1>1, <2>2 DEF TypeOK
  <2>4. cronJobs'[c] \in CronJob /\ cronJobs'[c].template = cronJobs[c].template
    BY <2>2, <2>3 DEF CronJob, Wants
  <2> QED
    BY <2>2, <2>4, NoneAssumption
<1>2. TypeOK /\ [Next]_vars
        => [\A c \in CronJobName :
              (\E h \in Handler : Serve(h)) /\ cronJobs'[c] # cronJobs[c]
              => /\ cronJobs[c] # None /\ cronJobs'[c] # None
                 /\ cronJobs'[c].template = cronJobs[c].template]_vars
  BY <1>1
<1> QED
  BY <1>2, TypeCorrect, PTL DEF Spec, ForeignEditsSurvive

\* A handler that moves, moves its call in the abstraction.
LEMMA OneCall ==
  ASSUME TypeOK, NEW h \in Handler, NEW c, call' = [call EXCEPT ![h] = c]
  PROVE  /\ Calls' = [Calls EXCEPT ![h] = SwitchCall(c)]
         /\ Calls[h] = SwitchCall(call[h])
<1>1. call'[h] = c /\ \A k \in Handler : k # h => call'[k] = call[k]
  BY DEF TypeOK
<1>2. Calls' = [k \in Handler |-> SwitchCall(call'[k])]
  BY DEF Calls, SwitchCall, WantedPosition, Wants
<1>3. Calls = [k \in Handler |-> SwitchCall(call[k])]
  BY DEF Calls
<1> HIDE DEF Calls
<1>4. \A k \in Handler : Calls'[k] = IF k = h THEN SwitchCall(c) ELSE Calls[k]
  BY <1>1, <1>2, <1>3
<1> QED
  BY <1>2, <1>3, <1>4

\* The other tools do not use the switch.
LEMMA Unseen ==
  ASSUME TypeOK, NEW h \in Handler, NEW c,
         call' = [call EXCEPT ![h] = c], call[h].req.tool \notin suspendTools,
         c.req = call[h].req
  PROVE  Calls' = Calls
<1>1. SwitchCall(c) = SwitchCall(call[h])
  BY DEF SwitchCall
<1>2. DOMAIN Calls = Handler /\ Calls = [k \in Handler |-> Calls[k]]
  BY DEF Calls
<1>3. Calls' = [Calls EXCEPT ![h] = Calls[h]]
  BY <1>1, OneCall
<1> QED
  BY <1>2, <1>3

\* A call whose request fails, or finds no CronJob, fails in the abstraction, too.
LEMMA FailsFails ==
  ASSUME TypeOK, NEW h \in Handler, call[h].at \in {"asked", "read", "patched"},
         Fails(h), UNCHANGED cronJobs
  PROVE  Switches!Next \/ UNCHANGED <<Positions, Calls>>
<1>1. Positions' = Positions
  BY DEF Positions, PositionOf, Suspended
<1>2. CASE call[h].req.tool \notin suspendTools
  BY <1>1, <1>2, Unseen DEF Fails
<1>3. CASE call[h].req.tool \in suspendTools
  <2>1. SwitchCall(call[h]).at \in {"asked", "turned"}
    BY <1>3 DEF SwitchCall
  <2>. PICK failed : failed = [at |-> "failed", req |-> call[h].req]
    OBVIOUS
  <2>2. /\ SwitchCall(failed) = [at |-> "failed"]
        /\ call' = [call EXCEPT ![h] = failed]
    BY <1>3 DEF SwitchCall, Fails
  <2>3. Calls[h].at \in {"asked", "turned"}
    BY <2>1 DEF Calls
  <2>4. Calls' = [Calls EXCEPT ![h] = [at |-> "failed"]]
    BY <2>2, OneCall DEF SwitchCall
  <2>5. Switches!Fail(h)
    BY <1>1, <2>3, <2>4 DEF Switches!Fail
  <2> QED
    BY <2>5 DEF Switches!Next
<1> QED
  BY <1>2, <1>3

\* Ask is Ask for the two tools of the switch and Leave for the others.
LEMMA AskSwitch ==
  ASSUME TypeOK, NEW h \in Handler, Ask(h)
  PROVE  Switches!Next
<1>1. PICK req \in Requests : call' = [call EXCEPT ![h] = [at |-> "asked", req |-> req]]
  BY DEF Ask
<1>2. Positions' = Positions
  BY DEF Ask, Positions, PositionOf, Suspended
<1>3. CASE req.tool \in suspendTools
  <2>1. Calls' = [Calls EXCEPT ![h] = [at |-> "asked", switch |-> req.name,
                                       want |-> WantedPosition(req)]]
    BY <1>1, <1>3, OneCall DEF SwitchCall
  <2>2. req.name \in CronJobName /\ WantedPosition(req) \in Switches!Position
    BY <1>3, RequestFields DEF WantedPosition, Switches!Position
  <2>3. Switches!Ask(h)
    BY <1>2, <2>1, <2>2 DEF Switches!Ask
  <2> QED
    BY <2>3 DEF Switches!Next
<1>4. CASE req.tool \notin suspendTools
  <2>1. Calls' = [Calls EXCEPT ![h] = [at |-> "idle"]]
    BY <1>1, <1>4, OneCall DEF SwitchCall
  <2>2. Switches!Leave(h)
    BY <1>2, <2>1 DEF Switches!Leave, Switches!Idle
  <2> QED
    BY <2>2 DEF Switches!Next
<1> QED
  BY <1>3, <1>4

\* The first Get fails, or is the moment of a call that finds nothing to do.
LEMMA GetFirstSwitch ==
  ASSUME TypeOK, NEW h \in Handler, GetFirst(h)
  PROVE  Switches!Next \/ UNCHANGED <<Positions, Calls>>
<1>. PICK req : req = call[h].req
  OBVIOUS
<1>. PICK read : read = cronJobs[req.name]
  OBVIOUS
<1>1. /\ call[h].at = "asked" /\ req.tool \in suspendTools
      /\ req \in Requests /\ req.name \in CronJobName
      /\ read \in CronJob \cup {None} /\ UNCHANGED cronJobs
  BY CallFields, RequestFields DEF GetFirst, TypeOK
<1>2. Positions' = Positions /\ Positions[req.name] = PositionOf(read)
  BY <1>1 DEF Positions, PositionOf, Suspended
<1>3. Calls[h] = [at |-> "asked", switch |-> req.name, want |-> WantedPosition(req)]
  BY <1>1 DEF Calls, SwitchCall
<1>4. CASE Fails(h)
  BY <1>1, <1>4, FailsFails
<1>5. CASE read # None /\ AlreadyThere(req, read) /\ Answers(h, Suspended(read))
  <2>1. PositionOf(read) = WantedPosition(req)
    BY <1>5 DEF PositionOf, WantedPosition, AlreadyThere
  <2>. PICK c : c = [at |-> "answered", req |-> req, suspend |-> Suspended(read)]
    OBVIOUS
  <2>2. /\ SwitchCall(c) = [at |-> "succeeded", reported |-> WantedPosition(req)]
        /\ call' = [call EXCEPT ![h] = c]
    BY <1>1, <1>5, <2>1 DEF SwitchCall, Answers, PositionOf
  <2>3. Calls' = [Calls EXCEPT ![h] = [at |-> "succeeded",
                                       reported |-> WantedPosition(req)]]
    BY <2>2, OneCall DEF SwitchCall
  <2>4. /\ Calls[h].at = "asked" /\ Calls[h].switch = req.name
        /\ Calls[h].want = WantedPosition(req)
    BY <1>3
  <2>5. Switches!FindsThere(h)
    BY <1>2, <2>1, <2>3, <2>4 DEF Switches!FindsThere
  <2> QED
    BY <2>5 DEF Switches!Next
<1>6. CASE call' = [call EXCEPT ![h] = [at |-> "read", req |-> req, cronJob |-> read]]
  <2>1. Calls' = [Calls EXCEPT ![h] = Calls[h]]
    BY <1>1, <1>3, <1>6, OneCall DEF SwitchCall
  <2>2. Calls' = Calls
    BY <2>1 DEF Calls
  <2> QED
    BY <1>2, <2>2
<1> QED
  BY <1>4, <1>5, <1>6 DEF GetFirst

\* The patch is the moment of a call that has something to do.
LEMMA PatchSwitch ==
  ASSUME TypeOK, NEW h \in Handler, Patch(h)
  PROVE  Switches!Next \/ UNCHANGED <<Positions, Calls>>
<1>. PICK req : req = call[h].req
  OBVIOUS
<1>. PICK stored : stored = cronJobs[req.name]
  OBVIOUS
<1>1. /\ call[h].at = "read" /\ req.tool \in suspendTools
      /\ req \in Requests /\ req.name \in CronJobName
      /\ stored \in CronJob \cup {None}
  BY CallFields, RequestFields DEF Patch, TypeOK
<1>2. Calls[h] = [at |-> "asked", switch |-> req.name, want |-> WantedPosition(req)]
  BY <1>1 DEF Calls, SwitchCall
<1>3. CASE stored = None /\ Fails(h) /\ UNCHANGED cronJobs
  BY <1>1, <1>3, FailsFails
<1>4. CASE /\ stored # None
           /\ cronJobs' = [cronJobs EXCEPT
                             ![req.name] = Patched(stored, req, call[h].cronJob)]
           /\ \/ call' = [call EXCEPT ![h] = [at |-> "patched", req |-> req]]
              \/ Fails(h)
  <2>. PICK patched : patched = Patched(stored, req, call[h].cronJob)
    OBVIOUS
  <2>1. patched \in CronJob /\ patched.suspend = Wants(req) /\ Wants(req) \in BOOLEAN
    BY <1>1, <1>4 DEF Patched, CronJob, Wants
  <2>2. PositionOf(patched) = WantedPosition(req)
    BY <2>1, NoneAssumption DEF PositionOf, WantedPosition, Suspended
  <2>3. \A c \in CronJobName :
          cronJobs'[c] = IF c = req.name THEN patched ELSE cronJobs[c]
    BY <1>1, <1>4 DEF TypeOK
  <2>4. Positions = [c \in CronJobName |-> PositionOf(cronJobs[c])]
    BY DEF Positions
  <2>5. Positions' = [c \in CronJobName |-> PositionOf(cronJobs'[c])]
    BY DEF Positions, PositionOf, Suspended
  <2>6. Positions' = [Positions EXCEPT ![req.name] = WantedPosition(req)]
    BY <2>2, <2>3, <2>4, <2>5
  <2>7. Positions[req.name] # "absent"
    BY <1>1, <1>4, <2>4 DEF PositionOf
  <2>8. Switches!Puts(h)
    BY <1>2, <2>6, <2>7 DEF Switches!Puts
  <2>9. CASE call' = [call EXCEPT ![h] = [at |-> "patched", req |-> req]]
    <3>1. Calls' = [Calls EXCEPT ![h] = [at |-> "turned", switch |-> req.name,
                                         want |-> WantedPosition(req)]]
      BY <1>1, <2>9, OneCall DEF SwitchCall
    <3>2. [Calls[h] EXCEPT !.at = "turned"]
            = [at |-> "turned", switch |-> req.name, want |-> WantedPosition(req)]
      BY <1>2
    <3>3. Calls' = [Calls EXCEPT ![h] = [Calls[h] EXCEPT !.at = "turned"]]
      BY <3>1, <3>2
    <3>4. Switches!Turn(h)
      BY <1>2, <2>8, <3>3 DEF Switches!Turn
    <3> QED
      BY <3>4 DEF Switches!Next
  <2>10. CASE Fails(h)
    <3>1. Calls' = [Calls EXCEPT ![h] = [at |-> "failed"]]
      BY <1>1, <2>10, OneCall DEF Fails, SwitchCall
    <3>2. Switches!Fail(h)
      BY <1>2, <2>8, <3>1 DEF Switches!Fail
    <3> QED
      BY <3>2 DEF Switches!Next
  <2> QED
    BY <1>4, <2>9, <2>10
<1> QED
  BY <1>3, <1>4 DEF Patch

\* The second Get reports the switch as it is by then.
LEMMA GetAgainSwitch ==
  ASSUME TypeOK, NEW h \in Handler, GetAgain(h)
  PROVE  Switches!Next \/ UNCHANGED <<Positions, Calls>>
<1>. PICK req : req = call[h].req
  OBVIOUS
<1>. PICK stored : stored = cronJobs[req.name]
  OBVIOUS
<1>1. /\ call[h].at = "patched" /\ req.tool \in suspendTools
      /\ req \in Requests /\ req.name \in CronJobName /\ UNCHANGED cronJobs
  BY CallFields, RequestFields DEF GetAgain, TypeOK
<1>2. CASE Fails(h)
  BY <1>1, <1>2, FailsFails
<1>3. CASE stored # None /\ Answers(h, Suspended(stored))
  <2>1. Positions' = Positions /\ Positions[req.name] = PositionOf(stored)
    BY <1>1 DEF Positions, PositionOf, Suspended
  <2>2. PositionOf(stored) = IF Suspended(stored) THEN "suspended" ELSE "running"
    BY <1>3 DEF PositionOf
  <2>3. Calls[h] = [at |-> "turned", switch |-> req.name, want |-> WantedPosition(req)]
    BY <1>1 DEF Calls, SwitchCall
  <2>4. Calls' = [Calls EXCEPT ![h] = [at |-> "succeeded", reported |-> PositionOf(stored)]]
    BY <1>1, <1>3, <2>2, OneCall DEF Answers, SwitchCall
  <2>5. Calls[h].at = "turned" /\ Calls[h].switch = req.name
    BY <2>3
  <2>6. PositionOf(stored) # "absent"
    BY <2>2
  <2>7. Switches!Report(h)
    BY <2>1, <2>4, <2>5, <2>6 DEF Switches!Report
  <2> QED
    BY <2>7 DEF Switches!Next
<1> QED
  BY <1>2, <1>3 DEF GetAgain

\* The tools of Jobs and pods leave the switch alone.
LEMMA OtherToolsSwitch ==
  ASSUME TypeOK, NEW h \in Handler,
         GetCronJob(h) \/ Create(h) \/ Delete(h) \/ DeletePod(h)
  PROVE  UNCHANGED <<Positions, Calls>>
<1>1. Positions' = Positions
  BY DEF GetCronJob, Create, Delete, DeletePod, Positions, PositionOf, Suspended
<1>2. call[h].req.tool \notin suspendTools
  BY DEF GetCronJob, Create, Delete, DeletePod, suspendTools
<1>3. PICK c : call' = [call EXCEPT ![h] = c] /\ c.req = call[h].req
  <2>1. Fails(h) => \E c : call' = [call EXCEPT ![h] = c] /\ c.req = call[h].req
    BY DEF Fails
  <2>2. Answers(h, None) => \E c : call' = [call EXCEPT ![h] = c] /\ c.req = call[h].req
    BY DEF Answers
  <2>3. CASE GetCronJob(h)
    BY <2>1, <2>3 DEF GetCronJob
  <2> QED
    BY <2>1, <2>2, <2>3 DEF Create, Delete, DeletePod
<1> QED
  BY <1>1, <1>2, <1>3, Unseen

\* What anyone else does to a CronJob turns, adds or removes its switch.
LEMMA WriteSwitch ==
  ASSUME TypeOK, WriteCronJob
  PROVE  Switches!Next
<1>1. PICK c \in CronJobName, cronJob \in CronJob \cup {None} :
           cronJobs' = [cronJobs EXCEPT ![c] = cronJob]
  BY DEF WriteCronJob
<1>2. \A d \in CronJobName : cronJobs'[d] = IF d = c THEN cronJob ELSE cronJobs[d]
  BY <1>1 DEF TypeOK
<1>3. /\ Positions = [d \in CronJobName |-> PositionOf(cronJobs[d])]
      /\ Positions' = [d \in CronJobName |-> PositionOf(cronJobs'[d])]
  BY DEF Positions, PositionOf, Suspended
<1>4. Positions' = [Positions EXCEPT ![c] = PositionOf(cronJob)]
  BY <1>2, <1>3
<1>5. PositionOf(cronJob) \in Switches!Position \cup {"absent"}
  BY DEF PositionOf, Switches!Position
<1>6. Calls' = Calls
  BY DEF WriteCronJob, Calls, SwitchCall, WantedPosition, Wants
<1>7. Switches!Others
  BY <1>1, <1>4, <1>5, <1>6 DEF Switches!Others
<1> QED
  BY <1>7 DEF Switches!Next

\* Suspend and resume are the atomic switch of SuspendSwitch, whoever else turns,
\* edits, removes or makes the CronJob between a handler's Get, patch and Get.
THEOREM SwitchRefinement == Spec => ImplementsSwitch
<1>1. Init => Switches!Init
  <2> SUFFICES ASSUME Init PROVE Switches!Init
    OBVIOUS
  <2>1. Positions \in [CronJobName -> Switches!Position \cup {"absent"}]
    BY DEF Init, Positions, PositionOf, Switches!Position
  <2>2. Calls = [h \in Handler |-> [at |-> "idle"]]
    BY DEF Init, Calls, SwitchCall, Idle
  <2> QED
    BY <2>1, <2>2 DEF Switches!Init, Switches!Idle
<1>2. TypeOK /\ [Next]_vars => [Switches!Next]_<<Positions, Calls>>
  <2> SUFFICES ASSUME TypeOK, [Next]_vars
               PROVE  Switches!Next \/ UNCHANGED <<Positions, Calls>>
    OBVIOUS
  <2>1. ASSUME NEW h \in Handler, RequestFails(h)
        PROVE  Switches!Next \/ UNCHANGED <<Positions, Calls>>
    BY <2>1, FailsFails DEF RequestFails
  <2>2. CASE UNCHANGED <<cronJobs, call>>
    BY <2>2 DEF Positions, PositionOf, Suspended, Calls, SwitchCall, WantedPosition,
               Wants
  <2>3. CASE WriteJob \/ WritePods \/ UNCHANGED vars
    BY <2>2, <2>3 DEF WriteJob, WritePods, vars
  <2> QED
    BY <2>1, <2>3, AskSwitch, GetFirstSwitch, PatchSwitch, GetAgainSwitch,
       OtherToolsSwitch, WriteSwitch DEF Next, Serve
<1> QED
  BY <1>1, <1>2, TypeCorrect, PTL DEF Spec, ImplementsSwitch, Switches!Spec

=============================================================================
