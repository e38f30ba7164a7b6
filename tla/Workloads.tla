----------------------------- MODULE Workloads -----------------------------
(***************************************************************************)
(* The tools that write Deployments, StatefulSets and DaemonSets:          *)
(* workloads_restart and workloads_scale (internal/tools), with the helpers*)
(* of workloads.go that find the workloads they act on.                    *)
(*                                                                         *)
(* A handler makes one API request after another, in the order of the code,*)
(* while other handlers and other clients create, remove, relabel, roll    *)
(* back and scale the same workloads and while time passes.  Each request  *)
(* is executed atomically; a handler may get an error instead of the answer*)
(* before or after that.  Names stand for names within one namespace, and  *)
(* there is one label selector.                                            *)
(***************************************************************************)
EXTENDS Integers, Sequences, SequencesExt

CONSTANTS
  Name,        \* names of workloads
  Handler,     \* goroutines, one for each call: bounds the calls
  Requests,    \* the calls that arrive
  Existing,    \* the workloads that may exist at the start
  Second,      \* ticks of the clock in a second
  Bits,        \* width of a replica count: 32 in the code
  MaxTime,     \* bound: the clock stops there
  MaxWrites,   \* bound: writes of other clients
  None         \* an absent object or parameter

Kind == {"deployment", "statefulset", "daemonset"}
scalable == {"deployment", "statefulset"}
probeOrder == <<"deployment", "statefulset", "daemonset">>

\* Without a name the workloads are those the label selector matches.
Request ==
  [tool : {"workloads_restart"}, name : Name \cup {None},
   kind : Kind \cup {"other", None}]
  \cup [tool : {"workloads_scale"}, name : Name, kind : Kind \cup {"other", None},
        replicas : Int]

Id == [kind : Kind, name : Name]

ASSUME ConstantsAssumption ==
  /\ Requests \subseteq Request
  /\ Existing \subseteq SUBSET Id
  /\ {Second, Bits, MaxTime, MaxWrites} \subseteq Nat
  /\ Second > 0 /\ Bits > 2
  /\ IsFiniteSet(Name)

MaxInt == 2^(Bits - 1) - 1

\* True of every width: the provers know nothing of powers.
ASSUME WidthAssumption == MaxInt \in Nat /\ MaxInt >= 2 /\ 2^Bits = 2 * (MaxInt + 1)

\* stamp is the restartedAt annotation of the pod template; started is when its
\* present pod template was set, so that all its pods are as young as that.
Workload == [matches : BOOLEAN, stamp : Nat \cup {None}, started : Nat,
             replicas : 0..MaxInt]

ASSUME NoneAssumption == None \notin Name \cup Kind \cup Nat \cup Workload \cup Handler

\* Ghosts: what was going on around a call.
\*   since      when it was asked
\*   steady     the workloads it is about that were so at all times since then
\*   disturbed  someone else wrote the workload since the call scaled it
Watch == [since : Nat, steady : SUBSET Id, disturbed : BOOLEAN]

\* The calls that get as far as the API server.
Restarts == {req \in Requests : req.tool = "workloads_restart" /\ req.kind # "other"}
Scales == {req \in Requests : req.tool = "workloads_scale" /\ req.kind \in scalable}

\* A goroutine serves one call.
Idle == [at |-> "idle"]
Failed == [at |-> "failed"]
Call ==
  {Idle, Failed}
  \cup [at : {"asked"}, req : Requests, watch : Watch]
  \cup [at : {"looking"}, req : Restarts, watch : Watch,
        left : Seq(Kind), found : Seq(Id)]
  \cup [at : {"restarting"}, req : Restarts, watch : Watch,
        left : Seq(Id), done : Seq(Id), stamp : Nat \cup {None}]
  \cup [at : {"restarted"}, req : Restarts, watch : Watch, done : Seq(Id)]
  \cup [at : {"scaled"}, req : Scales, watch : Watch]
  \cup [at : {"reported"}, req : Scales, watch : Watch, replicas : 0..MaxInt]

VARIABLES workloads, call, now, writes

vars == <<workloads, call, now, writes>>

New(matches) == [matches |-> matches, stamp |-> None, started |-> now, replicas |-> 1]

Init ==
  /\ now = 0 /\ writes = 0
  /\ \E E \in Existing :
       workloads = [w \in Id |-> IF w \in E THEN New(TRUE) ELSE None]
  /\ call = [h \in Handler |-> Idle]

-----------------------------------------------------------------------------
(* Steps of a handler, and the ghosts.                                     *)

\* The workloads a restart is about, by its parameters.
About(req, ws) ==
  {w \in Id : /\ ws[w] # None
              /\ req.kind \in {None, w.kind}
              /\ IF req.name = None THEN ws[w].matches ELSE w.name = req.name}

Scaled(req) == [kind |-> req.kind, name |-> req.name]

\* The call c once someone else has written workload w, so that they are ws.
Watching(c, w, ws) ==
  IF c \in {Idle, Failed} THEN c
  ELSE [c EXCEPT !.watch.steady = @ \cap About(c.req, ws),
                 !.watch.disturbed =
                    @ \/ (c.at \in {"scaled", "reported"} /\ w = Scaled(c.req))]

\* Handler h's call goes on as c, no workload written.
Goes(h, c) ==
  /\ call' = [call EXCEPT ![h] = c]
  /\ UNCHANGED workloads

\* Workload w is written by handler h, whose call goes on as c, or by None of them.
Writes(w, o, h, c) ==
  LET ws == [workloads EXCEPT ![w] = o]
  IN  /\ workloads' = ws
      /\ call' = [g \in Handler |-> IF g = h THEN c ELSE Watching(call[g], w, ws)]

Ask(h) ==
  /\ call[h].at = "idle"
  /\ \E req \in Requests :
       Goes(h, [at |-> "asked", req |-> req,
                watch |-> [since |-> now, steady |-> About(req, workloads),
                           disturbed |-> FALSE]])
  /\ UNCHANGED <<now, writes>>

\* The handler resolves the cluster or waits for an answer of the API server.
Requesting(c) ==
  \/ c.at \in {"asked", "scaled"}
  \/ c.at = "looking" /\ c.left # <<>>
  \/ c.at = "restarting" /\ IF c.left = <<>> THEN c.req.name # None ELSE c.stamp # None

\* A request fails without being executed, and the handler returns the error.
RequestFails(h) ==
  /\ Requesting(call[h])
  /\ Goes(h, Failed)
  /\ UNCHANGED <<now, writes>>

-----------------------------------------------------------------------------
(* workloads_restart.                                                      *)

\* The kinds that resolveWorkloadKind, listWorkloadsByKind or listAllWorkloads ask
\* the API server about, in their order.
KindsToAsk(req) ==
  IF req.kind = None THEN probeOrder
  ELSE IF req.name = None THEN <<req.kind>> ELSE <<>>

StartRestart(h) ==
  LET req == call[h].req
  IN  /\ call[h].at = "asked" /\ req.tool = "workloads_restart"
      /\ Goes(h, IF req.kind = "other"
                   THEN Failed
                   ELSE [at |-> "looking", req |-> req, watch |-> call[h].watch,
                         left |-> KindsToAsk(req), found |-> <<>>])
      /\ UNCHANGED <<now, writes>>

\* A Get of the name, or a List with the selector; a Get that finds nothing is no
\* error here.
Look(h) ==
  LET c == call[h]
      seen == {w \in About(c.req, workloads) : w.kind = Head(c.left)}
  IN  /\ c.at = "looking" /\ c.left # <<>>
      /\ Goes(h, [c EXCEPT !.left = Tail(@), !.found = @ \o SetToSeq(seen)])
      /\ UNCHANGED <<now, writes>>

\* Mutant: the first kind found is taken.
FirstMatch(req, found) ==
  IF req.name # None /\ req.kind # None THEN <<Scaled(req)>>
  ELSE IF req.name # None /\ found # <<>> THEN <<Head(found)>> ELSE found

\* The workloads to restart; none if there are none, or the name is ambiguous.
ToRestart(req, found) ==
  IF req.name # None /\ req.kind # None THEN <<Scaled(req)>>
  ELSE IF req.name # None /\ Len(found) > 1 THEN <<>> ELSE found

Resolve(h) ==
  LET c == call[h]
      queue == ToRestart(c.req, c.found)
  IN  /\ c.at = "looking" /\ c.left = <<>>
      /\ Goes(h, IF queue = <<>>
                   THEN Failed
                   ELSE [at |-> "restarting", req |-> c.req, watch |-> c.watch,
                         left |-> queue, done |-> <<>>, stamp |-> None])
      /\ UNCHANGED <<now, writes>>

\* Mutant: the time in minutes.
InMinutes(t) == t \div (60 * Second)

\* time.Now().Format(time.RFC3339) has no fractions of a second.
RFC3339(t) == t \div Second

\* restartWorkload puts the patch together ...
MakePatch(h) ==
  /\ call[h].at = "restarting" /\ call[h].left # <<>> /\ call[h].stamp = None
  /\ Goes(h, [call[h] EXCEPT !.stamp = RFC3339(now)])
  /\ UNCHANGED <<now, writes>>

\* A template that does not change starts no pods.
Stamped(o, stamp) ==
  IF o.stamp = stamp THEN o ELSE [o EXCEPT !.stamp = stamp, !.started = now]

\* ... and sends it.  The first error ends the call.
SendPatch(h) ==
  LET c == call[h]
      w == Head(c.left)
      next == [c EXCEPT !.left = Tail(@), !.done = Append(@, w), !.stamp = None]
  IN  /\ c.at = "restarting" /\ c.left # <<>> /\ c.stamp # None
      /\ \/ workloads[w] = None /\ Goes(h, Failed)
         \/ /\ workloads[w] # None
            /\ \E answer \in {next, Failed} :
                 Writes(w, Stamped(workloads[w], c.stamp), h, answer)
      /\ UNCHANGED <<now, writes>>

\* By name the workload is read once more, by selector the list is answered.
FinishRestart(h) ==
  LET c == call[h]
      gone == c.req.name # None /\ workloads[c.done[1]] = None
  IN  /\ c.at = "restarting" /\ c.left = <<>>
      /\ Goes(h, IF gone THEN Failed
                 ELSE [at |-> "restarted", req |-> c.req, watch |-> c.watch,
                       done |-> c.done])
      /\ UNCHANGED <<now, writes>>

-----------------------------------------------------------------------------
(* workloads_scale.                                                        *)

\* Mutant of Int32: a conversion to fewer bits.
Uint16(n) == n % 2^(Bits \div 2)

\* The conversion of an int to an int32.
Int32(n) == ((n + MaxInt + 1) % 2^Bits) - (MaxInt + 1)

\* The API server refuses a negative replica count.
UpdateScale(h) ==
  LET c == call[h]
      w == Scaled(c.req)
      n == Int32(c.req.replicas)
      refused == \/ c.req.replicas < 0 \/ c.req.kind \notin scalable
                 \/ workloads[w] = None \/ n < 0
  IN  /\ c.at = "asked" /\ c.req.tool = "workloads_scale"
      /\ \/ refused /\ Goes(h, Failed)
         \/ /\ ~refused
            /\ \E answer \in {[c EXCEPT !.at = "scaled"], Failed} :
                 Writes(w, [workloads[w] EXCEPT !.replicas = n], h, answer)
      /\ UNCHANGED <<now, writes>>

GetScaled(h) ==
  LET c == call[h]
      w == Scaled(c.req)
  IN  /\ c.at = "scaled"
      /\ Goes(h, IF workloads[w] = None THEN Failed
                 ELSE [at |-> "reported", req |-> c.req, watch |-> c.watch,
                       replicas |-> workloads[w].replicas])
      /\ UNCHANGED <<now, writes>>

-----------------------------------------------------------------------------
(* Other clients, and time.                                                *)

\* What another client makes of a workload: it creates or removes it, changes its
\* labels or replicas, or undoes the rollout of a restart.
Rewritten(w, o) ==
  IF o = None THEN {New(matches) : matches \in BOOLEAN}
  ELSE {None, [o EXCEPT !.matches = ~@]}
       \cup {[o EXCEPT !.replicas = 2] : k \in {w.kind} \cap scalable}
       \cup {[o EXCEPT !.stamp = None, !.started = now] : s \in {o.stamp} \ {None}}

Others ==
  /\ writes < MaxWrites
  /\ writes' = writes + 1
  /\ \E w \in Id : \E o \in Rewritten(w, workloads[w]) : Writes(w, o, None, None)
  /\ UNCHANGED now

Tick == /\ now < MaxTime
        /\ now' = now + 1
        /\ UNCHANGED <<workloads, call, writes>>

-----------------------------------------------------------------------------
Restart(h) == \/ StartRestart(h) \/ Look(h) \/ Resolve(h)
              \/ MakePatch(h) \/ SendPatch(h) \/ FinishRestart(h)
Scale(h) == UpdateScale(h) \/ GetScaled(h)

Next == \/ \E h \in Handler : Ask(h) \/ RequestFails(h) \/ Restart(h) \/ Scale(h)
        \/ Others \/ Tick

Spec == Init /\ [][Next]_vars

-----------------------------------------------------------------------------
(* Properties.                                                             *)

\* Workloads and calls have the shapes above.
TypeOK ==
  /\ workloads \in [Id -> Workload \cup {None}]
  /\ call \in [Handler -> Call]
  /\ now \in 0..MaxTime /\ writes \in 0..MaxWrites

\* A restart with a name and no kind acts on nothing while another kind of that
\* name exists: whatever is created, removed or refused meanwhile, a kind that was
\* there all the time is the one restarted (resolveWorkloadKind).
NoAmbiguousRestart ==
  \A h \in Handler :
    call[h].at \in {"restarting", "restarted"}
    /\ call[h].req.name # None /\ call[h].req.kind = None
    => LET acted == IF call[h].at = "restarted" THEN call[h].done
                    ELSE call[h].done \o call[h].left
       IN  \A w \in call[h].watch.steady : \A i \in DOMAIN acted : acted[i] = w

\* A restart that succeeds is complete and real: every workload that its selector
\* matched all the time, and every workload it lists, runs only pods that were
\* started since the second in which it was asked, although its time stamps have
\* no fractions and other restarts write older ones.
RestartedSinceAsked ==
  \A h \in Handler :
    call[h].at = "restarted" =>
      \A w \in call[h].watch.steady \cup ToSet(call[h].done) :
        workloads[w] # None =>
          workloads[w].started \div Second >= call[h].watch.since \div Second

\* A scale that succeeds reports the number of replicas it was asked for, if an
\* int32 has room for it and nobody else wrote the workload since.
ScaleReportsItsEffect ==
  \A h \in Handler :
    call[h].at = "reported" /\ call[h].req.replicas <= MaxInt
    => call[h].watch.disturbed \/ call[h].replicas = call[h].req.replicas

=============================================================================
