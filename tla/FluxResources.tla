--------------------------- MODULE FluxResources ---------------------------
(***************************************************************************)
(* flux_reconcile and flux_reconciliation (internal/tools/fluxcd), while   *)
(* Flux's controllers reconcile the same objects and other clients edit,   *)
(* suspend and remove them.                                                *)
(*                                                                         *)
(* A handler reads an object, changes its copy and sends all of it back in *)
(* an Update, which the API server refuses if the object was written since *)
(* the copy was read.  Of resourceVersions the model keeps just that:      *)
(* fresh says whether the copy's is still the stored one.  A handler may   *)
(* get an error instead of the answer, before or after a request is done.  *)
(***************************************************************************)
EXTENDS Naturals

CONSTANTS
  Namespace, Name,
  Spec,       \* desired state of an object, but for spec.suspend
  SourceRef,  \* the source each Spec refers to, None if it names none
  Handler,    \* goroutines, one for each call: bounds the calls
  Requests,   \* the calls that arrive
  Initial,    \* the Spec of each object at the start, None if there is none
  MaxTime,    \* bound: the clock, in seconds, stops there
  MaxWrites,  \* bound: writes of other clients
  None        \* an absent object or field

sources == {"GitRepository", "OCIRepository"}
appliers == {"HelmRelease", "Kustomization"}

Id == [kind : sources \cup appliers, namespace : Namespace, name : Name]
Ref == [kind : sources \cup {"HelmRepository"},
        namespace : Namespace \cup {None}, name : Name]

\* A kind that the tools do not know is "other".
Request ==
  [tool : {"flux_reconcile"}, kind : sources \cup appliers \cup {"other"},
   namespace : Namespace, name : Name, with_source : BOOLEAN]
  \cup [tool : {"flux_reconciliation"}, kind : sources \cup appliers \cup {"other"},
        namespace : Namespace, name : Name, action : {"suspend", "resume"}]

ASSUME ConstantsAssumption ==
  /\ SourceRef \in [Spec -> Ref \cup {None}]
  /\ Requests \subseteq Request
  /\ Initial \in [Id -> Spec \cup {None}]
  /\ {MaxTime, MaxWrites} \subseteq Nat

\* requestedAt is the annotation, handled is status.lastHandledReconcileAt, and
\* reconciled is when the last requested reconciliation began: a ghost.
Object == [spec : Spec, suspend : BOOLEAN, requestedAt : Nat \cup {None},
           handled : Nat \cup {None}, reconciled : Nat \cup {None}]

ASSUME NoneAssumption ==
  None \notin Nat \cup Spec \cup Ref \cup Namespace \cup Object \cup Handler

\* since is when the call was asked, pending whether its Update left its object
\* with a request that is not handled: ghosts.
Idle == [at |-> "idle"]
Failed == [at |-> "failed"]
Call ==
  {Idle, Failed}
  \cup [at : {"asked"}, req : Requests, since : Nat]
  \cup [at : {"read"}, req : Requests, since : Nat,
        id : Id, copy : Object, fresh : BOOLEAN]
  \cup [at : {"source"}, req : Requests, since : Nat, pending : BOOLEAN,
        spec : Spec, stamp : 0..MaxTime]
  \cup [at : {"sourceRead"}, req : Requests, since : Nat, pending : BOOLEAN,
        spec : Spec, id : Id, copy : Object, fresh : BOOLEAN]
  \cup [at : {"answered"}, req : Requests, since : Nat, pending : BOOLEAN,
        spec : Spec, sourceReconciled : BOOLEAN]

VARIABLES objects, call, now, writes

vars == <<objects, call, now, writes>>

Init ==
  /\ objects = [i \in Id |->
                  IF Initial[i] = None THEN None
                  ELSE [spec |-> Initial[i], suspend |-> FALSE, requestedAt |-> None,
                        handled |-> None, reconciled |-> None]]
  /\ call = [h \in Handler |-> Idle]
  /\ now = 0 /\ writes = 0

-----------------------------------------------------------------------------
(* Steps.                                                                  *)

Goes(h, c) == /\ call' = [call EXCEPT ![h] = c]
              /\ UNCHANGED <<objects, now, writes>>

\* Others' copies of an object that is written are no longer fresh.  An Update
\* that changes nothing is no write.
Watching(c, i, o) ==
  IF c.at \in {"read", "sourceRead"} /\ c.id = i /\ o # objects[i]
    THEN [c EXCEPT !.fresh = FALSE] ELSE c

\* Object i becomes o, by handler h, whose call goes on as c, or by None of them.
Writes(i, o, h, c) ==
  /\ objects' = [objects EXCEPT ![i] = o]
  /\ call' = [g \in Handler |-> IF g = h THEN c ELSE Watching(call[g], i, o)]

Ask(h) ==
  /\ call[h].at = "idle"
  /\ \E req \in Requests :
       Goes(h, [at |-> "asked", req |-> req, since |-> now])

\* A request fails without being executed, and with it the call.
RequestFails(h) ==
  /\ call[h].at \in {"asked", "read"}
  /\ Goes(h, Failed)

\* Mutant: the time in minutes.
InMinutes(t) == t \div 60

\* time.Now().UTC().Format(time.RFC3339): whole seconds.
requestedAtTimestamp(t) == t

\* The kinds that Reconcile and setSuspended accept.
Accepts(req) ==
  req.kind \in IF req.tool = "flux_reconcile"
                 THEN {"GitRepository"} \cup appliers ELSE appliers

Named(req) == [kind |-> req.kind, namespace |-> req.namespace, name |-> req.name]

\* What the handler makes of the copy it has read.
Changed(req, copy) ==
  IF req.tool = "flux_reconcile"
    THEN [copy EXCEPT !.requestedAt = requestedAtTimestamp(now)]
    ELSE [copy EXCEPT !.suspend = (req.action = "suspend")]

Get(h) ==
  LET c == call[h]
      found == Accepts(c.req) /\ objects[Named(c.req)] # None
  IN  /\ c.at = "asked"
      /\ Goes(h, IF ~found THEN Failed
                 ELSE [at |-> "read", req |-> c.req, since |-> c.since,
                       id |-> Named(c.req), fresh |-> TRUE,
                       copy |-> Changed(c.req, objects[Named(c.req)])])

WithSource(req) ==
  req.tool = "flux_reconcile" /\ req.kind \in appliers /\ req.with_source

\* Mutant: the last write wins.
Always(c) == objects[c.id] # None

\* Optimistic concurrency: the object is there and as it was read.
UpdateAccepted(c) == objects[c.id] # None /\ c.fresh

Answer(c, pending, spec, sourceReconciled) ==
  [at |-> "answered", req |-> c.req, since |-> c.since, pending |-> pending,
   spec |-> spec, sourceReconciled |-> sourceReconciled]

Update(h) ==
  LET c == call[h]
      pending == c.copy.requestedAt # c.copy.handled
      next == IF WithSource(c.req)
                THEN [at |-> "source", req |-> c.req, since |-> c.since,
                      pending |-> pending, spec |-> c.copy.spec,
                      stamp |-> requestedAtTimestamp(now)]
                ELSE Answer(c, pending, c.copy.spec, FALSE)
  IN  /\ c.at = "read"
      /\ \/ ~UpdateAccepted(c) /\ Goes(h, Failed)
         \/ /\ UpdateAccepted(c)
            /\ \E answer \in {next, Failed} : Writes(c.id, c.copy, h, answer)
            /\ UNCHANGED <<now, writes>>

-----------------------------------------------------------------------------
(* reconcileSourceRef: whatever fails here, the call itself succeeds.      *)

\* Mutant: the source is looked for beside the object.
Beside(req, ref) ==
  [kind |-> ref.kind, namespace |-> req.namespace, name |-> ref.name]

\* The source, in the object's namespace if the reference names none.
SourceOf(req, ref) ==
  [kind |-> ref.kind, name |-> ref.name,
   namespace |-> IF ref.namespace = None THEN req.namespace ELSE ref.namespace]

GetSource(h) ==
  LET c == call[h]
      ref == SourceRef[c.spec]
      found == /\ ref # None /\ ref.kind \in sources
               /\ objects[SourceOf(c.req, ref)] # None
  IN  /\ c.at = "source"
      /\ \/ Goes(h, Answer(c, c.pending, c.spec, FALSE))
         \/ /\ found
            /\ Goes(h, [at |-> "sourceRead", req |-> c.req, since |-> c.since,
                        pending |-> c.pending, spec |-> c.spec, fresh |-> TRUE,
                        id |-> SourceOf(c.req, ref),
                        copy |-> [objects[SourceOf(c.req, ref)]
                                    EXCEPT !.requestedAt = c.stamp]])

UpdateSource(h) ==
  LET c == call[h]
  IN  /\ c.at = "sourceRead"
      /\ \/ Goes(h, Answer(c, c.pending, c.spec, FALSE))
         \/ /\ UpdateAccepted(c)
            /\ \E sourceReconciled \in BOOLEAN :
                 Writes(c.id, c.copy, h, Answer(c, c.pending, c.spec, sourceReconciled))
            /\ UNCHANGED <<now, writes>>

-----------------------------------------------------------------------------
(* Flux, other clients, and time.                                          *)

\* The controller reconciles an object on a request it has not handled, unless the
\* object is suspended.
Handle(i) ==
  /\ objects[i] # None
  /\ ~objects[i].suspend
  /\ objects[i].requestedAt # objects[i].handled
  /\ Writes(i, [objects[i] EXCEPT !.handled = objects[i].requestedAt,
                                  !.reconciled = now], None, None)
  /\ UNCHANGED <<now, writes>>

Others ==
  /\ writes < MaxWrites
  /\ writes' = writes + 1
  /\ \E i \in {j \in Id : objects[j] # None} :
       \/ \E spec \in Spec \ {objects[i].spec} :
            Writes(i, [objects[i] EXCEPT !.spec = spec], None, None)
       \/ Writes(i, [objects[i] EXCEPT !.suspend = ~@], None, None)
       \/ Writes(i, None, None, None)
  /\ UNCHANGED now

Tick == now < MaxTime /\ now' = now + 1 /\ UNCHANGED <<objects, call, writes>>

-----------------------------------------------------------------------------
Serve(h) == Get(h) \/ Update(h) \/ GetSource(h) \/ UpdateSource(h)

Next == \/ \E h \in Handler : Ask(h) \/ RequestFails(h) \/ Serve(h)
        \/ \E i \in Id : Handle(i)
        \/ Others \/ Tick

Flux == Init /\ [][Next]_vars /\ \A i \in Id : WF_vars(Handle(i))

-----------------------------------------------------------------------------
(* Properties.                                                             *)

\* Objects and calls have the shapes above.
TypeOK ==
  /\ objects \in [Id -> Object \cup {None}]
  /\ call \in [Handler -> Call]
  /\ now \in 0..MaxTime /\ writes \in 0..MaxWrites

\* A handler changes the annotation or spec.suspend of an object as it is at that
\* moment, and undoes nothing that the controllers, other clients or other handlers
\* wrote since it read the object.
ForeignEditsSurvive ==
  [][\A i \in Id :
       (\E h \in Handler : Serve(h)) /\ objects'[i] # objects[i]
       => \/ \E t \in 0..MaxTime :
               objects'[i] = [objects[i] EXCEPT !.requestedAt = t]
          \/ objects'[i] = [objects[i] EXCEPT !.suspend = ~@]]_vars

\* An answer that says the source was reconciled too is true of the source that the
\* object referred to when it was annotated: that source has a request, unless it is
\* gone.
SourceReconciledIsTrue ==
  \A h \in Handler :
    call[h].at = "answered" /\ call[h].sourceReconciled =>
      LET c == call[h]
          ref == SourceRef[c.spec]
          namespace == IF ref.namespace # None THEN ref.namespace
                       ELSE c.req.namespace
          source == [kind |-> ref.kind, namespace |-> namespace, name |-> ref.name]
      IN  objects[source] = None \/ objects[source].requestedAt # None

\* A flux_reconcile that has succeeded.
Reconciled(c) == c.at = "answered" /\ c.req.tool = "flux_reconcile"

\* After a flux_reconcile of a HelmRelease or Kustomization that succeeds, Flux
\* begins a reconciliation of it in the second of the call or later, unless it is
\* suspended or gone: no request is overwritten by an older one, as the time stamp
\* is taken from the clock between the Get and an Update that nothing came before.
RequestsAreHandled ==
  \A h \in Handler :
    Reconciled(call[h]) /\ call[h].req.kind \in appliers
    ~> /\ Reconciled(call[h])
       /\ LET o == objects[Named(call[h].req)]
          IN  \/ o = None
              \/ o.suspend
              \/ o.reconciled # None /\ o.reconciled >= call[h].since

\* flux.go: Reconcile "triggers an immediate reconciliation of the named resource
\* [...] exactly like `flux reconcile`".  Its Update leaves a request that is not
\* handled yet.  Stamps of whole seconds break this.
ReconcileTriggers ==
  \A h \in Handler :
    Reconciled(call[h]) => call[h].pending

=============================================================================
