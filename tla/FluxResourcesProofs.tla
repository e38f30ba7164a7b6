------------------------- MODULE FluxResourcesProofs -------------------------
(***************************************************************************)
(* Proofs about FluxResources, for every number of objects, handlers and   *)
(* calls, and however long the clock runs and others write.                *)
(***************************************************************************)
EXTENDS FluxResources, TLAPS

-----------------------------------------------------------------------------
(* Typing.                                                                 *)

\* What a call in flight holds, by the point it has reached.
LEMMA CallFields ==
  ASSUME NEW c \in Call
  PROVE  /\ c.at \in {"asked", "read", "source", "sourceRead", "answered"}
              => c.req \in Requests /\ c.since \in Nat
         /\ c.at \in {"read", "sourceRead"}
              => c.id \in Id /\ c.copy \in Object /\ c.fresh \in BOOLEAN
         /\ c.at \in {"source", "sourceRead", "answered"}
              => c.pending \in BOOLEAN /\ c.spec \in Spec
         /\ c.at = "source" => c.stamp \in 0..MaxTime
         /\ c.at = "answered" => c.sourceReconciled \in BOOLEAN
BY DEF Call, Idle, Failed

\* An accepted request names an object, and what is made of its copy is one, too.
LEMMA RequestFields ==
  ASSUME TypeOK, NEW req \in Requests
  PROVE  /\ req.namespace \in Namespace
         /\ Accepts(req) => Named(req) \in Id
         /\ \A copy \in Object : Changed(req, copy) \in Object
<1>1. req \in Request
  BY ConstantsAssumption
<1>2. req.namespace \in Namespace /\ req.name \in Name
  BY <1>1 DEF Request
<1>3. ASSUME Accepts(req)
      PROVE  Named(req) \in Id
  BY <1>2, <1>3 DEF Accepts, Named, Id, sources, appliers
<1>4. ASSUME NEW copy \in Object
      PROVE  Changed(req, copy) \in Object
  <2>1. now \in Nat
    BY ConstantsAssumption DEF TypeOK
  <2> QED
    BY <2>1 DEF Changed, Object, requestedAtTimestamp
<1> QED
  BY <1>2, <1>3, <1>4

\* The source of an object is an object, if it is of a kind the tool reconciles.
LEMMA SourceType ==
  ASSUME NEW req \in Requests, NEW spec \in Spec,
         SourceRef[spec] # None, SourceRef[spec].kind \in sources
  PROVE  SourceOf(req, SourceRef[spec]) \in Id
<1>1. req.namespace \in Namespace
  BY ConstantsAssumption DEF Request
<1>2. SourceRef[spec] \in Ref
  BY ConstantsAssumption
<1> QED
  BY <1>1, <1>2 DEF Ref, SourceOf, Id, sources

\* A call keeps its type while others write.
LEMMA WatchingType ==
  ASSUME NEW c \in Call, NEW i, NEW o
  PROVE  Watching(c, i, o) \in Call
<1>1. CASE c.at = "read"
  <2>1. c \in [at : {"read"}, req : Requests, since : Nat,
               id : Id, copy : Object, fresh : BOOLEAN]
    BY <1>1 DEF Call, Idle, Failed
  <2> QED
    BY <2>1 DEF Watching, Call
<1>2. CASE c.at = "sourceRead"
  <2>1. c \in [at : {"sourceRead"}, req : Requests, since : Nat, pending : BOOLEAN,
               spec : Spec, id : Id, copy : Object, fresh : BOOLEAN]
    BY <1>2 DEF Call, Idle, Failed
  <2> QED
    BY <2>1 DEF Watching, Call
<1> QED
  BY <1>1, <1>2 DEF Watching

LEMMA WatchingAt ==
  ASSUME NEW c \in Call, NEW i, NEW o
  PROVE  Watching(c, i, o).at = c.at
BY DEF Watching, Call, Idle, Failed

\* A step that only moves a call, and one that writes an object, keep the types.
LEMMA GoesType ==
  ASSUME TypeOK, NEW h \in Handler, NEW c \in Call, Goes(h, c)
  PROVE  TypeOK'
BY DEF Goes, TypeOK

LEMMA WritesType ==
  ASSUME TypeOK, NEW i \in Id, NEW o \in Object \cup {None}, NEW h, NEW c,
         h \in Handler => c \in Call, Writes(i, o, h, c)
  PROVE  /\ objects' \in [Id -> Object \cup {None}]
         /\ call' \in [Handler -> Call]
<1>1. \A g \in Handler : Watching(call[g], i, o) \in Call
  BY WatchingType DEF TypeOK
<1> QED
  BY <1>1 DEF Writes, TypeOK

\* The answer of a call that has come so far.
LEMMA AnswerType ==
  ASSUME NEW c, c.req \in Requests, c.since \in Nat,
         NEW pending \in BOOLEAN, NEW spec \in Spec, NEW b \in BOOLEAN
  PROVE  Answer(c, pending, spec, b) \in Call
BY DEF Answer, Call

\* Every step keeps the types: one step per action.
LEMMA TypeOKStep == TypeOK /\ [Next]_vars => TypeOK'
<1> SUFFICES ASSUME TypeOK, [Next]_vars PROVE TypeOK'
  OBVIOUS
<1>0. /\ now \in 0..MaxTime /\ now \in Nat /\ \A g \in Handler : call[g] \in Call
      /\ Failed \in Call
  BY ConstantsAssumption DEF TypeOK, Call
<1>1. ASSUME NEW h \in Handler, Ask(h)
      PROVE  TypeOK'
  <2>1. PICK req \in Requests : Goes(h, [at |-> "asked", req |-> req, since |-> now])
    BY <1>1 DEF Ask
  <2>2. [at |-> "asked", req |-> req, since |-> now] \in Call
    BY <1>0 DEF Call
  <2> QED
    BY <2>1, <2>2, GoesType
<1>2. ASSUME NEW h \in Handler, RequestFails(h)
      PROVE  TypeOK'
  BY <1>0, <1>2, GoesType DEF RequestFails
<1>3. ASSUME NEW h \in Handler, Get(h)
      PROVE  TypeOK'
  <2>. PICK c : c = call[h]
    OBVIOUS
  <2>1. c.at = "asked" /\ c.req \in Requests /\ c.since \in Nat
    BY <1>0, <1>3, CallFields DEF Get
  <2>2. CASE Goes(h, Failed)
    BY <1>0, <2>2, GoesType
  <2>3. CASE /\ Accepts(c.req) /\ objects[Named(c.req)] # None
             /\ Goes(h, [at |-> "read", req |-> c.req, since |-> c.since,
                         id |-> Named(c.req), fresh |-> TRUE,
                         copy |-> Changed(c.req, objects[Named(c.req)])])
    <3>1. Named(c.req) \in Id
      BY <2>1, <2>3, RequestFields
    <3>2. objects[Named(c.req)] \in Object
      BY <2>3, <3>1 DEF TypeOK
    <3>3. Changed(c.req, objects[Named(c.req)]) \in Object
      BY <2>1, <3>2, RequestFields
    <3>4. [at |-> "read", req |-> c.req, since |-> c.since, id |-> Named(c.req),
           fresh |-> TRUE, copy |-> Changed(c.req, objects[Named(c.req)])] \in Call
      BY <2>1, <3>1, <3>3 DEF Call
    <3> QED
      BY <2>3, <3>4, GoesType
  <2> QED
    BY <1>3, <2>2, <2>3 DEF Get
<1>4. ASSUME NEW h \in Handler, Update(h)
      PROVE  TypeOK'
  <2>. PICK c : c = call[h]
    OBVIOUS
  <2>. PICK pending : pending = (c.copy.requestedAt # c.copy.handled)
    OBVIOUS
  <2>. PICK next : next = IF WithSource(c.req)
                THEN [at |-> "source", req |-> c.req, since |-> c.since,
                      pending |-> pending, spec |-> c.copy.spec,
                      stamp |-> requestedAtTimestamp(now)]
                ELSE Answer(c, pending, c.copy.spec, FALSE)
    OBVIOUS
  <2>1. /\ c.at = "read" /\ c.req \in Requests /\ c.since \in Nat
        /\ c.id \in Id /\ c.copy \in Object
    BY <1>0, <1>4, CallFields DEF Update
  <2>2. c.copy.spec \in Spec /\ pending \in BOOLEAN
    BY <2>1 DEF Object
  <2>3. next \in Call
    <3>1. CASE WithSource(c.req)
      BY <1>0, <2>1, <2>2, <3>1 DEF Call, requestedAtTimestamp
    <3>2. CASE ~WithSource(c.req)
      BY <2>1, <2>2, <3>2, AnswerType
    <3> QED
      BY <3>1, <3>2
  <2>4. CASE Goes(h, Failed)
    BY <1>0, <2>4, GoesType
  <2>5. ASSUME NEW answer \in {next, Failed}, Writes(c.id, c.copy, h, answer),
               UNCHANGED <<now, writes>>
        PROVE  TypeOK'
    <3>1. answer \in Call
      BY <1>0, <2>3
    <3> QED
      BY <2>1, <2>5, <3>1, WritesType DEF TypeOK
  <2> QED
    BY <1>4, <2>4, <2>5 DEF Update
<1>5. ASSUME NEW h \in Handler, GetSource(h)
      PROVE  TypeOK'
  <2>. PICK c : c = call[h]
    OBVIOUS
  <2>. PICK source : source = SourceOf(c.req, SourceRef[c.spec])
    OBVIOUS
  <2>1. /\ c.at = "source" /\ c.req \in Requests /\ c.since \in Nat
        /\ c.pending \in BOOLEAN /\ c.spec \in Spec /\ c.stamp \in Nat
    BY <1>0, <1>5, CallFields, ConstantsAssumption DEF GetSource
  <2>2. CASE Goes(h, Answer(c, c.pending, c.spec, FALSE))
    BY <2>1, <2>2, AnswerType, GoesType
  <2>3. CASE /\ SourceRef[c.spec] # None /\ SourceRef[c.spec].kind \in sources
             /\ objects[source] # None
             /\ Goes(h, [at |-> "sourceRead", req |-> c.req, since |-> c.since,
                         pending |-> c.pending, spec |-> c.spec, fresh |-> TRUE,
                         id |-> source,
                         copy |-> [objects[source] EXCEPT !.requestedAt = c.stamp]])
    <3>1. source \in Id
      BY <2>1, <2>3, SourceType
    <3>2. objects[source] \in Object
      BY <2>3, <3>1 DEF TypeOK
    <3>3. [objects[source] EXCEPT !.requestedAt = c.stamp] \in Object
      BY <2>1, <3>2 DEF Object
    <3>4. [at |-> "sourceRead", req |-> c.req, since |-> c.since,
           pending |-> c.pending, spec |-> c.spec, fresh |-> TRUE, id |-> source,
           copy |-> [objects[source] EXCEPT !.requestedAt = c.stamp]] \in Call
      BY <2>1, <3>1, <3>3 DEF Call
    <3> QED
      BY <2>3, <3>4, GoesType
  <2> QED
    BY <1>5, <2>2, <2>3 DEF GetSource
<1>6. ASSUME NEW h \in Handler, UpdateSource(h)
      PROVE  TypeOK'
  <2>. PICK c : c = call[h]
    OBVIOUS
  <2>1. /\ c.at = "sourceRead" /\ c.req \in Requests /\ c.since \in Nat
        /\ c.pending \in BOOLEAN /\ c.spec \in Spec
        /\ c.id \in Id /\ c.copy \in Object
    BY <1>0, <1>6, CallFields DEF UpdateSource
  <2>2. \A b \in BOOLEAN : Answer(c, c.pending, c.spec, b) \in Call
    BY <2>1, AnswerType
  <2>3. CASE Goes(h, Answer(c, c.pending, c.spec, FALSE))
    BY <2>2, <2>3, GoesType
  <2>4. ASSUME NEW b \in BOOLEAN,
               Writes(c.id, c.copy, h, Answer(c, c.pending, c.spec, b)),
               UNCHANGED <<now, writes>>
        PROVE  TypeOK'
    BY <2>1, <2>2, <2>4, WritesType DEF TypeOK
  <2> QED
    BY <1>6, <2>3, <2>4 DEF UpdateSource
<1>7. ASSUME NEW i \in Id, Handle(i)
      PROVE  TypeOK'
  <2>1. objects[i] \in Object
    BY <1>7 DEF Handle, TypeOK
  <2>2. [objects[i] EXCEPT !.handled = objects[i].requestedAt,
                           !.reconciled = now] \in Object
    BY <1>0, <2>1 DEF Object
  <2> QED
    BY <1>7, <2>2, NoneAssumption, WritesType DEF Handle, TypeOK
<1>8. CASE Others
  <2>1. PICK i \in Id, o \in Object \cup {None} : Writes(i, o, None, None)
    <3>1. PICK i \in Id :
            /\ objects[i] # None
            /\ \/ \E spec \in Spec : Writes(i, [objects[i] EXCEPT !.spec = spec], None, None)
               \/ Writes(i, [objects[i] EXCEPT !.suspend = ~@], None, None)
               \/ Writes(i, None, None, None)
      BY <1>8 DEF Others
    <3>2. objects[i] \in Object
      BY <3>1 DEF TypeOK
    <3>3. /\ \A spec \in Spec : [objects[i] EXCEPT !.spec = spec] \in Object
          /\ [objects[i] EXCEPT !.suspend = ~@] \in Object
      BY <3>2 DEF Object
    <3> QED
      BY <3>1, <3>3
  <2>2. now' = now /\ writes' \in 0..MaxWrites
    BY <1>8, ConstantsAssumption DEF Others, TypeOK
  <2> QED
    BY <2>1, <2>2, NoneAssumption, WritesType DEF TypeOK
<1>9. CASE Tick
  BY <1>9, ConstantsAssumption DEF Tick, TypeOK
<1>10. CASE UNCHANGED vars
  BY <1>10 DEF vars, TypeOK
<1> QED
  BY <1>1, <1>2, <1>3, <1>4, <1>5, <1>6, <1>7, <1>8, <1>9, <1>10 DEF Next, Serve

\* Objects and calls always have the declared shapes.
THEOREM TypeCorrect == Flux => []TypeOK
<1>1. Init => TypeOK
  <2> SUFFICES ASSUME Init PROVE TypeOK
    OBVIOUS
  <2>1. \A i \in Id : objects[i] \in Object \cup {None}
    <3>1. \A spec \in Spec :
            [spec |-> spec, suspend |-> FALSE, requestedAt |-> None,
             handled |-> None, reconciled |-> None] \in Object
      BY DEF Object
    <3>2. \A i \in Id : Initial[i] # None => Initial[i] \in Spec
      BY ConstantsAssumption
    <3> QED
      BY <3>1, <3>2 DEF Init
  <2> QED
    BY <2>1, ConstantsAssumption DEF Init, TypeOK, Call
<1> QED
  BY <1>1, TypeOKStep, PTL DEF Flux

-----------------------------------------------------------------------------
(* Optimistic concurrency.                                                 *)

\* The two changes that handlers make to a copy.
Edited(o, copy) ==
  \/ \E t \in 0..MaxTime : copy = [o EXCEPT !.requestedAt = t]
  \/ \E b \in BOOLEAN : copy = [o EXCEPT !.suspend = b]

\* A copy that is fresh is the stored object but for the handler's own change, and
\* the copy of a source is of the source that the call is about, with a request.
CopyOK(c, os) ==
  /\ c.at \in {"read", "sourceRead"} /\ c.fresh
       => os[c.id] \in Object /\ Edited(os[c.id], c.copy)
  /\ c.at = "sourceRead"
       => /\ c.id = SourceOf(c.req, SourceRef[c.spec])
          /\ c.copy.requestedAt # None

CopyInv == \A h \in Handler : CopyOK(call[h], objects)

\* A step that only moves a call keeps CopyInv if it holds of where the call goes.
LEMMA CopyGoes ==
  ASSUME TypeOK, CopyInv, NEW h \in Handler, NEW c, Goes(h, c), CopyOK(c, objects)
  PROVE  CopyInv'
BY DEF Goes, TypeOK, CopyInv

\* Whoever writes an object keeps it: others' copies of the object that differ from
\* it are no longer fresh.
LEMMA CopyWrites ==
  ASSUME TypeOK, CopyInv, NEW i \in Id, NEW o, NEW h, NEW c, Writes(i, o, h, c),
         h \in Handler => c.at \notin {"read", "sourceRead"}
  PROVE  CopyInv'
<1> SUFFICES ASSUME NEW g \in Handler PROVE CopyOK(call[g], objects)'
  BY DEF CopyInv
<1>. PICK d : d = call[g]
  OBVIOUS
<1>1. d \in Call /\ CopyOK(d, objects)
  BY DEF TypeOK, CopyInv
<1>2. \A j \in Id : objects'[j] = IF j = i THEN o ELSE objects[j]
  BY DEF Writes, TypeOK
<1>3. CASE g = h
  BY <1>3 DEF Writes, CopyOK
<1>4. CASE g # h /\ d.at \notin {"read", "sourceRead"}
  <2>1. call'[g] = d
    BY <1>4 DEF Writes, Watching
  <2> QED
    BY <1>4, <2>1 DEF CopyOK
<1>5. CASE g # h /\ d.at \in {"read", "sourceRead"}
  <2>1. call'[g] = Watching(d, i, o)
    BY <1>5 DEF Writes
  <2>2. d.id \in Id
    BY <1>1, <1>5, CallFields
  <2>3. CASE d.id = i /\ o # objects[i]
    <3>1. call'[g] = [d EXCEPT !.fresh = FALSE]
      BY <1>5, <2>1, <2>3 DEF Watching
    <3>2. /\ ~[d EXCEPT !.fresh = FALSE].fresh
          /\ [d EXCEPT !.fresh = FALSE].at = d.at
          /\ d.at = "sourceRead" =>
               /\ [d EXCEPT !.fresh = FALSE].id = d.id
               /\ [d EXCEPT !.fresh = FALSE].copy = d.copy
               /\ [d EXCEPT !.fresh = FALSE].req = d.req
               /\ [d EXCEPT !.fresh = FALSE].spec = d.spec
      BY <1>1, <1>5 DEF Call, Idle, Failed
    <3> QED
      BY <1>1, <3>1, <3>2 DEF CopyOK
  <2>4. CASE ~(d.id = i /\ o # objects[i])
    <3>1. call'[g] = d
      BY <2>1, <2>4 DEF Watching
    <3>2. objects'[d.id] = objects[d.id]
      BY <1>2, <2>2, <2>4
    <3> QED
      BY <1>1, <3>1, <3>2 DEF CopyOK
  <2> QED
    BY <2>3, <2>4
<1> QED
  BY <1>3, <1>4, <1>5

\* CopyInv is inductive: one step per action.
LEMMA CopyInvStep == TypeOK /\ CopyInv /\ [Next]_vars => CopyInv'
<1> SUFFICES ASSUME TypeOK, CopyInv, [Next]_vars PROVE CopyInv'
  OBVIOUS
<1>0. /\ now \in 0..MaxTime /\ \A g \in Handler : call[g] \in Call
      /\ CopyOK(Failed, objects)
  BY DEF TypeOK, CopyOK, Failed
<1>1. ASSUME NEW h \in Handler, Ask(h) \/ RequestFails(h)
      PROVE  CopyInv'
  <2>1. \A req : CopyOK([at |-> "asked", req |-> req, since |-> now], objects)
    BY DEF CopyOK
  <2> QED
    BY <1>0, <1>1, <2>1, CopyGoes DEF Ask, RequestFails
<1>2. ASSUME NEW h \in Handler, Get(h)
      PROVE  CopyInv'
  <2>. PICK c : c = call[h]
    OBVIOUS
  <2>1. CASE Goes(h, Failed)
    BY <1>0, <2>1, CopyGoes
  <2>2. CASE /\ Accepts(c.req) /\ objects[Named(c.req)] # None
             /\ Goes(h, [at |-> "read", req |-> c.req, since |-> c.since,
                         id |-> Named(c.req), fresh |-> TRUE,
                         copy |-> Changed(c.req, objects[Named(c.req)])])
    <3>1. objects[Named(c.req)] \in Object
      BY <1>0, <1>2, <2>2, CallFields, RequestFields DEF TypeOK, Get
    <3>2. Edited(objects[Named(c.req)], Changed(c.req, objects[Named(c.req)]))
      BY <1>0 DEF Edited, Changed, requestedAtTimestamp
    <3>3. CopyOK([at |-> "read", req |-> c.req, since |-> c.since,
                  id |-> Named(c.req), fresh |-> TRUE,
                  copy |-> Changed(c.req, objects[Named(c.req)])], objects)
      BY <3>1, <3>2 DEF CopyOK
    <3> QED
      BY <2>2, <3>3, CopyGoes
  <2> QED
    BY <1>2, <2>1, <2>2 DEF Get
<1>3. ASSUME NEW h \in Handler, Update(h)
      PROVE  CopyInv'
  <2>. PICK c : c = call[h]
    OBVIOUS
  <2>1. CASE Goes(h, Failed)
    BY <1>0, <2>1, CopyGoes
  <2>2. ASSUME NEW answer, answer.at \in {"source", "answered", "failed"},
               Writes(c.id, c.copy, h, answer)
        PROVE  CopyInv'
    <3>1. c.id \in Id
      BY <1>0, <1>3, CallFields DEF Update
    <3> QED
      BY <2>2, <3>1, CopyWrites
  <2> QED
    BY <1>3, <2>1, <2>2 DEF Update, Answer, Failed
<1>4. ASSUME NEW h \in Handler, GetSource(h)
      PROVE  CopyInv'
  <2>. PICK c : c = call[h]
    OBVIOUS
  <2>. PICK source : source = SourceOf(c.req, SourceRef[c.spec])
    OBVIOUS
  <2>1. c.req \in Requests /\ c.spec \in Spec /\ c.stamp \in 0..MaxTime
    BY <1>0, <1>4, CallFields DEF GetSource
  <2>2. CASE Goes(h, Answer(c, c.pending, c.spec, FALSE))
    <3>1. CopyOK(Answer(c, c.pending, c.spec, FALSE), objects)
      BY DEF CopyOK, Answer
    <3> QED
      BY <2>2, <3>1, CopyGoes
  <2>3. CASE /\ SourceRef[c.spec] # None /\ SourceRef[c.spec].kind \in sources
             /\ objects[source] # None
             /\ Goes(h, [at |-> "sourceRead", req |-> c.req, since |-> c.since,
                         pending |-> c.pending, spec |-> c.spec, fresh |-> TRUE,
                         id |-> source,
                         copy |-> [objects[source] EXCEPT !.requestedAt = c.stamp]])
    <3>1. source \in Id
      BY <2>1, <2>3, SourceType
    <3>2. objects[source] \in Object
      BY <2>3, <3>1 DEF TypeOK
    <3>3. [objects[source] EXCEPT !.requestedAt = c.stamp].requestedAt = c.stamp
      BY <3>2 DEF Object
    <3>4. c.stamp # None
      BY <2>1, ConstantsAssumption, NoneAssumption
    <3>5. CopyOK([at |-> "sourceRead", req |-> c.req, since |-> c.since,
                  pending |-> c.pending, spec |-> c.spec, fresh |-> TRUE, id |-> source,
                  copy |-> [objects[source] EXCEPT !.requestedAt = c.stamp]], objects)
      BY <2>1, <3>2, <3>3, <3>4 DEF CopyOK, Edited
    <3> QED
      BY <2>3, <3>5, CopyGoes
  <2> QED
    BY <1>4, <2>2, <2>3 DEF GetSource
<1>5. ASSUME NEW h \in Handler, UpdateSource(h)
      PROVE  CopyInv'
  <2>. PICK c : c = call[h]
    OBVIOUS
  <2>1. ASSUME NEW answer, answer.at = "answered", Goes(h, answer)
        PROVE  CopyInv'
    BY <2>1, CopyGoes DEF CopyOK
  <2>2. ASSUME NEW answer, answer.at = "answered", Writes(c.id, c.copy, h, answer)
        PROVE  CopyInv'
    <3>1. c.id \in Id
      BY <1>0, <1>5, CallFields DEF UpdateSource
    <3> QED
      BY <2>2, <3>1, CopyWrites
  <2>3. \A b : Answer(c, c.pending, c.spec, b).at = "answered"
    BY DEF Answer
  <2> QED
    BY <1>5, <2>1, <2>2, <2>3 DEF UpdateSource
<1>6. ASSUME NEW i \in Id, NEW o, Writes(i, o, None, None)
      PROVE  CopyInv'
  BY <1>6, CopyWrites, NoneAssumption
<1>7. CASE Others
  BY <1>6, <1>7 DEF Others
<1>8. ASSUME NEW i \in Id, Handle(i)
      PROVE  CopyInv'
  BY <1>6, <1>8 DEF Handle
<1>9. CASE UNCHANGED <<objects, call>>
  BY <1>9 DEF CopyInv
<1> QED
  BY <1>1, <1>2, <1>3, <1>4, <1>5, <1>7, <1>8, <1>9 DEF Next, Serve, Tick, vars

THEOREM CopyInvariant == Flux => []CopyInv
<1>1. Init => CopyInv
  BY DEF Init, CopyInv, CopyOK, Idle
<1> QED
  BY <1>1, CopyInvStep, TypeCorrect, PTL DEF Flux

\* What a handler writes is the stored object but for its own change.
LEMMA HandlerWrites ==
  ASSUME TypeOK, CopyInv, NEW h \in Handler, Serve(h), NEW i \in Id,
         objects'[i] # objects[i]
  PROVE  objects[i] \in Object /\ Edited(objects[i], objects'[i])
<1>. PICK c : c = call[h]
  OBVIOUS
<1>1. /\ c.at \in {"read", "sourceRead"} /\ c.fresh
      /\ objects' = [objects EXCEPT ![c.id] = c.copy]
  BY DEF Serve, Get, Update, GetSource, UpdateSource, Goes, Writes, UpdateAccepted
<1>2. i = c.id /\ objects'[i] = c.copy
  BY <1>1 DEF TypeOK
<1> QED
  BY <1>1, <1>2 DEF CopyInv, CopyOK

\* An Update of flux_reconcile or flux_reconciliation undoes nothing that the
\* controllers, other clients or other handlers wrote since the object was read.
THEOREM ForeignEdits == Flux => ForeignEditsSurvive
<1>1. ASSUME TypeOK, CopyInv, NEW i \in Id, NEW h \in Handler, Serve(h),
             objects'[i] # objects[i]
      PROVE  \/ \E t \in 0..MaxTime :
                  objects'[i] = [objects[i] EXCEPT !.requestedAt = t]
             \/ objects'[i] = [objects[i] EXCEPT !.suspend = ~@]
  <2>1. objects[i] \in Object /\ Edited(objects[i], objects'[i])
    BY <1>1, HandlerWrites
  <2>2. ASSUME NEW b \in BOOLEAN, objects'[i] = [objects[i] EXCEPT !.suspend = b]
        PROVE  objects'[i] = [objects[i] EXCEPT !.suspend = ~@]
    <3>1. CASE b = objects[i].suspend
      <4>1. objects'[i] = objects[i]
        BY <2>1, <2>2, <3>1 DEF Object
      <4> QED
        BY <1>1, <4>1
    <3>2. CASE b # objects[i].suspend
      <4>1. b = ~objects[i].suspend
        BY <2>1, <3>2 DEF Object
      <4> QED
        BY <2>2, <4>1
    <3> QED
      BY <3>1, <3>2
  <2> QED
    BY <2>1, <2>2 DEF Edited
<1>2. TypeOK /\ CopyInv /\ [Next]_vars
        => [\A i \in Id :
              (\E h \in Handler : Serve(h)) /\ objects'[i] # objects[i]
              => \/ \E t \in 0..MaxTime :
                      objects'[i] = [objects[i] EXCEPT !.requestedAt = t]
                 \/ objects'[i] = [objects[i] EXCEPT !.suspend = ~@]]_vars
  BY <1>1
<1> QED
  BY <1>2, TypeCorrect, CopyInvariant, PTL DEF Flux, ForeignEditsSurvive

-----------------------------------------------------------------------------
(* The source.                                                             *)

\* A request stays until the object is gone.
Requested(os, i) == os[i] = None \/ os[i].requestedAt # None

LEMMA RequestedKept ==
  ASSUME TypeOK, CopyInv, [Next]_vars, NEW i \in Id, Requested(objects, i)
  PROVE  Requested(objects', i)
<1>. SUFFICES ASSUME objects'[i] # objects[i] PROVE Requested(objects', i)
  BY DEF Requested
<1>1. CASE \E h \in Handler : Serve(h)
  <2>1. objects[i] \in Object /\ Edited(objects[i], objects'[i])
    BY <1>1, HandlerWrites
  <2>2. objects[i].requestedAt # None
    BY <2>1, NoneAssumption DEF Requested
  <2>3. \A t \in 0..MaxTime : [objects[i] EXCEPT !.requestedAt = t].requestedAt # None
    BY <2>1, ConstantsAssumption, NoneAssumption DEF Object
  <2>4. \A b \in BOOLEAN : [objects[i] EXCEPT !.suspend = b].requestedAt # None
    BY <2>1, <2>2 DEF Object
  <2> QED
    BY <2>1, <2>3, <2>4 DEF Edited, Requested
<1>2. ASSUME NEW j \in Id, NEW o, Writes(j, o, None, None), objects[j] # None,
             o = None \/ o.requestedAt = objects[j].requestedAt
      PROVE  Requested(objects', i)
  <2>1. i = j /\ objects'[i] = o
    BY <1>2 DEF Writes, TypeOK
  <2> QED
    BY <1>2, <2>1 DEF Requested
<1>3. CASE Others
  <2>1. PICK j \in Id :
          /\ objects[j] # None
          /\ \/ \E spec \in Spec : Writes(j, [objects[j] EXCEPT !.spec = spec], None, None)
             \/ Writes(j, [objects[j] EXCEPT !.suspend = ~@], None, None)
             \/ Writes(j, None, None, None)
    BY <1>3 DEF Others
  <2>2. objects[j] \in Object
    BY <2>1 DEF TypeOK
  <2>3. /\ \A spec \in Spec :
             [objects[j] EXCEPT !.spec = spec].requestedAt = objects[j].requestedAt
        /\ [objects[j] EXCEPT !.suspend = ~@].requestedAt = objects[j].requestedAt
    BY <2>2 DEF Object
  <2> QED
    BY <1>2, <2>1, <2>3
<1>4. ASSUME NEW j \in Id, Handle(j)
      PROVE  Requested(objects', i)
  <2>1. objects[j] \in Object
    BY <1>4 DEF Handle, TypeOK
  <2>2. [objects[j] EXCEPT !.handled = objects[j].requestedAt,
                           !.reconciled = now].requestedAt = objects[j].requestedAt
    BY <2>1 DEF Object
  <2> QED
    BY <1>2, <1>4, <2>2 DEF Handle
<1>5. CASE UNCHANGED objects
  BY <1>5
<1> QED
  BY <1>1, <1>3, <1>4, <1>5 DEF Next, Ask, RequestFails, Goes, Tick, vars

\* The source a call is about.
SourceSeen(c) == SourceOf(c.req, SourceRef[c.spec])

\* An answer about a source tells of the one the object referred to.
SourceInv ==
  \A h \in Handler :
    call[h].at = "answered" /\ call[h].sourceReconciled =>
      /\ SourceSeen(call[h]) \in Id
      /\ Requested(objects, SourceSeen(call[h]))

LEMMA SourceInvStep ==
  ASSUME TypeOK, CopyInv, SourceInv, [Next]_vars
  PROVE  SourceInv'
<1> SUFFICES ASSUME NEW g \in Handler, call'[g].at = "answered",
                    call'[g].sourceReconciled
             PROVE  /\ SourceSeen(call'[g]) \in Id
                    /\ Requested(objects', SourceSeen(call'[g]))
  BY DEF SourceInv
<1>1. CASE call'[g] = call[g]
  BY <1>1, RequestedKept DEF SourceInv
<1>2. CASE UpdateSource(g)
  <2>. PICK c : c = call[g]
    OBVIOUS
  <2>0. /\ c.at = "sourceRead" /\ c.id \in Id
        /\ c.id = SourceSeen(c) /\ c.copy.requestedAt # None
    BY <1>2, CallFields DEF UpdateSource, TypeOK, CopyInv, CopyOK, SourceSeen
  <2>1. ~Goes(g, Answer(c, c.pending, c.spec, FALSE))
    BY DEF Goes, Answer, TypeOK
  <2>2. PICK b \in BOOLEAN :
          Writes(c.id, c.copy, g, Answer(c, c.pending, c.spec, b))
    BY <1>2, <2>1 DEF UpdateSource
  <2>3. call'[g].req = c.req /\ call'[g].spec = c.spec /\ objects'[c.id] = c.copy
    BY <2>0, <2>2 DEF Writes, Answer, TypeOK
  <2> QED
    BY <2>0, <2>3 DEF Requested, SourceSeen
<1>3. CASE call'[g] # call[g] /\ ~UpdateSource(g)
  <2>1. ASSUME NEW i, NEW o, NEW h, NEW c, Writes(i, o, h, c)
        PROVE  g = h
    <3>1. CASE g # h
      <4>1. call'[g] = Watching(call[g], i, o)
        BY <2>1, <3>1 DEF Writes
      <4>2. call[g].at \in {"read", "sourceRead"} /\ call'[g].at = call[g].at
        BY <1>3, <4>1, WatchingAt DEF Watching, TypeOK
      <4> QED
        BY <4>2
    <3> QED
      BY <3>1
  <2>2. ASSUME NEW h, NEW c, Goes(h, c)
        PROVE  g = h /\ call'[g] = c
    BY <1>3, <2>2 DEF Goes, TypeOK
  <2>3. ASSUME NEW h \in Handler, Update(h)
        PROVE  FALSE
    <3>1. PICK c : /\ Goes(h, c) \/ \E i, o : Writes(i, o, h, c)
                   /\ \/ c.at \in {"failed", "source"}
                      \/ c.at = "answered" /\ ~c.sourceReconciled
      BY <2>3 DEF Update, Answer, Failed
    <3>2. call'[g] = c
      BY <2>1, <2>2, <3>1 DEF Writes
    <3> QED
      BY <3>1, <3>2
  <2>4. ASSUME NEW h \in Handler, Ask(h) \/ RequestFails(h) \/ Get(h) \/ GetSource(h)
        PROVE  FALSE
    <3>1. ASSUME NEW c, Goes(h, c),
                 \/ c.at \in {"asked", "failed", "read", "sourceRead"}
                 \/ c.at = "answered" /\ ~c.sourceReconciled
          PROVE  FALSE
      BY <2>2, <3>1
    <3>2. CASE Ask(h) \/ RequestFails(h)
      BY <3>1, <3>2 DEF Ask, RequestFails, Failed
    <3>3. CASE Get(h)
      BY <3>1, <3>3 DEF Get, Failed
    <3>4. CASE GetSource(h)
      BY <3>1, <3>4 DEF GetSource, Answer
    <3> QED
      BY <2>4, <3>2, <3>3, <3>4
  <2>5. ASSUME NEW h \in Handler, UpdateSource(h)
        PROVE  FALSE
    <3>1. g = h
      BY <2>1, <2>2, <2>5 DEF UpdateSource
    <3> QED
      BY <1>3, <2>5, <3>1
  <2>6. CASE Others
    BY <2>1, <2>6, NoneAssumption DEF Others
  <2>7. ASSUME NEW i \in Id, Handle(i)
        PROVE  FALSE
    BY <2>1, <2>7, NoneAssumption DEF Handle
  <2> QED
    BY <1>3, <2>3, <2>4, <2>5, <2>6, <2>7 DEF Next, Serve, Tick, vars
<1> QED
  BY <1>1, <1>2, <1>3

\* If the answer says that the source was reconciled, too, the source that the object
\* referred to when it was annotated has a request, unless it is gone.
THEOREM SourceHonest == Flux => []SourceReconciledIsTrue
<1>1. Init => SourceInv
  BY DEF Init, SourceInv, Idle
<1>2. SourceInv => SourceReconciledIsTrue
  BY DEF SourceInv, SourceReconciledIsTrue, SourceSeen, SourceOf, Requested
<1> QED
  BY <1>1, <1>2, SourceInvStep, TypeCorrect, CopyInvariant, PTL DEF Flux

=============================================================================
