--------------------------- MODULE WorkloadsProofs ---------------------------
(***************************************************************************)
(* Proofs about Workloads, for every number of workloads, handlers and     *)
(* calls, every width of a replica count, and however long time passes and *)
(* others write.                                                           *)
(***************************************************************************)
EXTENDS Workloads, FiniteSetTheorems, SequenceTheorems, TLAPS

-----------------------------------------------------------------------------
(* Sequences and arithmetic.                                               *)

\* What is in a sequence.
LEMMA Elements ==
  ASSUME NEW S, NEW s \in Seq(S), NEW x
  PROVE  x \in ToSet(s) <=> \E i \in 1..Len(s) : s[i] = x
BY LenProperties DEF ToSet

\* Concatenation, appending and splitting keep together what is in the parts.
LEMMA ConcatElements ==
  ASSUME NEW S, NEW s \in Seq(S), NEW t \in Seq(S)
  PROVE  s \o t \in Seq(S) /\ ToSet(s \o t) = ToSet(s) \cup ToSet(t)
<1>1. /\ s \o t \in Seq(S) /\ Len(s) \in Nat /\ Len(t) \in Nat
      /\ Len(s \o t) = Len(s) + Len(t)
      /\ \A i \in 1..Len(s) + Len(t) :
           (s \o t)[i] = IF i <= Len(s) THEN s[i] ELSE t[i - Len(s)]
  BY ConcatProperties, LenProperties
<1>2. ASSUME NEW x \in ToSet(s \o t)
      PROVE  x \in ToSet(s) \cup ToSet(t)
  <2>1. PICK i \in 1..Len(s) + Len(t) : (s \o t)[i] = x
    BY <1>1, Elements
  <2>2. CASE i <= Len(s)
    BY <1>1, <2>1, <2>2, Elements
  <2>3. CASE i > Len(s)
    <3>1. i - Len(s) \in 1..Len(t) /\ t[i - Len(s)] = x
      BY <1>1, <2>1, <2>3
    <3> QED
      BY <3>1, Elements
  <2> QED
    BY <1>1, <2>2, <2>3
<1>3. ASSUME NEW x \in ToSet(s)
      PROVE  x \in ToSet(s \o t)
  <2>1. PICK i \in 1..Len(s) : s[i] = x
    BY Elements
  <2>2. i \in 1..Len(s) + Len(t) /\ (s \o t)[i] = x
    BY <1>1, <2>1
  <2> QED
    BY <1>1, <2>2, Elements
<1>4. ASSUME NEW x \in ToSet(t)
      PROVE  x \in ToSet(s \o t)
  <2>1. PICK i \in 1..Len(t) : t[i] = x
    BY Elements
  <2>2. i + Len(s) \in 1..Len(s) + Len(t) /\ (s \o t)[i + Len(s)] = x
    BY <1>1, <2>1
  <2> QED
    BY <1>1, <2>2, Elements
<1> QED
  BY <1>1, <1>2, <1>3, <1>4

LEMMA SingleElement ==
  ASSUME NEW S, NEW x \in S
  PROVE  <<x>> \in Seq(S) /\ ToSet(<<x>>) = {x}
BY DEF ToSet

LEMMA AppendElements ==
  ASSUME NEW S, NEW s \in Seq(S), NEW x \in S
  PROVE  Append(s, x) \in Seq(S) /\ ToSet(Append(s, x)) = ToSet(s) \cup {x}
<1>1. Append(s, x) = s \o <<x>>
  OBVIOUS
<1>2. <<x>> \in Seq(S) /\ ToSet(<<x>>) = {x}
  BY SingleElement
<1>. PICK t \in Seq(S) : t = <<x>>
  BY <1>2
<1>3. /\ s \o t \in Seq(S)
      /\ ToSet(s \o t) = ToSet(s) \cup ToSet(t)
  BY ONLY s \in Seq(S), t \in Seq(S), ConcatElements
<1> QED
  BY <1>1, <1>2, <1>3

LEMMA HeadTailElements ==
  ASSUME NEW S, NEW s \in Seq(S), s # <<>>
  PROVE  /\ Head(s) \in S /\ Tail(s) \in Seq(S)
         /\ ToSet(s) = {Head(s)} \cup ToSet(Tail(s))
<1>1. /\ Head(s) \in S /\ Tail(s) \in Seq(S)
      /\ Len(s) \in Nat \ {0} /\ Len(Tail(s)) = Len(s) - 1 /\ Head(s) = s[1]
      /\ \A i \in 1..Len(Tail(s)) : Tail(s)[i] = s[i + 1]
  BY HeadTailProperties, EmptySeq, LenProperties
<1>2. ASSUME NEW x \in ToSet(s)
      PROVE  x \in {Head(s)} \cup ToSet(Tail(s))
  <2>1. PICK i \in 1..Len(s) : s[i] = x
    BY Elements
  <2>2. CASE i = 1
    BY <1>1, <2>1, <2>2
  <2>3. CASE i # 1
    <3>1. i - 1 \in 1..Len(Tail(s)) /\ Tail(s)[i - 1] = x
      BY <1>1, <2>1, <2>3
    <3> QED
      BY <1>1, <3>1, Elements
  <2> QED
    BY <2>2, <2>3
<1>3. ASSUME NEW x \in ToSet(Tail(s))
      PROVE  x \in ToSet(s)
  <2>. PICK t \in Seq(S) : t = Tail(s)
    BY <1>1
  <2>1. PICK i \in 1..Len(t) : t[i] = x
    BY Elements
  <2>2. i + 1 \in 1..Len(s) /\ s[i + 1] = x
    BY <1>1, <2>1
  <2> QED
    BY <2>2, Elements
<1>4. Head(s) \in ToSet(s)
  BY <1>1, Elements
<1> QED
  BY <1>1, <1>2, <1>3, <1>4

\* A finite set is what is in the sequence made of it.
LEMMA SetToSeqElements == ASSUME NEW S, IsFiniteSet(S)
  PROVE  SetToSeq(S) \in Seq(S) /\ ToSet(SetToSeq(S)) = S
<1>. DEFINE n == Cardinality(S)
<1>1. n \in Nat /\ ExistsBijection(1..n, S)
  BY FS_CardinalityType
<1>2. \E f \in [1..n -> S] : IsInjective(f)
  BY <1>1 DEF ExistsBijection, Bijection, Injection
<1>3. SetToSeq(S) \in [1..n -> S] /\ IsInjective(SetToSeq(S))
  BY <1>2 DEF SetToSeq
<1>4. IsFiniteSet(1..n) /\ Cardinality(1..n) = n
  BY <1>1, FS_Interval
<1>5. SetToSeq(S) \in Injection(1..n, S)
  BY <1>3 DEF Injection
<1>6. SetToSeq(S) \in Surjection(1..n, S)
  BY <1>4, <1>5, FS_Injection
<1>7. SetToSeq(S) \in Seq(S)
  BY <1>1, <1>3
<1> QED
  BY <1>3, <1>6, <1>7 DEF ToSet, Surjection

LEMMA SecondType ==
  ASSUME NEW t \in Nat
  PROVE  t \div Second \in Nat
<1>1. Second \in Nat /\ Second > 0
  BY ConstantsAssumption
<1> QED
  BY <1>1

\* A later tick is in no earlier second.
LEMMA LaterSecond ==
  ASSUME NEW t \in Nat, NEW u \in Nat, t <= u
  PROVE  /\ t \div Second \in Nat
         /\ t \div Second <= u \div Second
<1>1. Second \in Nat /\ Second > 0
  BY ConstantsAssumption
<1> QED
  BY <1>1

\* A count that fits is what it was, and any other becomes one that fits.
LEMMA Int32Facts ==
  ASSUME NEW n \in Int
  PROVE  /\ Int32(n) \in Int /\ Int32(n) <= MaxInt
         /\ n \in 0..MaxInt => Int32(n) = n
<1>. DEFINE size == MaxInt + 1
<1>1. MaxInt \in Nat /\ size \in Nat \ {0} /\ 2^Bits = 2 * size
  BY WidthAssumption
<1>2. Int32(n) = ((n + size) % (2 * size)) - size
  BY <1>1 DEF Int32
<1>3. n + size \in Int /\ 2 * size \in Nat \ {0}
  BY <1>1
<1> HIDE DEF size
<1>4. (n + size) % (2 * size) \in 0..(2 * size - 1)
  BY <1>3
<1>5. n \in Nat /\ n < size => (n + size) % (2 * size) = n + size
  BY <1>1, <1>3
<1> QED
  BY <1>1, <1>2, <1>4, <1>5 DEF size

-----------------------------------------------------------------------------
(* Typing.                                                                 *)

\* What a call in flight holds, by the point it has reached.
LEMMA CallFields ==
  ASSUME NEW c \in Call
  PROVE  /\ c \in {Idle, Failed} <=> c.at \in {"idle", "failed"}
         /\ c.at \notin {"idle", "failed"} => c.req \in Requests /\ c.watch \in Watch
         /\ c.at \in {"looking", "restarting", "restarted"} => c.req \in Restarts
         /\ c.at \in {"scaled", "reported"} => c.req \in Scales
         /\ c.at = "looking" => c.left \in Seq(Kind) /\ c.found \in Seq(Id)
         /\ c.at = "restarting" =>
              c.left \in Seq(Id) /\ c.done \in Seq(Id) /\ c.stamp \in Nat \cup {None}
         /\ c.at = "restarted" => c.done \in Seq(Id)
         /\ c.at = "reported" => c.replicas \in 0..MaxInt
BY DEF Call, Idle, Failed, Restarts, Scales

\* What a request says, by its tool.
LEMMA RequestFields ==
  ASSUME NEW req \in Requests
  PROVE  /\ req.tool = "workloads_restart" =>
              req.name \in Name \cup {None} /\ req.kind \in Kind \cup {"other", None}
         /\ req.tool = "workloads_scale" =>
              /\ req.name \in Name /\ req.kind \in Kind \cup {"other", None}
              /\ req.replicas \in Int
BY ConstantsAssumption DEF Request

\* What another's write makes of a call.
LEMMA WatchingFields ==
  ASSUME NEW c \in Call, c.at \notin {"idle", "failed"}, NEW w, NEW ws
  PROVE  LET d == Watching(c, w, ws)
         IN  /\ d \in Call /\ d.at = c.at /\ d.req = c.req
             /\ d.watch.since = c.watch.since
             /\ d.watch.steady = c.watch.steady \cap About(c.req, ws)
             /\ d.watch.disturbed =
                  (c.watch.disturbed
                   \/ (c.at \in {"scaled", "reported"} /\ w = Scaled(c.req)))
             /\ c.at \in {"looking", "restarting"} => d.left = c.left
             /\ c.at = "looking" => d.found = c.found
             /\ c.at \in {"restarting", "restarted"} => d.done = c.done
             /\ c.at = "restarting" => d.stamp = c.stamp
             /\ c.at = "reported" => d.replicas = c.replicas
<1>. DEFINE watch == [c.watch EXCEPT
               !.steady = @ \cap About(c.req, ws),
               !.disturbed =
                  @ \/ (c.at \in {"scaled", "reported"} /\ w = Scaled(c.req))]
<1>1. c.watch \in Watch
  BY CallFields
<1>2. /\ watch \in Watch
      /\ watch.since = c.watch.since
      /\ watch.steady = c.watch.steady \cap About(c.req, ws)
      /\ watch.disturbed =
           (c.watch.disturbed
            \/ (c.at \in {"scaled", "reported"} /\ w = Scaled(c.req)))
  BY <1>1 DEF Watch
<1>3. Watching(c, w, ws) = [c EXCEPT !.watch = watch]
  BY CallFields DEF Watching, Call, Idle, Failed
<1> HIDE DEF watch
<1>4. CASE c.at = "asked"
  <2>1. c \in [at : {"asked"}, req : Requests, watch : Watch]
    BY <1>4 DEF Call, Idle, Failed
  <2> QED
    BY <1>2, <1>3, <1>4, <2>1 DEF Call
<1>5. CASE c.at = "looking"
  <2>1. c \in [at : {"looking"}, req : Restarts, watch : Watch,
               left : Seq(Kind), found : Seq(Id)]
    BY <1>5 DEF Call, Idle, Failed
  <2> QED
    BY <1>2, <1>3, <1>5, <2>1 DEF Call
<1>6. CASE c.at = "restarting"
  <2>1. c \in [at : {"restarting"}, req : Restarts, watch : Watch,
               left : Seq(Id), done : Seq(Id), stamp : Nat \cup {None}]
    BY <1>6 DEF Call, Idle, Failed
  <2> QED
    BY <1>2, <1>3, <1>6, <2>1 DEF Call
<1>7. CASE c.at = "restarted"
  <2>1. c \in [at : {"restarted"}, req : Restarts, watch : Watch, done : Seq(Id)]
    BY <1>7 DEF Call, Idle, Failed
  <2> QED
    BY <1>2, <1>3, <1>7, <2>1 DEF Call
<1>8. CASE c.at = "scaled"
  <2>1. c \in [at : {"scaled"}, req : Scales, watch : Watch]
    BY <1>8 DEF Call, Idle, Failed
  <2> QED
    BY <1>2, <1>3, <1>8, <2>1 DEF Call
<1>9. CASE c.at = "reported"
  <2>1. c \in [at : {"reported"}, req : Scales, watch : Watch, replicas : 0..MaxInt]
    BY <1>9 DEF Call, Idle, Failed
  <2> QED
    BY <1>2, <1>3, <1>9, <2>1 DEF Call
<1> QED
  BY <1>4, <1>5, <1>6, <1>7, <1>8, <1>9 DEF Call, Idle, Failed

LEMMA WatchingType ==
  ASSUME NEW c \in Call, NEW w, NEW ws
  PROVE  Watching(c, w, ws) \in Call
<1>1. CASE c.at \in {"idle", "failed"}
  BY <1>1, CallFields DEF Watching
<1>2. CASE c.at \notin {"idle", "failed"}
  BY <1>2, WatchingFields
<1> QED
  BY <1>1, <1>2

\* A step that only moves a call, and one that writes a workload, keep the types.
LEMMA GoesType ==
  ASSUME TypeOK, NEW h \in Handler, NEW c \in Call, Goes(h, c), UNCHANGED <<now, writes>>
  PROVE  TypeOK'
BY DEF Goes, TypeOK

LEMMA WritesType ==
  ASSUME TypeOK, NEW w \in Id, NEW o \in Workload \cup {None}, NEW h, NEW c,
         h \in Handler => c \in Call, Writes(w, o, h, c)
  PROVE  /\ workloads' \in [Id -> Workload \cup {None}]
         /\ call' \in [Handler -> Call]
<1>1. \A g \in Handler : \A ws : Watching(call[g], w, ws) \in Call
  BY WatchingType DEF TypeOK
<1>2. workloads' \in [Id -> Workload \cup {None}]
  BY DEF Writes, TypeOK
<1>3. call' \in [Handler -> Call]
  BY <1>1 DEF Writes
<1> QED
  BY <1>2, <1>3

\* What a request of the API server finds is a finite set.
LEMMA SeenFinite ==
  ASSUME NEW S \in SUBSET Id, NEW k, \A w \in S : w.kind = k
  PROVE  IsFiniteSet(S)
<1>. DEFINE f == [w \in S |-> w.name]
<1>1. f \in [S -> Name]
  BY DEF Id
<1>2. ASSUME NEW v \in S, NEW w \in S, f[v] = f[w]
      PROVE  v = w
  BY <1>2 DEF Id
<1>3. f \in Injection(S, Name)
  BY <1>1, <1>2 DEF Injection, IsInjective
<1>4. IsFiniteSet(Name)
  BY ConstantsAssumption
<1> QED
  BY <1>3, <1>4, FS_Injection

\* The kinds to ask about, and what a restart resolves to.
LEMMA ResolveType ==
  ASSUME NEW req \in Restarts
  PROVE  /\ KindsToAsk(req) \in Seq(Kind)
         /\ \A found \in Seq(Id) : ToRestart(req, found) \in Seq(Id)
         /\ req.name # None /\ req.kind # None => Scaled(req) \in Id
<1>1. req.name \in Name \cup {None} /\ req.kind \in Kind \cup {None}
  BY RequestFields DEF Restarts
<1>2. probeOrder \in Seq(Kind)
  BY DEF probeOrder, Kind
<1>3. req.kind # None => <<req.kind>> \in Seq(Kind)
  BY <1>1
<1>4. req.name # None /\ req.kind # None => Scaled(req) \in Id
  BY <1>1 DEF Scaled, Id
<1>5. req.name # None /\ req.kind # None => <<Scaled(req)>> \in Seq(Id)
  BY <1>4
<1>6. <<>> \in Seq(Kind) /\ <<>> \in Seq(Id)
  OBVIOUS
<1> QED
  BY <1>2, <1>3, <1>4, <1>5, <1>6 DEF KindsToAsk, ToRestart

\* What a Get or List adds to what is found.
LEMMA LookType ==
  ASSUME NEW c \in Call, c.at = "looking", c.left # <<>>, NEW ws
  PROVE  LET seen == {w \in About(c.req, ws) : w.kind = Head(c.left)}
         IN  /\ Head(c.left) \in Kind /\ Tail(c.left) \in Seq(Kind)
             /\ ToSet(c.left) = {Head(c.left)} \cup ToSet(Tail(c.left))
             /\ c.found \o SetToSeq(seen) \in Seq(Id)
             /\ ToSet(c.found \o SetToSeq(seen)) = ToSet(c.found) \cup seen
<1>. DEFINE seen == {w \in About(c.req, ws) : w.kind = Head(c.left)}
<1>1. c.left \in Seq(Kind) /\ c.found \in Seq(Id)
  BY CallFields
<1>2. seen \in SUBSET Id /\ IsFiniteSet(seen)
  <2>1. seen \in SUBSET Id /\ \A w \in seen : w.kind = Head(c.left)
    BY DEF About
  <2> QED
    BY <2>1, SeenFinite
<1>3. /\ Head(c.left) \in Kind /\ Tail(c.left) \in Seq(Kind)
      /\ ToSet(c.left) = {Head(c.left)} \cup ToSet(Tail(c.left))
  BY <1>1, HeadTailElements
<1> HIDE DEF seen
<1>4. SetToSeq(seen) \in Seq(seen) /\ ToSet(SetToSeq(seen)) = seen
  BY <1>2, SetToSeqElements
<1>5. SetToSeq(seen) \in Seq(Id)
  BY <1>2, <1>4, SeqMonotonic
<1>6. /\ c.found \o SetToSeq(seen) \in Seq(Id)
      /\ ToSet(c.found \o SetToSeq(seen)) = ToSet(c.found) \cup ToSet(SetToSeq(seen))
  BY <1>1, <1>5, ConcatElements
<1> QED
  BY <1>3, <1>4, <1>6 DEF seen

\* What is left to restart and what is done, after one more.
LEMMA SendType ==
  ASSUME NEW c \in Call, c.at = "restarting", c.left # <<>>
  PROVE  /\ Head(c.left) \in Id /\ Tail(c.left) \in Seq(Id)
         /\ ToSet(c.left) = {Head(c.left)} \cup ToSet(Tail(c.left))
         /\ Append(c.done, Head(c.left)) \in Seq(Id)
         /\ ToSet(Append(c.done, Head(c.left))) = ToSet(c.done) \cup {Head(c.left)}
<1>1. c.left \in Seq(Id) /\ c.done \in Seq(Id)
  BY CallFields
<1>2. /\ Head(c.left) \in Id /\ Tail(c.left) \in Seq(Id)
      /\ ToSet(c.left) = {Head(c.left)} \cup ToSet(Tail(c.left))
  BY <1>1, HeadTailElements
<1> QED
  BY <1>1, <1>2, AppendElements

\* The call after one patch.
Sent(c) == [c EXCEPT !.left = Tail(@), !.done = Append(@, Head(c.left)), !.stamp = None]

LEMMA SentFields ==
  ASSUME NEW c \in Call, c.at = "restarting", c.left # <<>>
  PROVE  /\ Sent(c) \in Call /\ Sent(c).at = "restarting" /\ Sent(c).stamp = None
         /\ Sent(c).req = c.req /\ Sent(c).watch = c.watch
         /\ Sent(c).left = Tail(c.left) /\ Sent(c).done = Append(c.done, Head(c.left))
<1>1. c \in [at : {"restarting"}, req : Restarts, watch : Watch,
             left : Seq(Id), done : Seq(Id), stamp : Nat \cup {None}]
  BY DEF Call, Idle, Failed
<1>2. Tail(c.left) \in Seq(Id) /\ Append(c.done, Head(c.left)) \in Seq(Id)
  BY SendType
<1>3. /\ Sent(c).at = c.at /\ Sent(c).req = c.req /\ Sent(c).watch = c.watch
      /\ Sent(c).left = Tail(c.left) /\ Sent(c).done = Append(c.done, Head(c.left))
      /\ Sent(c).stamp = None
  BY <1>1 DEF Sent
<1>4. Sent(c) \in [at : {"restarting"}, req : Restarts, watch : Watch,
                   left : Seq(Id), done : Seq(Id), stamp : Nat \cup {None}]
  BY <1>1, <1>2 DEF Sent
<1> QED
  BY <1>1, <1>3, <1>4 DEF Call

\* What others make of a workload is one, or none.
LEMMA RewrittenType ==
  ASSUME TypeOK, NEW w \in Id, NEW o \in Rewritten(w, workloads[w])
  PROVE  o \in Workload \cup {None}
<1>1. now \in Nat
  BY ConstantsAssumption DEF TypeOK
<1>2. 1 \in 0..MaxInt /\ 2 \in 0..MaxInt
  BY WidthAssumption
<1>3. CASE workloads[w] = None
  BY <1>1, <1>2, <1>3 DEF Rewritten, New, Workload
<1>4. CASE workloads[w] # None
  <2>1. workloads[w] \in Workload
    BY <1>4 DEF TypeOK
  <2>2. CASE o = None
    BY <2>2
  <2>3. CASE o = [workloads[w] EXCEPT !.matches = ~@]
    BY <2>1, <2>3 DEF Workload
  <2>4. CASE o = [workloads[w] EXCEPT !.replicas = 2]
    BY <1>2, <2>1, <2>4 DEF Workload
  <2>5. CASE o = [workloads[w] EXCEPT !.stamp = None, !.started = now]
    BY <1>1, <2>1, <2>5 DEF Workload
  <2> QED
    BY <1>4, <2>2, <2>3, <2>4, <2>5 DEF Rewritten
<1> QED
  BY <1>3, <1>4

\* Every step keeps the types: one step per action.
LEMMA TypeOKStep == TypeOK /\ [Next]_vars => TypeOK'
<1> SUFFICES ASSUME TypeOK, [Next]_vars PROVE TypeOK'
  OBVIOUS
<1>0. /\ now \in Nat /\ \A g \in Handler : call[g] \in Call
      /\ Failed \in Call
  BY ConstantsAssumption DEF TypeOK, Call
<1>1. ASSUME NEW h \in Handler, Ask(h)
      PROVE  TypeOK'
  <2>1. PICK req \in Requests :
          Goes(h, [at |-> "asked", req |-> req,
                   watch |-> [since |-> now, steady |-> About(req, workloads),
                              disturbed |-> FALSE]])
    BY <1>1 DEF Ask
  <2>2. [since |-> now, steady |-> About(req, workloads), disturbed |-> FALSE] \in Watch
    BY <1>0 DEF Watch, About
  <2>3. [at |-> "asked", req |-> req,
         watch |-> [since |-> now, steady |-> About(req, workloads),
                    disturbed |-> FALSE]] \in Call
    BY <2>2 DEF Call
  <2> QED
    BY <1>1, <2>1, <2>3, GoesType DEF Ask
<1>2. ASSUME NEW h \in Handler, RequestFails(h)
      PROVE  TypeOK'
  BY <1>0, <1>2, GoesType DEF RequestFails
<1>3. ASSUME NEW h \in Handler, StartRestart(h)
      PROVE  TypeOK'
  <2>. PICK c : c = call[h]
    OBVIOUS
  <2>1. c.at = "asked" /\ c.req \in Requests /\ c.watch \in Watch
    BY <1>0, <1>3, CallFields DEF StartRestart
  <2>2. CASE c.req.kind = "other"
    BY <1>0, <1>3, <2>2, GoesType DEF StartRestart
  <2>3. CASE c.req.kind # "other"
    <3>1. c.req \in Restarts
      BY <1>3, <2>1, <2>3 DEF StartRestart, Restarts
    <3>2. KindsToAsk(c.req) \in Seq(Kind) /\ <<>> \in Seq(Id)
      BY <3>1, ResolveType
    <3>3. [at |-> "looking", req |-> c.req, watch |-> c.watch,
           left |-> KindsToAsk(c.req), found |-> <<>>] \in Call
      BY <2>1, <3>1, <3>2 DEF Call
    <3> QED
      BY <1>3, <2>3, <3>3, GoesType DEF StartRestart
  <2> QED
    BY <2>2, <2>3
<1>4. ASSUME NEW h \in Handler, Look(h)
      PROVE  TypeOK'
  <2>. PICK c : c = call[h]
    OBVIOUS
  <2>. PICK seen : seen = {w \in About(c.req, workloads) : w.kind = Head(c.left)}
    OBVIOUS
  <2>1. c.at = "looking" /\ c.left # <<>> /\ c \in Call
    BY <1>0, <1>4 DEF Look
  <2>2. Tail(c.left) \in Seq(Kind) /\ c.found \o SetToSeq(seen) \in Seq(Id)
    BY <2>1, LookType
  <2>3. c \in [at : {"looking"}, req : Restarts, watch : Watch,
               left : Seq(Kind), found : Seq(Id)]
    BY <2>1 DEF Call, Idle, Failed
  <2>4. [c EXCEPT !.left = Tail(@), !.found = @ \o SetToSeq(seen)] \in Call
    BY <2>2, <2>3 DEF Call
  <2> QED
    BY <1>4, <2>4, GoesType DEF Look
<1>5. ASSUME NEW h \in Handler, Resolve(h)
      PROVE  TypeOK'
  <2>. PICK c : c = call[h]
    OBVIOUS
  <2>. PICK queue : queue = ToRestart(c.req, c.found)
    OBVIOUS
  <2>1. c.req \in Restarts /\ c.watch \in Watch /\ c.found \in Seq(Id)
    BY <1>0, <1>5, CallFields DEF Resolve
  <2>2. queue \in Seq(Id) /\ <<>> \in Seq(Id)
    BY <2>1, ResolveType
  <2>3. [at |-> "restarting", req |-> c.req, watch |-> c.watch,
         left |-> queue, done |-> <<>>, stamp |-> None] \in Call
    BY <2>1, <2>2 DEF Call
  <2> QED
    BY <1>0, <1>5, <2>3, GoesType DEF Resolve
<1>6. ASSUME NEW h \in Handler, MakePatch(h)
      PROVE  TypeOK'
  <2>1. call[h] \in [at : {"restarting"}, req : Restarts, watch : Watch,
                     left : Seq(Id), done : Seq(Id), stamp : Nat \cup {None}]
    BY <1>0, <1>6 DEF MakePatch, Call, Idle, Failed
  <2>2. RFC3339(now) \in Nat
    BY <1>0, LaterSecond DEF RFC3339
  <2>3. [call[h] EXCEPT !.stamp = RFC3339(now)] \in Call
    BY <2>1, <2>2 DEF Call
  <2> QED
    BY <1>6, <2>3, GoesType DEF MakePatch
<1>7. ASSUME NEW h \in Handler, SendPatch(h)
      PROVE  TypeOK'
  <2>. PICK c : c = call[h]
    OBVIOUS
  <2>. PICK w : w = Head(c.left)
    OBVIOUS
  <2>1. /\ c \in Call /\ c.at = "restarting" /\ c.left # <<>> /\ c.stamp # None
        /\ UNCHANGED <<now, writes>>
    BY <1>0, <1>7 DEF SendPatch
  <2>2. w \in Id /\ c.stamp \in Nat /\ Sent(c) \in Call
    BY <2>1, CallFields, SendType, SentFields
  <2>3. CASE Goes(h, Failed)
    BY <1>0, <2>1, <2>3, GoesType
  <2>4. CASE /\ workloads[w] # None
             /\ \E answer \in {Sent(c), Failed} :
                  Writes(w, Stamped(workloads[w], c.stamp), h, answer)
    <3>1. workloads[w] \in Workload
      BY <2>2, <2>4 DEF TypeOK
    <3>2. Stamped(workloads[w], c.stamp) \in Workload
      BY <1>0, <2>2, <3>1 DEF Stamped, Workload
    <3> QED
      BY <1>0, <2>1, <2>2, <2>4, <3>2, WritesType DEF TypeOK
  <2> QED
    BY <1>7, <2>3, <2>4 DEF SendPatch, Sent
<1>8. ASSUME NEW h \in Handler, FinishRestart(h)
      PROVE  TypeOK'
  <2>. PICK c : c = call[h]
    OBVIOUS
  <2>1. c.req \in Restarts /\ c.watch \in Watch /\ c.done \in Seq(Id)
    BY <1>0, <1>8, CallFields DEF FinishRestart
  <2>2. [at |-> "restarted", req |-> c.req, watch |-> c.watch, done |-> c.done] \in Call
    BY <2>1 DEF Call
  <2> QED
    BY <1>0, <1>8, <2>2, GoesType DEF FinishRestart
<1>9. ASSUME NEW h \in Handler, UpdateScale(h)
      PROVE  TypeOK'
  <2>. PICK c : c = call[h]
    OBVIOUS
  <2>. PICK w : w = Scaled(c.req)
    OBVIOUS
  <2>. PICK n : n = Int32(c.req.replicas)
    OBVIOUS
  <2>1. /\ c \in Call /\ c.at = "asked" /\ c.req.tool = "workloads_scale"
        /\ c.req \in Requests /\ c.watch \in Watch /\ UNCHANGED <<now, writes>>
    BY <1>0, <1>9, CallFields DEF UpdateScale
  <2>2. CASE Goes(h, Failed)
    BY <1>0, <2>1, <2>2, GoesType
  <2>3. CASE /\ c.req.kind \in scalable /\ workloads[w] # None /\ ~(n < 0)
             /\ \E answer \in {[c EXCEPT !.at = "scaled"], Failed} :
                  Writes(w, [workloads[w] EXCEPT !.replicas = n], h, answer)
    <3>1. w \in Id
      BY <2>1, <2>3, RequestFields DEF Scaled, Id, scalable, Kind
    <3>2. n \in 0..MaxInt
      BY <2>1, <2>3, RequestFields, Int32Facts, WidthAssumption
    <3>3. [workloads[w] EXCEPT !.replicas = n] \in Workload
      BY <2>3, <3>1, <3>2 DEF TypeOK, Workload
    <3>4. c \in [at : {"asked"}, req : Requests, watch : Watch]
      BY <2>1 DEF Call, Idle, Failed
    <3>5. c.req \in Scales
      BY <2>1, <2>3 DEF Scales
    <3>6. [c EXCEPT !.at = "scaled"] \in Call
      BY <3>4, <3>5 DEF Call
    <3> QED
      BY <1>0, <2>1, <2>3, <3>1, <3>3, <3>6, WritesType DEF TypeOK
  <2> QED
    BY <1>9, <2>2, <2>3 DEF UpdateScale
<1>10. ASSUME NEW h \in Handler, GetScaled(h)
      PROVE  TypeOK'
  <2>. PICK c : c = call[h]
    OBVIOUS
  <2>. PICK w : w = Scaled(c.req)
    OBVIOUS
  <2>1. c.req \in Scales /\ c.watch \in Watch
    BY <1>0, <1>10, CallFields DEF GetScaled
  <2>2. w \in Id
    BY <2>1, RequestFields DEF Scales, Scaled, Id, scalable, Kind
  <2>3. CASE workloads[w] = None
    BY <1>0, <1>10, <2>3, GoesType DEF GetScaled
  <2>4. CASE workloads[w] # None
    <3>1. workloads[w].replicas \in 0..MaxInt
      BY <2>2, <2>4 DEF TypeOK, Workload
    <3>2. [at |-> "reported", req |-> c.req, watch |-> c.watch,
           replicas |-> workloads[w].replicas] \in Call
      BY <2>1, <3>1 DEF Call
    <3> QED
      BY <1>10, <2>4, <3>2, GoesType DEF GetScaled
  <2> QED
    BY <2>3, <2>4
<1>11. CASE Others
  <2>1. PICK w \in Id, o \in Workload \cup {None} : Writes(w, o, None, None)
    BY <1>11, RewrittenType DEF Others
  <2>2. now' = now /\ writes' \in 0..MaxWrites
    BY <1>11, ConstantsAssumption DEF Others, TypeOK
  <2> QED
    BY <2>1, <2>2, NoneAssumption, WritesType DEF TypeOK
<1>12. CASE Tick
  BY <1>12, ConstantsAssumption DEF Tick, TypeOK
<1>13. CASE UNCHANGED vars
  BY <1>13 DEF vars, TypeOK
<1> QED
  BY <1>1, <1>2, <1>3, <1>4, <1>5, <1>6, <1>7, <1>8, <1>9, <1>10, <1>11, <1>12, <1>13
  DEF Next, Restart, Scale

\* Workloads and calls always have the declared shapes.
THEOREM TypeCorrect == Spec => []TypeOK
<1>1. Init => TypeOK
  <2> SUFFICES ASSUME Init PROVE TypeOK
    OBVIOUS
  <2>1. New(TRUE) \in Workload
    BY WidthAssumption DEF Init, New, Workload
  <2>2. workloads \in [Id -> Workload \cup {None}]
    BY <2>1 DEF Init
  <2>3. Idle \in Call
    BY DEF Call
  <2>4. call \in [Handler -> Call]
    BY <2>3 DEF Init
  <2>5. now \in 0..MaxTime /\ writes \in 0..MaxWrites
    BY ConstantsAssumption DEF Init
  <2> QED
    BY <2>2, <2>4, <2>5 DEF TypeOK
<1> QED
  BY <1>1, TypeOKStep, PTL DEF Spec

-----------------------------------------------------------------------------
(* The invariant.  Each part is about a call c while the workloads are ws  *)
(* and the clock shows t.                                                  *)

\* A workload is no older than the clock and was started since its stamp.
WorkloadOK(o, t) ==
  o # None => /\ o.started <= t
              /\ o.stamp # None => o.stamp <= o.started \div Second

\* What a restart has been about all the time, it is about now.
WatchOK(c, ws, t) ==
  c.at \notin {"idle", "failed"}
    => c.watch.steady \subseteq About(c.req, ws) /\ c.watch.since <= t

\* While the handler looks, a steady workload is found or of a kind left to ask about.
LookOK(c) ==
  c.at = "looking" =>
    \A w \in c.watch.steady : \/ c.req.name # None /\ c.req.kind # None
                              \/ w.kind \in ToSet(c.left)
                              \/ w \in ToSet(c.found)

\* Then it acts on every steady workload and, if it had to resolve the kind of a name,
\* on nothing beside it.
Acting(c) == IF c.at = "restarting" THEN ToSet(c.done) \cup ToSet(c.left) ELSE ToSet(c.done)

ActOK(c) ==
  c.at \in {"restarting", "restarted"} =>
    /\ c.watch.steady \subseteq Acting(c)
    /\ c.req.name # None /\ c.req.kind = None
         => \A w \in c.watch.steady : Acting(c) \subseteq {w}

\* The stamp of a patch is from the time of the call.
StampOK(c, t) ==
  c.at = "restarting" /\ c.stamp # None
    => c.watch.since \div Second <= c.stamp /\ c.stamp <= t \div Second

\* What is done runs pods that were started since the second of the call.
DoneOK(c, ws) ==
  c.at \in {"restarting", "restarted"} =>
    \A w \in ToSet(c.done) :
      ws[w] # None => c.watch.since \div Second <= ws[w].started \div Second

\* What was scaled and not disturbed has the count that was asked for.
ScaleOK(c, ws) ==
  c.at \in {"scaled", "reported"} /\ c.req.replicas <= MaxInt /\ ~c.watch.disturbed =>
    /\ c.at = "scaled" /\ ws[Scaled(c.req)] # None
         => ws[Scaled(c.req)].replicas = c.req.replicas
    /\ c.at = "reported" => c.replicas = c.req.replicas

CallOK(c, ws, t) ==
  /\ WatchOK(c, ws, t) /\ LookOK(c) /\ ActOK(c)
  /\ StampOK(c, t) /\ DoneOK(c, ws) /\ ScaleOK(c, ws)

IInv ==
  /\ TypeOK
  /\ \A w \in Id : WorkloadOK(workloads[w], now)
  /\ \A h \in Handler : CallOK(call[h], workloads, now)

-----------------------------------------------------------------------------
(* What a step does to the calls that are not its own.                     *)

\* A write that lets no workload look older than it is.
Renews(o, p, t) == \/ p = None
                   \/ p.started = t
                   \/ o # None /\ p.started = o.started

\* Another's write keeps what holds of a call, by the ghosts.
LEMMA WatchingOK ==
  ASSUME NEW c \in Call, NEW ws \in [Id -> Workload \cup {None}], NEW t \in Nat,
         NEW w \in Id, NEW o \in Workload \cup {None},
         CallOK(c, ws, t), Renews(ws[w], o, t)
  PROVE  LET new == [ws EXCEPT ![w] = o]
         IN  CallOK(Watching(c, w, new), new, t)
<1>. DEFINE new == [ws EXCEPT ![w] = o]
<1>1. CASE c.at \in {"idle", "failed"}
  <2>1. Watching(c, w, new) = c
    BY <1>1, CallFields DEF Watching
  <2> QED
    BY <1>1, <2>1 DEF CallOK, WatchOK, LookOK, ActOK, StampOK, DoneOK, ScaleOK
<1>2. CASE c.at \notin {"idle", "failed"}
  <2>. DEFINE d == Watching(c, w, new)
  <2>1. \A v \in Id : new[v] = IF v = w THEN o ELSE ws[v]
    OBVIOUS
  <2>2. /\ d.at = c.at /\ d.req = c.req /\ d.watch.since = c.watch.since
        /\ d.watch.steady = c.watch.steady \cap About(c.req, new)
        /\ d.watch.disturbed =
             (c.watch.disturbed
              \/ (c.at \in {"scaled", "reported"} /\ w = Scaled(c.req)))
        /\ c.at \in {"looking", "restarting"} => d.left = c.left
        /\ c.at = "looking" => d.found = c.found
        /\ c.at \in {"restarting", "restarted"} => d.done = c.done
        /\ c.at = "restarting" => d.stamp = c.stamp
        /\ c.at = "reported" => d.replicas = c.replicas
    BY <1>2, WatchingFields
  <2>3. c.watch.since \in Nat /\ c.watch.since <= t
    BY <1>2, CallFields DEF CallOK, WatchOK, Watch
  <2> HIDE DEF d, new
  <2>4. WatchOK(d, new, t)
    BY <2>2, <2>3 DEF WatchOK
  <2>5. LookOK(d)
    BY <2>2 DEF CallOK, LookOK
  <2>6. ActOK(d)
    BY <2>2 DEF CallOK, ActOK, Acting
  <2>7. StampOK(d, t)
    BY <2>2 DEF CallOK, StampOK
  <2>8. DoneOK(d, new)
    <3> SUFFICES ASSUME c.at \in {"restarting", "restarted"},
                        NEW v \in ToSet(c.done), new[v] # None
                 PROVE  c.watch.since \div Second <= new[v].started \div Second
      BY <2>2 DEF DoneOK
    <3>1. v \in Id
      BY CallFields, Elements, ElementOfSeq
    <3>2. CASE v # w \/ (ws[v] # None /\ o.started = ws[v].started)
      BY <2>1, <3>1, <3>2 DEF CallOK, DoneOK
    <3>3. CASE v = w /\ o.started = t
      BY <2>1, <2>3, <3>1, <3>3, LaterSecond
    <3> QED
      BY <2>1, <3>1, <3>2, <3>3 DEF Renews
  <2>9. ScaleOK(d, new)
    <3> SUFFICES ASSUME c.at \in {"scaled", "reported"}, w # Scaled(c.req),
                        c.req.replicas <= MaxInt, ~c.watch.disturbed
                 PROVE  /\ c.at = "scaled" /\ new[Scaled(c.req)] # None
                             => new[Scaled(c.req)].replicas = c.req.replicas
                        /\ c.at = "reported" => c.replicas = c.req.replicas
      BY <2>2 DEF ScaleOK
    <3>1. c.req \in Scales
      BY CallFields
    <3>2. Scaled(c.req) \in Id
      BY <3>1, RequestFields DEF Scales, Scaled, Id, scalable, Kind
    <3> QED
      BY <2>1, <3>2 DEF CallOK, ScaleOK
  <2> QED
    BY <2>4, <2>5, <2>6, <2>7, <2>8, <2>9 DEF CallOK, d, new
<1> QED
  BY <1>1, <1>2

\* A step that only moves a call keeps the invariant if it holds of where the call goes.
LEMMA GoesOK ==
  ASSUME IInv, TypeOK', NEW h \in Handler, NEW c, Goes(h, c), UNCHANGED now,
         CallOK(c, workloads, now)
  PROVE  IInv'
<1>1. \A g \in Handler : call'[g] = IF g = h THEN c ELSE call[g]
  BY DEF IInv, TypeOK, Goes
<1>2. workloads' = workloads
  BY DEF Goes
<1> QED
  BY <1>1, <1>2 DEF IInv

\* One that writes a workload keeps it if the write makes nothing look older.
LEMMA WritesOK ==
  ASSUME IInv, TypeOK', NEW w \in Id, NEW o \in Workload \cup {None}, NEW h, NEW c,
         Writes(w, o, h, c), UNCHANGED now,
         WorkloadOK(o, now), Renews(workloads[w], o, now),
         h \in Handler => CallOK(c, workloads', now)
  PROVE  IInv'
<1>1. /\ workloads' = [workloads EXCEPT ![w] = o] /\ workloads \in [Id -> Workload \cup {None}]
      /\ now \in Nat /\ now' = now /\ \A g \in Handler : call[g] \in Call
  BY ConstantsAssumption DEF IInv, TypeOK, Writes
<1>2. \A v \in Id : workloads'[v] = IF v = w THEN o ELSE workloads[v]
  BY <1>1
<1>3. \A v \in Id : WorkloadOK(workloads[v], now)'
  <2>1. \A v \in Id : WorkloadOK(workloads'[v], now)
    BY <1>2 DEF IInv
  <2> QED
    BY <1>1, <2>1
<1>4. ASSUME NEW g \in Handler
      PROVE  CallOK(call[g], workloads, now)'
  <2>1. CASE g = h
    <3>1. call'[g] = c
      BY <2>1 DEF Writes
    <3> QED
      BY <1>1, <2>1, <3>1
  <2>2. CASE g # h
    <3>1. call'[g] = Watching(call[g], w, workloads')
      BY <2>2 DEF Writes
    <3>2. CallOK(Watching(call[g], w, workloads'), workloads', now)
      BY <1>1, WatchingOK DEF IInv
    <3> QED
      BY <1>1, <3>1, <3>2
  <2> QED
    BY <2>1, <2>2
<1> QED
  BY <1>3, <1>4 DEF IInv

\* A write that leaves the labels alone leaves alone what restarts are about.
LEMMA SameAbout ==
  ASSUME NEW ws, NEW new, NEW w, NEW o, o # None, ws[w] # None, o.matches = ws[w].matches,
         \A v \in Id : new[v] = IF v = w THEN o ELSE ws[v],
         NEW req
  PROVE  About(req, new) = About(req, ws)
BY DEF About

-----------------------------------------------------------------------------
(* The invariant holds: one lemma per step of a restart, one per other step.*)

\* The parts that a call has not come to, or that an action leaves as they are.
LEMMA FailedOK == \A ws, t : CallOK(Failed, ws, t)
BY DEF CallOK, WatchOK, LookOK, ActOK, StampOK, DoneOK, ScaleOK, Failed

LEMMA AskOK ==
  ASSUME IInv, TypeOK', NEW h \in Handler, Ask(h)
  PROVE  IInv'
<1>1. PICK req \in Requests :
        Goes(h, [at |-> "asked", req |-> req,
                 watch |-> [since |-> now, steady |-> About(req, workloads),
                            disturbed |-> FALSE]])
  BY DEF Ask
<1>. PICK c : c = [at |-> "asked", req |-> req,
                   watch |-> [since |-> now, steady |-> About(req, workloads),
                              disturbed |-> FALSE]]
  OBVIOUS
<1>2. c.at = "asked" /\ c.watch.since = now /\ c.watch.steady = About(c.req, workloads)
  OBVIOUS
<1>3. now \in Nat
  BY ConstantsAssumption DEF IInv, TypeOK
<1>4. CallOK(c, workloads, now)
  BY <1>2, <1>3 DEF CallOK, WatchOK, LookOK, ActOK, StampOK, DoneOK, ScaleOK
<1> QED
  BY <1>1, <1>4, GoesOK DEF Ask

\* The kinds to ask about are all that a steady workload may be of.
LEMMA StartRestartOK ==
  ASSUME IInv, TypeOK', NEW h \in Handler, StartRestart(h)
  PROVE  IInv'
<1>. PICK c : c = call[h]
  OBVIOUS
<1>1. /\ c \in Call /\ c.at = "asked" /\ c.req \in Requests
      /\ c.req.tool = "workloads_restart" /\ WatchOK(c, workloads, now)
      /\ now' = now
  BY CallFields DEF IInv, TypeOK, StartRestart, CallOK
<1>2. CASE c.req.kind = "other"
  BY <1>1, <1>2, FailedOK, GoesOK DEF StartRestart
<1>3. CASE c.req.kind # "other"
  <2>. PICK d : d = [at |-> "looking", req |-> c.req, watch |-> c.watch,
                     left |-> KindsToAsk(c.req), found |-> <<>>]
    OBVIOUS
  <2>1. /\ d.at = "looking" /\ d.req = c.req /\ d.watch = c.watch
        /\ d.left = KindsToAsk(c.req)
    OBVIOUS
  <2>2. LookOK(d)
    <3> SUFFICES ASSUME NEW w \in c.watch.steady, c.req.name = None \/ c.req.kind = None
                 PROVE  w.kind \in ToSet(KindsToAsk(c.req))
      BY <2>1 DEF LookOK
    <3>1. w \in Id /\ c.req.kind \in {None, w.kind}
      BY <1>1 DEF WatchOK, About
    <3>2. w.kind \in Kind
      BY <3>1 DEF Id
    <3>3. CASE c.req.kind = None
      <4>1. ToSet(probeOrder) = Kind
        BY DEF probeOrder, Kind, ToSet
      <4> QED
        BY <3>2, <3>3, <4>1 DEF KindsToAsk
    <3>4. CASE c.req.kind # None
      <4>1. ToSet(<<c.req.kind>>) = {c.req.kind}
        BY SingleElement
      <4> QED
        BY <3>1, <3>4, <4>1 DEF KindsToAsk
    <3> QED
      BY <3>3, <3>4
  <2>3. CallOK(d, workloads, now)
    BY <1>1, <2>1, <2>2 DEF CallOK, WatchOK, ActOK, StampOK, DoneOK, ScaleOK
  <2> QED
    BY <1>1, <1>3, <2>3, GoesOK DEF StartRestart
<1> QED
  BY <1>2, <1>3

\* A request finds every steady workload of its kind.
LEMMA LookStepOK ==
  ASSUME IInv, TypeOK', NEW h \in Handler, Look(h)
  PROVE  IInv'
<1>. PICK c : c = call[h]
  OBVIOUS
<1>. PICK seen : seen = {w \in About(c.req, workloads) : w.kind = Head(c.left)}
  OBVIOUS
<1>. PICK d : d = [c EXCEPT !.left = Tail(@), !.found = @ \o SetToSeq(seen)]
  OBVIOUS
<1>1. /\ c \in Call /\ c.at = "looking" /\ c.left # <<>>
      /\ CallOK(c, workloads, now) /\ now' = now /\ Goes(h, d)
  BY DEF IInv, TypeOK, Look
<1>2. c \in [at : {"looking"}, req : Restarts, watch : Watch,
             left : Seq(Kind), found : Seq(Id)]
  BY <1>1 DEF Call, Idle, Failed
<1>3. /\ d.at = "looking" /\ d.req = c.req /\ d.watch = c.watch
      /\ d.left = Tail(c.left) /\ d.found = c.found \o SetToSeq(seen)
  BY <1>2
<1>4. /\ ToSet(c.left) = {Head(c.left)} \cup ToSet(d.left)
      /\ ToSet(d.found) = ToSet(c.found) \cup seen
  <2>1. /\ ToSet(c.left) = {Head(c.left)} \cup ToSet(Tail(c.left))
        /\ ToSet(c.found \o SetToSeq(seen)) = ToSet(c.found) \cup seen
    BY <1>1, LookType
  <2> QED
    BY <1>3, <2>1
<1>5. LookOK(d)
  <2> SUFFICES ASSUME NEW w \in c.watch.steady, c.req.name = None \/ c.req.kind = None
               PROVE  w.kind \in ToSet(d.left) \/ w \in ToSet(d.found)
    BY <1>3 DEF LookOK
  <2>1. w \in About(c.req, workloads)
    BY <1>1 DEF CallOK, WatchOK
  <2>2. w.kind \in ToSet(c.left) \/ w \in ToSet(c.found)
    BY <1>1 DEF CallOK, LookOK
  <2> QED
    BY <1>4, <2>1, <2>2
<1>6. CallOK(d, workloads, now)
  BY <1>1, <1>3, <1>5 DEF CallOK, WatchOK, ActOK, StampOK, DoneOK, ScaleOK
<1> QED
  BY <1>1, <1>6, GoesOK

\* What is found is what to restart, unless it is ambiguous.
LEMMA ResolveOK ==
  ASSUME IInv, TypeOK', NEW h \in Handler, Resolve(h)
  PROVE  IInv'
<1>. PICK c : c = call[h]
  OBVIOUS
<1>. PICK queue : queue = ToRestart(c.req, c.found)
  OBVIOUS
<1>. PICK d : d = [at |-> "restarting", req |-> c.req, watch |-> c.watch,
                   left |-> queue, done |-> <<>>, stamp |-> None]
  OBVIOUS
<1>1. /\ c \in Call /\ c.at = "looking" /\ c.left = <<>>
      /\ CallOK(c, workloads, now) /\ now' = now
      /\ Goes(h, IF queue = <<>> THEN Failed ELSE d)
  BY DEF IInv, TypeOK, Resolve
<1>2. c.found \in Seq(Id) /\ c.req \in Restarts
  BY <1>1, CallFields
<1>3. CASE queue = <<>>
  BY <1>1, <1>3, FailedOK, GoesOK
<1>4. CASE queue # <<>>
  <2>1. /\ d.at = "restarting" /\ d.req = c.req /\ d.watch = c.watch
        /\ d.left = queue /\ d.done = <<>> /\ d.stamp = None
    OBVIOUS
  <2>2. ToSet(d.done) = {}
    BY <2>1 DEF ToSet
  <2>3. Acting(d) = ToSet(queue)
    BY <2>1, <2>2 DEF Acting
  <2>4. CASE c.req.name # None /\ c.req.kind # None
    <3>1. \A w \in c.watch.steady : w = Scaled(c.req)
      BY <1>1, <2>4 DEF CallOK, WatchOK, About, Scaled, Id
    <3>2. ToSet(queue) = {Scaled(c.req)}
      BY <2>4, SingleElement DEF ToRestart
    <3> QED
      BY <2>1, <2>3, <2>4, <3>1, <3>2,
         <1>1, <2>2, GoesOK, <1>4
      DEF CallOK, WatchOK, LookOK, ActOK, StampOK, DoneOK, ScaleOK
  <2>5. CASE c.req.name = None \/ c.req.kind = None
    <3>1. queue = c.found /\ (c.req.name # None => Len(c.found) <= 1)
      BY <1>2, <1>4, <2>5, EmptySeq, LenProperties DEF ToRestart
    <3>2. ToSet(c.left) = {}
      BY <1>1 DEF ToSet
    <3>3. \A w \in c.watch.steady : w \in ToSet(queue)
      BY <1>1, <2>5, <3>1, <3>2 DEF CallOK, LookOK
    <3>4. ASSUME c.req.name # None, NEW w \in ToSet(queue), NEW v \in ToSet(queue)
          PROVE  v = w
      BY <1>2, <3>1, <3>4, Elements, LenProperties
    <3>5. ActOK(d)
      BY <2>1, <2>3, <3>3, <3>4 DEF ActOK
    <3>6. CallOK(d, workloads, now)
      BY <1>1, <2>1, <2>2, <3>5 DEF CallOK, WatchOK, LookOK, StampOK, DoneOK, ScaleOK
    <3> QED
      BY <1>1, <1>4, <3>6, GoesOK
  <2> QED
    BY <2>4, <2>5
<1> QED
  BY <1>3, <1>4

\* The stamp of a patch is the second in which it is made.
LEMMA MakePatchOK ==
  ASSUME IInv, TypeOK', NEW h \in Handler, MakePatch(h)
  PROVE  IInv'
<1>. PICK c : c = call[h]
  OBVIOUS
<1>. PICK d : d = [c EXCEPT !.stamp = RFC3339(now)]
  OBVIOUS
<1>1. /\ c \in Call /\ c.at = "restarting" /\ CallOK(c, workloads, now)
      /\ now \in Nat /\ now' = now /\ Goes(h, d)
  BY ConstantsAssumption DEF IInv, TypeOK, MakePatch
<1>2. c \in [at : {"restarting"}, req : Restarts, watch : Watch,
             left : Seq(Id), done : Seq(Id), stamp : Nat \cup {None}]
  BY <1>1 DEF Call, Idle, Failed
<1>3. /\ d.at = "restarting" /\ d.req = c.req /\ d.watch = c.watch
      /\ d.left = c.left /\ d.done = c.done /\ d.stamp = RFC3339(now)
  BY <1>2
<1>4. /\ c.watch.since \div Second <= now \div Second
      /\ now \div Second <= now \div Second
  <2>1. c.watch.since \in Nat /\ c.watch.since <= now
    BY <1>1, <1>2 DEF Watch, CallOK, WatchOK
  <2> QED
    BY <1>1, <2>1, LaterSecond
<1>5. StampOK(d, now)
  BY <1>3, <1>4 DEF StampOK, RFC3339
<1>6. ActOK(d)
  BY <1>1, <1>3 DEF CallOK, ActOK, Acting
<1>7. CallOK(d, workloads, now)
  BY <1>1, <1>3, <1>5, <1>6 DEF CallOK, WatchOK, LookOK, DoneOK, ScaleOK
<1> QED
  BY <1>1, <1>7, GoesOK

\* A patch that is sent starts new pods, unless others have as young a stamp.
LEMMA SendPatchOK ==
  ASSUME IInv, TypeOK', NEW h \in Handler, SendPatch(h)
  PROVE  IInv'
<1>. PICK c : c = call[h]
  OBVIOUS
<1>. PICK w : w = Head(c.left)
  OBVIOUS
<1>. PICK d : d = Sent(c)
  OBVIOUS
<1>0. /\ workloads \in [Id -> Workload \cup {None}] /\ now \in Nat
      /\ \A v \in Id : WorkloadOK(workloads[v], now)
  BY ConstantsAssumption DEF IInv, TypeOK
<1>1. /\ c \in Call /\ c.at = "restarting" /\ c.left # <<>> /\ c.stamp # None
      /\ CallOK(c, workloads, now) /\ now' = now
  BY DEF IInv, TypeOK, SendPatch
<1>2. /\ w \in Id /\ c.stamp \in Nat /\ c.watch.since \in Nat
      /\ c.watch.since <= now
      /\ ToSet(c.done) \subseteq Id
  <2>1. /\ c.stamp \in Nat \cup {None} /\ c.watch \in Watch /\ c.done \in Seq(Id)
    BY <1>1, CallFields
  <2>2. ToSet(c.done) \subseteq Id
    BY <2>1, Elements, ElementOfSeq
  <2> QED
    BY <1>1, <2>1, <2>2, SendType DEF Watch, CallOK, WatchOK
<1>3. CASE Goes(h, Failed)
  BY <1>1, <1>3, FailedOK, GoesOK
<1>4. ASSUME workloads[w] # None, NEW answer \in {d, Failed},
             Writes(w, Stamped(workloads[w], c.stamp), h, answer)
      PROVE  IInv'
  <2>. PICK o : o = Stamped(workloads[w], c.stamp)
    OBVIOUS
  <2>1. workloads[w] \in Workload
    BY <1>0, <1>2, <1>4
  <2>2. /\ o \in Workload /\ o.matches = workloads[w].matches
        /\ \/ o = workloads[w] /\ o.stamp = c.stamp
           \/ o.stamp = c.stamp /\ o.started = now
    BY <1>0, <1>2, <2>1 DEF Stamped, Workload
  <2>3. c.watch.since \div Second <= c.stamp /\ c.stamp <= now \div Second
    BY <1>1 DEF CallOK, StampOK
  <2>4. /\ WorkloadOK(o, now) /\ c.stamp <= o.started \div Second
        /\ Renews(workloads[w], o, now)
    <3>1. CASE o = workloads[w] /\ o.stamp = c.stamp
      BY <1>0, <1>1, <1>2, <1>4, <3>1 DEF WorkloadOK, Renews
    <3>2. CASE o.stamp = c.stamp /\ o.started = now
      BY <1>0, <2>3, <3>2 DEF WorkloadOK, Renews
    <3> QED
      BY <2>2, <3>1, <3>2
  <2>5. /\ \A v \in Id : workloads'[v] = IF v = w THEN o ELSE workloads[v]
        /\ \A req : About(req, workloads') = About(req, workloads)
    <3>1. workloads' = [workloads EXCEPT ![w] = o]
      BY <1>4 DEF Writes
    <3>2. workloads[w] # None
      BY <1>4
    <3>3. ASSUME NEW req
          PROVE  About(req, workloads') = About(req, workloads)
      <4>1. o # None
        BY <2>2, NoneAssumption
      <4>2. \A v \in Id : workloads'[v] = IF v = w THEN o ELSE workloads[v]
        BY <1>0, <1>2, <3>1
      <4> QED
        BY <2>2, <3>2, <4>1, <4>2, SameAbout DEF About
    <3> QED
      BY <1>0, <3>1, <3>3
  <2>6. CallOK(d, workloads', now)
    <3>1. /\ d.at = "restarting" /\ d.stamp = None /\ d.req = c.req /\ d.watch = c.watch
          /\ ToSet(c.left) = {w} \cup ToSet(d.left)
          /\ ToSet(d.done) = ToSet(c.done) \cup {w}
      BY <1>1, SentFields, SendType
    <3>2. WatchOK(d, workloads', now)
      BY <1>1, <2>5, <3>1 DEF CallOK, WatchOK
    <3>3. Acting(d) = Acting(c)
      BY <1>1, <3>1 DEF Acting
    <3>4. ActOK(d)
      BY <1>1, <3>1, <3>3 DEF CallOK, ActOK
    <3>5. DoneOK(d, workloads')
      <4> SUFFICES ASSUME NEW v \in ToSet(d.done), workloads'[v] # None
                   PROVE  c.watch.since \div Second <= workloads'[v].started \div Second
        BY <3>1 DEF DoneOK
      <4>1. CASE v = w
        <5>1. o.started \in Nat
          BY <2>2 DEF Workload
        <5>2. c.watch.since \div Second \in Nat
          BY <1>2, SecondType
        <5>3. o.started \div Second \in Nat
          BY <5>1, SecondType
        <5>4. workloads'[v] = o
          BY <1>2, <2>5, <4>1
        <5>5. PICK a \in Nat : a = c.watch.since \div Second
          BY <5>2
        <5>6. PICK b \in Nat : b = o.started \div Second
          BY <5>3
        <5>7. a <= c.stamp /\ c.stamp <= b
          BY <2>3, <2>4, <5>5, <5>6
        <5>8. a <= b
          BY <1>2, <5>7
        <5> QED
          BY <5>4, <5>5, <5>6, <5>8
      <4>2. CASE v # w
        BY <1>1, <1>2, <2>5, <3>1, <4>2 DEF CallOK, DoneOK
      <4> QED
        BY <4>1, <4>2
    <3> QED
      BY <3>1, <3>2, <3>4, <3>5 DEF CallOK, LookOK, StampOK, ScaleOK
  <2>7. CallOK(answer, workloads', now)
    BY <1>4, <2>6, FailedOK
  <2> QED
    BY <1>1, <1>2, <1>4, <2>2, <2>4, <2>7, WritesOK
<1> QED
  BY <1>1, <1>3, <1>4 DEF SendPatch, Sent

\* The answer tells of all that is done.
LEMMA FinishRestartOK ==
  ASSUME IInv, TypeOK', NEW h \in Handler, FinishRestart(h)
  PROVE  IInv'
<1>. PICK c : c = call[h]
  OBVIOUS
<1>. PICK d : d = [at |-> "restarted", req |-> c.req, watch |-> c.watch, done |-> c.done]
  OBVIOUS
<1>1. /\ c \in Call /\ c.at = "restarting" /\ c.left = <<>>
      /\ CallOK(c, workloads, now) /\ now' = now
      /\ Goes(h, Failed) \/ Goes(h, d)
  BY DEF IInv, TypeOK, FinishRestart
<1>2. /\ d.at = "restarted" /\ d.req = c.req /\ d.watch = c.watch /\ d.done = c.done
  OBVIOUS
<1>3. Acting(d) = Acting(c)
  <2>1. ToSet(c.left) = {}
    BY <1>1 DEF ToSet
  <2> QED
    BY <1>1, <1>2, <2>1 DEF Acting
<1>4. CallOK(d, workloads, now)
  BY <1>1, <1>2, <1>3 DEF CallOK, WatchOK, LookOK, ActOK, StampOK, DoneOK, ScaleOK
<1> QED
  BY <1>1, <1>4, FailedOK, GoesOK

\* A scale that is done has the count that was asked for, if that fits.
LEMMA UpdateScaleOK ==
  ASSUME IInv, TypeOK', NEW h \in Handler, UpdateScale(h)
  PROVE  IInv'
<1>. PICK c : c = call[h]
  OBVIOUS
<1>. PICK w : w = Scaled(c.req)
  OBVIOUS
<1>. PICK n : n = Int32(c.req.replicas)
  OBVIOUS
<1>. PICK d : d = [c EXCEPT !.at = "scaled"]
  OBVIOUS
<1>0. /\ workloads \in [Id -> Workload \cup {None}] /\ now \in Nat
      /\ \A v \in Id : WorkloadOK(workloads[v], now)
  BY ConstantsAssumption DEF IInv, TypeOK
<1>1. /\ c \in Call /\ c.at = "asked" /\ c.req.tool = "workloads_scale"
      /\ c.req \in Requests /\ CallOK(c, workloads, now) /\ now' = now
  BY CallFields DEF IInv, TypeOK, UpdateScale
<1>2. CASE Goes(h, Failed)
  BY <1>1, <1>2, FailedOK, GoesOK
<1>3. ASSUME ~(c.req.replicas < 0), c.req.kind \in scalable, workloads[w] # None, ~(n < 0),
             NEW answer \in {d, Failed},
             Writes(w, [workloads[w] EXCEPT !.replicas = n], h, answer)
      PROVE  IInv'
  <2>. PICK o : o = [workloads[w] EXCEPT !.replicas = n]
    OBVIOUS
  <2>1. w \in Id /\ c.req.replicas \in Int
    BY <1>1, <1>3, RequestFields DEF Scaled, Id, scalable, Kind
  <2>2. n \in 0..MaxInt /\ (c.req.replicas <= MaxInt => n = c.req.replicas)
    BY <1>3, <2>1, Int32Facts, WidthAssumption
  <2>3. workloads[w] \in Workload
    BY <1>0, <1>3, <2>1
  <2>4. /\ o \in Workload /\ o.matches = workloads[w].matches /\ o.replicas = n
        /\ o.started = workloads[w].started /\ o.stamp = workloads[w].stamp
    BY <2>2, <2>3 DEF Workload
  <2>5. WorkloadOK(o, now) /\ Renews(workloads[w], o, now)
    BY <1>0, <1>3, <2>1, <2>4 DEF WorkloadOK, Renews
  <2>6. /\ workloads'[w] = o
        /\ \A req : About(req, workloads') = About(req, workloads)
    <3>1. workloads' = [workloads EXCEPT ![w] = o]
      BY <1>3 DEF Writes
    <3>2. workloads[w] # None
      BY <1>3
    <3>3. ASSUME NEW req
          PROVE  About(req, workloads') = About(req, workloads)
      <4>1. o # None
        BY <2>4, NoneAssumption
      <4>2. \A v \in Id : workloads'[v] = IF v = w THEN o ELSE workloads[v]
        BY <1>0, <2>1, <3>1
      <4> QED
        BY <2>4, <3>2, <4>1, <4>2, SameAbout DEF About
    <3>4. workloads'[w] = o
      BY <1>0, <2>1, <3>1
    <3> QED
      BY <3>3, <3>4
  <2>7. d.at = "scaled" /\ d.req = c.req /\ d.watch = c.watch
    <3>1. c \in [at : {"asked"}, req : Requests, watch : Watch]
      BY <1>1 DEF Call, Idle, Failed
    <3> QED
      BY <3>1
  <2>8. WatchOK(d, workloads', now)
    BY <1>1, <2>6, <2>7 DEF CallOK, WatchOK
  <2>9. ScaleOK(d, workloads')
    BY <2>2, <2>4, <2>6, <2>7 DEF ScaleOK
  <2>10. CallOK(d, workloads', now)
    BY <2>7, <2>8, <2>9 DEF CallOK, LookOK, ActOK, StampOK, DoneOK
  <2>11. CallOK(answer, workloads', now)
    BY <1>3, <2>10, FailedOK
  <2> QED
    BY <1>1, <1>3, <2>1, <2>4, <2>5, <2>11, WritesOK
<1> QED
  BY <1>1, <1>2, <1>3 DEF UpdateScale

LEMMA GetScaledOK ==
  ASSUME IInv, TypeOK', NEW h \in Handler, GetScaled(h)
  PROVE  IInv'
<1>. PICK c : c = call[h]
  OBVIOUS
<1>. PICK w : w = Scaled(c.req)
  OBVIOUS
<1>. PICK d : d = [at |-> "reported", req |-> c.req, watch |-> c.watch,
                   replicas |-> workloads[w].replicas]
  OBVIOUS
<1>1. /\ c \in Call /\ c.at = "scaled" /\ CallOK(c, workloads, now) /\ now' = now
      /\ Goes(h, IF workloads[w] = None THEN Failed ELSE d)
  BY DEF IInv, TypeOK, GetScaled
<1>2. CASE workloads[w] = None
  BY <1>1, <1>2, FailedOK, GoesOK
<1>3. CASE workloads[w] # None
  <2>1. /\ d.at = "reported" /\ d.req = c.req /\ d.watch = c.watch
        /\ d.replicas = workloads[w].replicas
    OBVIOUS
  <2>2. ScaleOK(d, workloads)
    BY <1>1, <1>3, <2>1 DEF CallOK, ScaleOK
  <2>3. CallOK(d, workloads, now)
    BY <1>1, <2>1, <2>2 DEF CallOK, WatchOK, LookOK, ActOK, StampOK, DoneOK
  <2> QED
    BY <1>1, <1>3, <2>3, GoesOK
<1> QED
  BY <1>2, <1>3

\* What others make of a workload is as young as it looks.
LEMMA OthersOK ==
  ASSUME IInv, TypeOK', Others
  PROVE  IInv'
<1>0. /\ workloads \in [Id -> Workload \cup {None}] /\ now \in Nat /\ TypeOK
      /\ \A v \in Id : WorkloadOK(workloads[v], now)
  BY ConstantsAssumption DEF IInv, TypeOK
<1>a. PICK w \in Id :
           \E o \in Rewritten(w, workloads[w]) :
              Writes(w, o, None, None) /\ now' = now
  BY DEF Others
<1>1. PICK o \in Rewritten(w, workloads[w]) :
           Writes(w, o, None, None) /\ now' = now
  BY <1>a
<1>2. o \in Workload \cup {None}
  BY <1>0, RewrittenType
<1>3. WorkloadOK(o, now) /\ Renews(workloads[w], o, now)
  <2>1. CASE workloads[w] = None
    <3>1. o.started = now /\ o.stamp = None
      BY <1>1, <2>1 DEF Rewritten, New
    <3> QED
      BY <1>0, <3>1 DEF WorkloadOK, Renews
  <2>2. CASE workloads[w] # None
    <3>1. workloads[w] \in Workload
      BY <1>0, <2>2
    <3>2. \/ o = None
          \/ o.started = workloads[w].started /\ o.stamp = workloads[w].stamp
          \/ o.started = now /\ o.stamp = None
      BY <1>1, <2>2, <3>1 DEF Rewritten, Workload
    <3> QED
      BY <1>0, <1>1, <2>2, <3>2 DEF WorkloadOK, Renews
  <2> QED
    BY <2>1, <2>2
<1> QED
  BY <1>1, <1>2, <1>3, NoneAssumption, WritesOK

LEMMA TickOK ==
  ASSUME IInv, TypeOK', Tick
  PROVE  IInv'
<1>1. /\ now \in Nat /\ now' = now + 1 /\ UNCHANGED <<workloads, call>>
      /\ TypeOK
  BY ConstantsAssumption DEF IInv, TypeOK, Tick
<1>2. ASSUME NEW w \in Id
      PROVE  WorkloadOK(workloads[w], now)'
  <2>1. workloads[w] # None => workloads[w].started \in Nat
    BY <1>1 DEF TypeOK, Workload
  <2>2. WorkloadOK(workloads[w], now)
    BY DEF IInv
  <2> QED
    BY <1>1, <2>1, <2>2 DEF WorkloadOK
<1>3. ASSUME NEW h \in Handler
      PROVE  CallOK(call[h], workloads, now)'
  <2>. PICK c : c = call[h]
    OBVIOUS
  <2>1. CallOK(c, workloads, now) /\ c \in Call
    BY <1>1 DEF IInv, TypeOK
  <2>2. now \div Second <= (now + 1) \div Second /\ now \div Second \in Nat
        /\ (now + 1) \div Second \in Nat
    BY <1>1, LaterSecond
  <2>3. WatchOK(c, workloads, now + 1)
    BY <1>1, <2>1, CallFields DEF CallOK, WatchOK, Watch
  <2>4. StampOK(c, now + 1)
    BY <1>1, <2>1, <2>2, CallFields DEF CallOK, StampOK
  <2>5. CallOK(c, workloads, now + 1)
    BY <2>1, <2>3, <2>4 DEF CallOK
  <2> QED
    BY <1>1, <2>5
<1> QED
  BY <1>2, <1>3 DEF IInv

LEMMA IInvStep ==
  ASSUME IInv, TypeOK', [Next]_vars
  PROVE  IInv'
<1>1. ASSUME NEW h \in Handler, RequestFails(h)
      PROVE  IInv'
  BY <1>1, FailedOK, GoesOK DEF RequestFails
<1>2. CASE UNCHANGED vars
  BY <1>2 DEF vars, IInv
<1> QED
  BY <1>1, <1>2, AskOK, StartRestartOK, LookStepOK, ResolveOK, MakePatchOK, SendPatchOK,
     FinishRestartOK, UpdateScaleOK, GetScaledOK, OthersOK, TickOK
  DEF Next, Restart, Scale

THEOREM InductiveInvariant == Spec => []IInv
<1>1. Init /\ TypeOK => IInv
  <2> SUFFICES ASSUME Init, TypeOK PROVE IInv
    OBVIOUS
  <2>1. \A w \in Id : WorkloadOK(workloads[w], now)
    BY DEF Init, New, WorkloadOK
  <2>2. \A h \in Handler : CallOK(call[h], workloads, now)
    BY DEF Init, CallOK, WatchOK, LookOK, ActOK, StampOK, DoneOK, ScaleOK, Idle
  <2> QED
    BY <2>1, <2>2 DEF IInv
<1>2. IInv /\ TypeOK' /\ [Next]_vars => IInv'
  BY IInvStep
<1> QED
  BY <1>1, <1>2, TypeCorrect, PTL DEF Spec

-----------------------------------------------------------------------------
(* What follows.                                                           *)

\* A restart by a name without a kind acts on nothing beside a workload of that name
\* that was there all the time.
THEOREM Unambiguous == Spec => []NoAmbiguousRestart
<1>1. IInv => NoAmbiguousRestart
  <2> DEFINE Acted(h) == IF call[h].at = "restarted" THEN call[h].done
                         ELSE call[h].done \o call[h].left
  <2> SUFFICES ASSUME IInv, NEW h \in Handler,
                      call[h].at \in {"restarting", "restarted"},
                      call[h].req.name # None, call[h].req.kind = None,
                      NEW w \in call[h].watch.steady, NEW i \in DOMAIN Acted(h)
               PROVE  Acted(h)[i] = w
    BY Zenon DEF NoAmbiguousRestart
  <2>. PICK c : c = call[h]
    OBVIOUS
  <2>. PICK acted : acted = Acted(h)
    OBVIOUS
  <2>1. Acting(c) \subseteq {w}
    BY DEF IInv, CallOK, ActOK
  <2>2. c \in Call
    BY DEF IInv, TypeOK
  <2>3. ToSet(acted) = Acting(c)
    <3>1. CASE c.at = "restarted"
      BY <3>1 DEF Acting
    <3>2. CASE c.at = "restarting"
      BY <2>2, <3>2, CallFields, ConcatElements DEF Acting
    <3> QED
      BY <3>1, <3>2
  <2>4. acted[i] \in ToSet(acted)
    BY DEF ToSet
  <2> QED
    BY <2>1, <2>3, <2>4
<1> QED
  BY <1>1, InductiveInvariant, PTL

\* A restart that succeeds has missed no workload that was there all the time, and all
\* it was about runs pods started since the second in which it was asked.
THEOREM RestartComplete == Spec => []RestartedSinceAsked
<1>1. IInv => RestartedSinceAsked
  <2> SUFFICES ASSUME IInv, NEW h \in Handler, call[h].at = "restarted",
                      NEW w \in call[h].watch.steady \cup ToSet(call[h].done),
                      workloads[w] # None
               PROVE  workloads[w].started \div Second >= call[h].watch.since \div Second
    BY DEF RestartedSinceAsked
  <2>. PICK c : c = call[h]
    OBVIOUS
  <2>1. c \in Call /\ ActOK(c) /\ DoneOK(c, workloads)
    BY DEF IInv, TypeOK, CallOK
  <2>2. w \in ToSet(c.done)
    BY <2>1 DEF ActOK, Acting
  <2>3. c.watch.since \div Second <= workloads[w].started \div Second
    BY <2>1, <2>2 DEF DoneOK
  <2>4. w \in Id /\ c.watch.since \in Nat
    BY <2>1, <2>2, CallFields, Elements, ElementOfSeq DEF Watch
  <2>5. workloads[w].started \in Nat
    BY <2>4 DEF IInv, TypeOK, Workload
  <2> QED
    BY <2>3, <2>4, <2>5, LaterSecond
<1> QED
  BY <1>1, InductiveInvariant, PTL

\* A scale that succeeds reports the count it was asked for, unless no int32 holds it or
\* somebody else wrote the workload in between.
THEOREM ScaleHonest == Spec => []ScaleReportsItsEffect
<1>1. IInv => ScaleReportsItsEffect
  BY DEF IInv, CallOK, ScaleOK, ScaleReportsItsEffect
<1> QED
  BY <1>1, InductiveInvariant, PTL

=============================================================================
