------------------------- MODULE HelmReleasesProofs -------------------------
(***************************************************************************)
(* Proofs about HelmReleases.  The invariant relates what a call has read  *)
(* to the history: nobody shortens a history but to uninstall it, a        *)
(* revision keeps its content and its age whoever writes it, and of a      *)
(* history that nobody else has written since then a call knows the end.   *)
(***************************************************************************)
EXTENDS HelmReleases, SequenceTheorems, TLAPS

-----------------------------------------------------------------------------
(* The invariant, about a call c and a history s.                          *)

\* What a call is about is still there, or the release is uninstalled.
NewerOK(c, s) ==
  /\ c.at \in {"asked", "marking", "chosen"} => s = <<>> \/ c.base <= Len(s)
  /\ c.at \in {"rolling", "rolled"} => s = <<>> \/ c.base < Len(s)
  /\ c.at = "answered" => c.new_revision > c.base

\* The revision to mark was stuck when it was read, and has its content and its age
\* since then.
MarkOK(c, s) ==
  c.at = "marking" =>
    /\ c.version > 1
    /\ s = <<>> \/ /\ c.version <= Len(s) /\ s[c.version].age = 2
                   /\ s[c.version].content = c.release.content

\* The history is the one at which the rollback was asked for, and its new revision n.
RolledOn(c, s, n) ==
  /\ c.base > 1 /\ n = c.base + 1 /\ Len(s) = n
  /\ s[n].content = s[c.base - 1].content

\* What is wrong with a release stays wrong as it grows older.
Advised(advice, release) ==
  /\ advice = "rollbackOrFix" => release.status = "failed"
  /\ advice = "safeToRetryOrRollback" =>
       release.status = "pending-upgrade" /\ release.age = 2

\* What a call knows that nobody has disturbed.
Undisturbed(c, s) ==
  /\ c.at = "listing" => s # <<>> /\ c.release = s[Len(s)]
  /\ c.at = "advised" => s # <<>> /\ Advised(c.advice, s[Len(s)])
  /\ c.at = "asked" => c.base = Len(s)
  /\ c.at = "marking" => c.version = Len(s) /\ s[Len(s)].status \in begun
  /\ c.at = "marked" => Len(s) > 1 /\ s[Len(s)].status = "deployed"
  /\ c.at = "chosen" => c.base = Len(s) /\ c.base > 1 /\ c.target = c.base - 1
  /\ c.at = "rolling" => RolledOn(c, s, c.version)
  /\ c.at = "rolled" => RolledOn(c, s, Len(s)) /\ s[Len(s)].status = "deployed"
  /\ c.at = "answered" => RolledOn(c, s, c.new_revision)
                          /\ s[Len(s)].status = "deployed"

Watched == {"listing", "advised", "asked", "marking", "chosen", "rolling", "rolled",
            "marked", "answered"}

CallOK(c, s) == /\ NewerOK(c, s) /\ MarkOK(c, s)
                /\ c.at \in Watched /\ ~c.disturbed => Undisturbed(c, s)

\* The first revision was made by an install.
HistoryOK(s) == s # <<>> => s[1].status \notin begun

IInv == /\ TypeOK
        /\ HistoryOK(history)
        /\ \A h \in Handler : CallOK(call[h], history)

-----------------------------------------------------------------------------
(* What becomes of a history.                                              *)

\* From s to t a history is uninstalled, or keeps its revisions, their contents and
\* their ages.
Followed(s, t) ==
  \/ t = <<>>
  \/ /\ s # <<>> /\ Len(s) <= Len(t)
     /\ \A u \in 1..Len(s) : t[u].age = s[u].age /\ t[u].content = s[u].content

HistoryStep(new) == /\ new \in Seq(Release) /\ Len(new) <= MaxRevision
                    /\ Followed(history, new)
                    /\ HistoryOK(history) => HistoryOK(new)

LEMMA HistoryFacts ==
  ASSUME TypeOK
  PROVE  /\ current \in Nat /\ current <= MaxRevision /\ MaxRevision \in Nat
         /\ history \in [1..current -> Release] /\ DOMAIN history = 1..current
         /\ history = <<>> <=> current = 0
BY LenProperties, EmptySeq, ConstantsAssumption DEF TypeOK, current

\* Writing some revisions, but no content, no age and no new sign of work under way.
LEMMA Rewrites ==
  ASSUME TypeOK, NEW new \in [1..current -> Release],
         \A u \in 1..current :
           /\ new[u].age = history[u].age /\ new[u].content = history[u].content
           /\ new[u].status \in begun => new[u].status = history[u].status
  PROVE  HistoryStep(new) /\ Len(new) = current
<1>1. /\ current \in Nat /\ current <= MaxRevision
      /\ history = <<>> <=> current = 0
  BY HistoryFacts
<1>2. new \in Seq(Release)
  BY <1>1, SeqDef
<1>3. Len(new) = current /\ (new = <<>> <=> current = 0)
  BY <1>1, <1>2, LenProperties, EmptySeq
<1>4. Followed(history, new)
  BY <1>1, <1>3 DEF Followed, current
<1>5. HistoryOK(history) => HistoryOK(new)
  BY <1>1, <1>3 DEF HistoryOK, current
<1> QED
  BY <1>1, <1>2, <1>3, <1>4, <1>5 DEF HistoryStep

\* One revision gets another status that is no sign of work under way.
LEMMA RewritesOne ==
  ASSUME TypeOK, NEW v \in 1..current, NEW r \in Release,
         r.age = history[v].age, r.content = history[v].content, r.status \notin begun
  PROVE  /\ HistoryStep([history EXCEPT ![v] = r])
         /\ Len([history EXCEPT ![v] = r]) = current
<1>. PICK new : new = [history EXCEPT ![v] = r]
  OBVIOUS
<1>1. history \in [1..current -> Release]
  BY HistoryFacts
<1>2. /\ new \in [1..current -> Release]
      /\ \A u \in 1..current : new[u] = IF u = v THEN r ELSE history[u]
  BY <1>1
<1> QED
  BY <1>2, Rewrites

LEMMA DeploysFacts ==
  ASSUME TypeOK, NEW v \in 1..current
  PROVE  /\ HistoryStep(Deploys(v)) /\ Len(Deploys(v)) = current
         /\ \A u \in 1..current : Deploys(v)[u].content = history[u].content
         /\ Deploys(v)[v].status = "deployed"
<1>. PICK new : new = Deploys(v)
  OBVIOUS
<1>1. history \in [1..current -> Release] /\ DOMAIN history = 1..current
  BY HistoryFacts
<1>2. ASSUME NEW u \in 1..current
      PROVE  /\ new[u] \in Release
             /\ new[u].age = history[u].age /\ new[u].content = history[u].content
             /\ new[u].status \in begun => new[u].status = history[u].status
             /\ u = v => new[u].status = "deployed"
  <2>1. history[u] \in [content : Content, status : Status, age : 0..2]
    BY <1>1 DEF Release
  <2>2. new[u] = IF u = v THEN [history[u] EXCEPT !.status = "deployed"]
                 ELSE IF history[u].status = "deployed"
                        THEN [history[u] EXCEPT !.status = "superseded"]
                        ELSE history[u]
    BY <1>1 DEF Deploys
  <2> QED
    BY <2>1, <2>2 DEF Release, Status, begun
<1>3. new \in [1..current -> Release]
  BY <1>1, <1>2 DEF Deploys
<1> QED
  BY <1>2, <1>3, Rewrites

LEMMA MarkedFacts ==
  ASSUME TypeOK, NEW v \in 1..current
  PROVE  LET new == [history EXCEPT ![v].status = "deployed"]
         IN  /\ HistoryStep(new) /\ Len(new) = current /\ new[v].status = "deployed"
             /\ new = [history EXCEPT ![v].content = history[v].content,
                                      ![v].status = "deployed"]
<1>. PICK new : new = [history EXCEPT ![v].status = "deployed"]
  OBVIOUS
<1>1. history \in [1..current -> Release]
  BY HistoryFacts
<1>2. history[v] \in [content : Content, status : Status, age : 0..2]
  BY <1>1 DEF Release
<1>. PICK r : r = [history[v] EXCEPT !.status = "deployed"]
  OBVIOUS
<1>3. /\ r \in Release /\ r.age = history[v].age /\ r.content = history[v].content
      /\ r.status = "deployed"
  BY <1>2 DEF Release, Status
<1>4. new = [history EXCEPT ![v] = r]
  BY <1>1
<1>5. new[v] = r
  BY <1>1, <1>4
<1>6. [history[v] EXCEPT !.content = history[v].content, !.status = "deployed"] = r
  BY <1>2
<1>7. new = [history EXCEPT ![v].content = history[v].content, ![v].status = "deployed"]
  BY <1>1, <1>4, <1>6
<1>8. r.status \notin begun
  BY <1>3 DEF begun
<1>9. HistoryStep([history EXCEPT ![v] = r]) /\ Len([history EXCEPT ![v] = r]) = current
  BY <1>3, <1>8, RewritesOne
<1> QED
  BY <1>3, <1>4, <1>5, <1>7, <1>9

LEMMA FailsFacts ==
  ASSUME TypeOK, NEW v \in 1..current
  PROVE  /\ HistoryStep([history EXCEPT ![v].status = "failed"])
         /\ HistoryStep([history EXCEPT ![v].status = "failed",
                                        ![v - 1].status = "superseded"])
<1>1. history \in [1..current -> Release] /\ current \in Nat
  BY HistoryFacts
<1>. PICK r : r = [history[v] EXCEPT !.status = "failed"]
  OBVIOUS
<1>2. /\ r \in Release /\ r.age = history[v].age /\ r.content = history[v].content
      /\ r.status = "failed"
  BY <1>1 DEF Release, Status
<1>. PICK one : one = [history EXCEPT ![v] = r]
  OBVIOUS
<1>3. [history EXCEPT ![v].status = "failed"] = one
  BY <1>1
<1>4. HistoryStep(one)
  BY <1>2, RewritesOne DEF begun
<1>5. one \in [1..current -> Release]
      /\ \A u \in 1..current : one[u] = IF u = v THEN r ELSE history[u]
  BY <1>1, <1>2
<1>. PICK p : p = [one[v - 1] EXCEPT !.status = "superseded"]
  OBVIOUS
<1>. PICK two : two = [one EXCEPT ![v - 1] = p]
  OBVIOUS
<1>6. [history EXCEPT ![v].status = "failed", ![v - 1].status = "superseded"] = two
  BY <1>3
<1>7. CASE v = 1
  <2>1. v - 1 \notin 1..current
    BY <1>7
  <2>2. two = one
    BY <1>5, <2>1
  <2> QED
    BY <1>3, <1>4, <1>6, <2>2
<1>8. CASE v # 1
  <2>1. v - 1 \in 1..current /\ v - 1 # v
    BY <1>1, <1>8
  <2>2. one[v - 1] = history[v - 1] /\ history[v - 1] \in Release
    BY <1>1, <1>5, <2>1
  <2>3. /\ p \in Release /\ p.age = history[v - 1].age
        /\ p.content = history[v - 1].content /\ p.status = "superseded"
    BY <2>2 DEF Release, Status
  <2>4. /\ two \in [1..current -> Release]
        /\ \A u \in 1..current : two[u] = IF u = v - 1 THEN p ELSE one[u]
    BY <1>5, <2>1, <2>3
  <2>5. HistoryStep(two)
    BY <1>2, <1>5, <2>3, <2>4, Rewrites DEF begun
  <2> QED
    BY <1>3, <1>4, <1>6, <2>5
<1> QED
  BY <1>7, <1>8

LEMMA PendsFacts ==
  ASSUME TypeOK, history # <<>>, current < MaxRevision,
         NEW content \in Content, NEW status \in begun
  PROVE  /\ HistoryStep(Pends(content, status))
         /\ Len(Pends(content, status)) = current + 1
         /\ \A u \in 1..current : Pends(content, status)[u] = history[u]
         /\ Pends(content, status)[current + 1].content = content
<1>. PICK r : r = [content |-> content, status |-> status, age |-> 0]
  OBVIOUS
<1>. PICK new : new = Append(history, r)
  OBVIOUS
<1>1. new = Pends(content, status)
  BY DEF Pends
<1>2. r \in Release /\ r.content = content
  BY DEF Release, Status, begun
<1>3. current \in Nat /\ MaxRevision \in Nat /\ current # 0 /\ history \in Seq(Release)
  BY HistoryFacts DEF TypeOK
<1>4. /\ new \in Seq(Release) /\ Len(new) = current + 1 /\ new[current + 1] = r
      /\ \A u \in 1..current : new[u] = history[u]
  BY <1>2, <1>3, AppendProperties DEF current
<1>5. Followed(history, new) /\ (HistoryOK(history) => HistoryOK(new))
  BY <1>3, <1>4 DEF Followed, HistoryOK, current
<1>6. HistoryStep(new)
  BY <1>3, <1>4, <1>5 DEF HistoryStep
<1> QED
  BY <1>1, <1>2, <1>4, <1>6

LEMMA SameHistory ==
  ASSUME TypeOK
  PROVE  HistoryStep(history) /\ HistoryStep(<<>>)
BY EmptySeq, HistoryFacts DEF HistoryStep, Followed, HistoryOK, TypeOK, current

-----------------------------------------------------------------------------
(* Calls.                                                                  *)

CallIs(c) ==
  \/ c \in {Idle, Failed} \cup [at : {"status"}]
  \/ c \in [at : {"listing"}, disturbed : BOOLEAN, release : Release]
  \/ c \in [at : {"advised"}, disturbed : BOOLEAN, advice : Advice]
  \/ c \in [at : {"asked", "rolled", "marked"}, base : 0..MaxRevision, disturbed : BOOLEAN]
  \/ c \in [at : {"marking"}, base : 0..MaxRevision, disturbed : BOOLEAN,
            version : Revision, release : Release]
  \/ c \in [at : {"chosen"}, base : 0..MaxRevision, disturbed : BOOLEAN,
            target : Revision]
  \/ c \in [at : {"rolling"}, base : 0..MaxRevision, disturbed : BOOLEAN,
            version : Revision]
  \/ c \in [at : {"answered"}, base : 0..MaxRevision, disturbed : BOOLEAN,
            new_revision : Revision]

LEMMA CallShape ==
  ASSUME NEW c \in Call
  PROVE  CallIs(c)
BY DEF Call, CallIs

\* What a call carries, by where it is.
LEMMA CallFields ==
  ASSUME NEW c \in Call
  PROVE  /\ c.at \in Watched => c.disturbed \in BOOLEAN
         /\ c.at \in {"asked", "marking", "chosen", "rolling", "rolled", "answered"}
            => c.base \in 0..MaxRevision
         /\ c.at \in {"listing", "marking"} => c.release \in Release
         /\ c.at \in {"marking", "rolling"} => c.version \in Revision
         /\ c.at = "chosen" => c.target \in Revision
         /\ c.at = "answered" => c.new_revision \in Revision
         /\ c.at \in Watched \/ c \in {Idle, Failed, [at |-> "status"]}
BY CallShape DEF CallIs, Idle, Failed, Watched

\* Another's write leaves a call as it is, and disturbs it.
LEMMA WatchingFields ==
  ASSUME NEW c \in Call
  PROVE  /\ Watching(c) \in Call /\ Watching(c).at = c.at
         /\ c.at \in Watched => Watching(c).disturbed
         /\ c.at \in {"asked", "marking", "chosen", "rolling", "rolled", "answered"}
            => Watching(c).base = c.base
         /\ c.at = "marking" => /\ Watching(c).release = c.release
                                /\ Watching(c).version = c.version
         /\ c.at = "answered" => Watching(c).new_revision = c.new_revision
<1>1. CASE c \in {Idle, Failed} \cup [at : {"status"}]
  BY <1>1 DEF Watching, Idle, Failed, Watched
<1>2. CASE c \in [at : {"listing"}, disturbed : BOOLEAN, release : Release]
  BY <1>2 DEF Watching, Call, Watched
<1>3. CASE c \in [at : {"advised"}, disturbed : BOOLEAN, advice : Advice]
  BY <1>3 DEF Watching, Call, Watched
<1>4. CASE c \in [at : {"asked", "rolled", "marked"}, base : 0..MaxRevision,
                  disturbed : BOOLEAN]
  BY <1>4 DEF Watching, Call, Watched
<1>5. CASE c \in [at : {"marking"}, base : 0..MaxRevision, disturbed : BOOLEAN,
                  version : Revision, release : Release]
  BY <1>5 DEF Watching, Call, Watched
<1>6. CASE c \in [at : {"chosen"}, base : 0..MaxRevision, disturbed : BOOLEAN,
                  target : Revision]
  BY <1>6 DEF Watching, Call, Watched
<1>7. CASE c \in [at : {"rolling"}, base : 0..MaxRevision, disturbed : BOOLEAN,
                  version : Revision]
  BY <1>7 DEF Watching, Call, Watched
<1>8. CASE c \in [at : {"answered"}, base : 0..MaxRevision, disturbed : BOOLEAN,
                  new_revision : Revision]
  BY <1>8 DEF Watching, Call, Watched
<1> QED
  BY <1>1, <1>2, <1>3, <1>4, <1>5, <1>6, <1>7, <1>8, CallShape DEF CallIs

LEMMA QuietOK ==
  ASSUME NEW c \in {Idle, Failed, [at |-> "status"]}, NEW s
  PROVE  c \in Call /\ CallOK(c, s)
BY DEF Call, Idle, Failed, CallOK, NewerOK, MarkOK, Watched

\* What a call is about is still there after another's write.
LEMMA WatchingOK ==
  ASSUME TypeOK, NEW c \in Call, CallOK(c, history), NEW new, HistoryStep(new)
  PROVE  Watching(c) \in Call /\ CallOK(Watching(c), new)
<1>. PICK d : d = Watching(c)
  OBVIOUS
<1>1. /\ d \in Call /\ d.at = c.at
      /\ c.at \in Watched => d.disturbed
      /\ c.at \in {"asked", "marking", "chosen", "rolling", "rolled", "answered"}
         => d.base = c.base /\ c.base \in 0..MaxRevision
      /\ c.at = "marking" => /\ d.release = c.release /\ d.version = c.version
                             /\ c.version \in Nat
      /\ c.at = "answered" => d.new_revision = c.new_revision
  BY WatchingFields, CallFields DEF Revision
<1>2. /\ Len(new) \in Nat /\ Len(history) \in Nat /\ MaxRevision \in Nat
      /\ Followed(history, new)
  BY HistoryFacts, LenProperties DEF HistoryStep, current
<1>3. NewerOK(d, new)
  BY <1>1, <1>2 DEF CallOK, NewerOK, Followed
<1>4. MarkOK(d, new)
  BY <1>1, <1>2 DEF CallOK, MarkOK, Followed
<1> QED
  BY <1>1, <1>3, <1>4 DEF CallOK

\* Nobody's history changes as a handler goes on.
LEMMA GoesOK ==
  ASSUME IInv, NEW h \in Handler, NEW c \in Call, CallOK(c, history), Goes(h, c)
  PROVE  IInv'
<1>1. call \in [Handler -> Call]
  BY DEF IInv, TypeOK
<1>2. /\ call' \in [Handler -> Call]
      /\ \A g \in Handler : call'[g] = IF g = h THEN c ELSE call[g]
  BY <1>1 DEF Goes
<1>3. history' = history /\ upgrade' = upgrade
  BY DEF Goes
<1>4. ASSUME NEW g \in Handler
      PROVE  CallOK(call[g], history)'
  <2>1. CallOK(call'[g], history)
    BY <1>2 DEF IInv
  <2> QED
    BY <1>3, <2>1
<1> QED
  BY <1>2, <1>3, <1>4 DEF IInv, TypeOK

\* A handler that writes the history disturbs the others.
LEMMA WritesOK ==
  ASSUME IInv, NEW h \in Handler, NEW c \in Call, NEW new, HistoryStep(new),
         CallOK(c, new), Writes(new, h, c)
  PROVE  IInv'
<1>1. call \in [Handler -> Call] /\ TypeOK
  BY DEF IInv, TypeOK
<1>2. ASSUME NEW g \in Handler
      PROVE  Watching(call[g]) \in Call /\ CallOK(Watching(call[g]), new)
  <2>1. call[g] \in Call /\ CallOK(call[g], history)
    BY <1>1 DEF IInv
  <2> QED
    BY <1>1, <2>1, WatchingOK
<1>3. /\ call' \in [Handler -> Call]
      /\ \A g \in Handler : CallOK(call'[g], new)
  BY <1>2 DEF Writes
<1>4. history' = new /\ upgrade' = upgrade
  BY DEF Writes
<1>5. ASSUME NEW g \in Handler
      PROVE  CallOK(call[g], history)'
  BY <1>3, <1>4
<1> QED
  BY <1>3, <1>4, <1>5 DEF IInv, TypeOK, HistoryStep

\* The operator disturbs every call.
LEMMA OperatesOK ==
  ASSUME IInv, NEW new, HistoryStep(new), NEW revision \in Revision \cup {None},
         Operates(new, revision)
  PROVE  IInv'
<1>1. call \in [Handler -> Call] /\ TypeOK
  BY DEF IInv, TypeOK
<1>2. ASSUME NEW g \in Handler
      PROVE  Watching(call[g]) \in Call /\ CallOK(Watching(call[g]), new)
  <2>1. call[g] \in Call /\ CallOK(call[g], history)
    BY <1>1 DEF IInv
  <2> QED
    BY <1>1, <2>1, WatchingOK
<1>3. /\ call' \in [Handler -> Call]
      /\ \A g \in Handler : CallOK(call'[g], new)
  BY <1>2 DEF Operates
<1>4. history' = new /\ upgrade' = revision
  BY DEF Operates
<1>5. ASSUME NEW g \in Handler
      PROVE  CallOK(call[g], history)'
  BY <1>3, <1>4
<1> QED
  BY <1>3, <1>4, <1>5 DEF IInv, TypeOK, HistoryStep

-----------------------------------------------------------------------------
(* Every step keeps the invariant.                                         *)

LEMMA InitOK == Init => IInv
<1> SUFFICES ASSUME Init
             PROVE  IInv
  OBVIOUS
<1>1. /\ history \in Seq(Release) /\ Len(history) <= MaxRevision /\ HistoryOK(history)
      /\ call = [h \in Handler |-> Idle]
  BY ConstantsAssumption DEF Init, HistoryOK
<1>2. \A h \in Handler : call[h] \in Call /\ CallOK(call[h], history)
  BY <1>1, QuietOK
<1> QED
  BY <1>1, <1>2 DEF IInv, TypeOK, Init

LEMMA AskOK ==
  ASSUME IInv, NEW h \in Handler, Ask(h)
  PROVE  IInv'
<1>. PICK d : d = [at |-> "asked", base |-> current, disturbed |-> FALSE]
  OBVIOUS
<1>1. CASE Goes(h, [at |-> "status"])
  BY <1>1, QuietOK, GoesOK
<1>2. CASE Goes(h, d)
  <2>1. current \in Nat /\ current <= MaxRevision /\ MaxRevision \in Nat
    BY HistoryFacts DEF IInv
  <2>2. d \in Call
    BY <2>1 DEF Call
  <2>3. CallOK(d, history)
    BY <2>1 DEF CallOK, NewerOK, MarkOK, Undisturbed, current
  <2> QED
    BY <1>2, <2>2, <2>3, GoesOK
<1> QED
  BY <1>1, <1>2 DEF Ask

LEMMA RequestFailsOK ==
  ASSUME IInv, NEW h \in Handler, RequestFails(h)
  PROVE  IInv'
BY QuietOK, GoesOK DEF RequestFails

LEMMA GetStatusOK ==
  ASSUME IInv, NEW h \in Handler, GetStatus(h)
  PROVE  IInv'
<1>. PICK d : d = [at |-> "listing", disturbed |-> FALSE, release |-> history[current]]
  OBVIOUS
<1>1. CASE history = <<>>
  BY <1>1, QuietOK, GoesOK DEF GetStatus
<1>2. CASE history # <<>>
  <2>1. history[current] \in Release
    BY <1>2, HistoryFacts DEF IInv
  <2>2. d \in Call
    BY <2>1 DEF Call
  <2>3. CallOK(d, history)
    BY <1>2 DEF CallOK, NewerOK, MarkOK, Undisturbed, current
  <2> QED
    BY <1>2, <2>2, <2>3, GoesOK DEF GetStatus
<1> QED
  BY <1>1, <1>2

LEMMA AdviceFacts ==
  ASSUME NEW release \in Release
  PROVE  AdviceFor(release) \in Advice /\ Advised(AdviceFor(release), release)
<1>1. release.age \in 0..2
  BY DEF Release
<1> QED
  BY <1>1 DEF AdviceFor, Advised, Advice

LEMMA ListHistoryOK ==
  ASSUME IInv, NEW h \in Handler, ListHistory(h)
  PROVE  IInv'
<1>. PICK c : c = call[h]
  OBVIOUS
<1>. PICK advice : advice = AdviceFor(c.release)
  OBVIOUS
<1>. PICK d : d = [at |-> "advised", disturbed |-> c.disturbed, advice |-> advice]
  OBVIOUS
<1>1. /\ c \in Call /\ c.at = "listing" /\ CallOK(c, history)
      /\ Goes(h, IF history = <<>> THEN Failed ELSE d)
  BY DEF IInv, TypeOK, ListHistory
<1>2. /\ c.release \in Release /\ c.disturbed \in BOOLEAN
      /\ advice \in Advice /\ Advised(advice, c.release)
  BY <1>1, CallFields, AdviceFacts DEF Watched
<1>3. CASE history = <<>>
  BY <1>1, <1>3, QuietOK, GoesOK
<1>4. CASE history # <<>>
  <2>1. d \in Call
    BY <1>2 DEF Call
  <2>2. ~c.disturbed => c.release = history[Len(history)]
    BY <1>1 DEF CallOK, Undisturbed, Watched
  <2>3. CallOK(d, history)
    BY <1>2, <1>4, <2>2 DEF CallOK, NewerOK, MarkOK, Undisturbed
  <2> QED
    BY <1>1, <1>4, <2>1, <2>3, GoesOK
<1> QED
  BY <1>3, <1>4

\* What is stuck is no first revision; what is rolled back has one before it.
LEMMA GetReleaseOK ==
  ASSUME IInv, NEW h \in Handler, GetRelease(h)
  PROVE  IInv'
<1>. PICK c : c = call[h]
  OBVIOUS
<1>. PICK n : n = current
  OBVIOUS
<1>. PICK m : m = [at |-> "marking", base |-> c.base, disturbed |-> c.disturbed,
                   version |-> n, release |-> history[n]]
  OBVIOUS
<1>. PICK d : d = [at |-> "chosen", base |-> c.base, disturbed |-> c.disturbed,
                   target |-> newRevision(n)]
  OBVIOUS
<1>1. /\ c \in Call /\ c.at = "asked" /\ CallOK(c, history) /\ TypeOK
      /\ HistoryOK(history)
  BY DEF IInv, TypeOK, GetRelease
<1>2. /\ n \in Nat /\ n <= MaxRevision /\ MaxRevision \in Nat
      /\ history \in [1..n -> Release]
      /\ history = <<>> <=> n = 0
      /\ n = Len(history)
  BY <1>1, HistoryFacts DEF current
<1>3. c.base \in 0..MaxRevision /\ c.disturbed \in BOOLEAN
  BY <1>1, CallFields DEF Watched
<1>4. /\ history = <<>> \/ c.base <= n
      /\ ~c.disturbed => c.base = n
  BY <1>1, <1>2 DEF CallOK, NewerOK, Undisturbed, Watched
<1>5. CASE Goes(h, Failed)
  BY <1>5, QuietOK, GoesOK
<1>6. CASE history # <<>> /\ Stuck(history[n]) /\ Goes(h, m)
  <2>1. /\ n \in Revision /\ history[n] \in Release
        /\ history[n].status \in begun /\ history[n].age = 2
    BY <1>2, <1>6 DEF Revision, Stuck
  <2>2. n > 1
    BY <1>1, <1>2, <1>6, <2>1 DEF HistoryOK
  <2>3. m \in Call
    BY <1>3, <2>1 DEF Call
  <2>4. NewerOK(m, history) /\ MarkOK(m, history)
    BY <1>2, <1>4, <2>1, <2>2 DEF NewerOK, MarkOK
  <2>5. CallOK(m, history)
    BY <1>2, <2>1, <2>4 DEF CallOK, Undisturbed
  <2> QED
    BY <1>6, <2>3, <2>5, GoesOK
<1>7. CASE history # <<>> /\ ~NothingToRollBackTo(n) /\ Goes(h, d)
  <2>1. n > 1 /\ newRevision(n) = n - 1 /\ newRevision(n) \in Revision
    BY <1>2, <1>7 DEF NothingToRollBackTo, newRevision, Revision
  <2>2. d \in Call
    BY <1>3, <2>1 DEF Call
  <2>3. NewerOK(d, history) /\ MarkOK(d, history)
    BY <1>2, <1>4 DEF NewerOK, MarkOK
  <2>4. CallOK(d, history)
    BY <1>2, <1>4, <2>1, <2>3 DEF CallOK, Undisturbed
  <2> QED
    BY <1>7, <2>2, <2>4, GoesOK
<1> QED
  BY <1>5, <1>6, <1>7 DEF GetRelease

\* What a handler writes that unlocks a release: the content is the one that is there.
LEMMA UnlockFacts ==
  ASSUME IInv, NEW c \in Call, CallOK(c, history), c.at = "marking",
         c.version \in DOMAIN history, NEW new,
         new = [history EXCEPT ![c.version].content = c.release.content,
                               ![c.version].status = "deployed"]
  PROVE  /\ HistoryStep(new) /\ Len(new) = current
         /\ new = [history EXCEPT ![c.version].status = "deployed"]
         /\ new[c.version].status = "deployed"
         /\ history[c.version].age = 2 /\ c.version > 1
         /\ ~c.disturbed => c.version = current /\ history[current].status \in begun
<1>1. TypeOK /\ c.version \in 1..current /\ history # <<>>
  BY HistoryFacts DEF IInv
<1>2. /\ c.version > 1 /\ history[c.version].age = 2
      /\ history[c.version].content = c.release.content
  BY <1>1 DEF CallOK, MarkOK
<1>3. ~c.disturbed => c.version = current /\ history[current].status \in begun
  BY DEF CallOK, Undisturbed, Watched, current
<1>. PICK v : v = c.version
  OBVIOUS
<1>. PICK marked : marked = [history EXCEPT ![v].status = "deployed"]
  OBVIOUS
<1>4. /\ HistoryStep(marked) /\ Len(marked) = current
      /\ marked[v].status = "deployed"
      /\ marked = [history EXCEPT ![v].content = history[v].content,
                                  ![v].status = "deployed"]
  BY <1>1, MarkedFacts
<1>5. new = marked
  BY <1>2, <1>4
<1> QED
  BY <1>2, <1>3, <1>4, <1>5

LEMMA UpdateStatusOK ==
  ASSUME IInv, NEW h \in Handler, UpdateStatus(h)
  PROVE  IInv'
<1>. PICK c : c = call[h]
  OBVIOUS
<1>. PICK d : d = [at |-> "marked", base |-> c.base, disturbed |-> c.disturbed]
  OBVIOUS
<1>. PICK new : new = [history EXCEPT ![c.version].content = c.release.content,
                                      ![c.version].status = "deployed"]
  OBVIOUS
<1>1. c \in Call /\ c.at = "marking" /\ CallOK(c, history)
  BY DEF IInv, TypeOK, UpdateStatus
<1>2. c.base \in 0..MaxRevision /\ c.disturbed \in BOOLEAN
  BY <1>1, CallFields DEF Watched
<1>3. CASE Goes(h, Failed)
  BY <1>3, QuietOK, GoesOK
<1>4. ASSUME c.version \in DOMAIN history, NEW answer \in {d, Failed},
             Writes(new, h, answer)
      PROVE  IInv'
  <2>1. /\ HistoryStep(new) /\ Len(new) = current
        /\ new[c.version].status = "deployed" /\ c.version > 1
        /\ ~c.disturbed => c.version = current
    BY <1>1, <1>4, UnlockFacts
  <2>2. d \in Call
    BY <1>2 DEF Call
  <2>3. CallOK(d, new)
    BY <2>1 DEF CallOK, NewerOK, MarkOK, Undisturbed
  <2>4. answer \in Call /\ CallOK(answer, new)
    BY <2>2, <2>3, QuietOK
  <2> QED
    BY <1>4, <2>1, <2>4, WritesOK
<1> QED
  BY <1>3, <1>4 DEF UpdateStatus

\* The new revision is one more, and has the content of the one that was chosen.
LEMMA BeginRollbackOK ==
  ASSUME IInv, NEW h \in Handler, BeginRollback(h)
  PROVE  IInv'
<1>. PICK c : c = call[h]
  OBVIOUS
<1>. PICK n : n = current
  OBVIOUS
<1>. PICK content : content = history[c.target].content
  OBVIOUS
<1>. PICK new : new = Pends(content, "pending-rollback")
  OBVIOUS
<1>. PICK d : d = [at |-> "rolling", base |-> c.base, disturbed |-> c.disturbed,
                   version |-> n + 1]
  OBVIOUS
<1>1. /\ c \in Call /\ c.at = "chosen" /\ CallOK(c, history) /\ TypeOK
      /\ current < MaxRevision
  BY DEF IInv, TypeOK, BeginRollback
<1>2. /\ n \in Nat /\ MaxRevision \in Nat /\ n < MaxRevision
      /\ history \in [1..n -> Release] /\ DOMAIN history = 1..n
      /\ history = <<>> <=> n = 0
      /\ n = Len(history)
  BY <1>1, HistoryFacts DEF current
<1>3. c.base \in 0..MaxRevision /\ c.disturbed \in BOOLEAN
  BY <1>1, CallFields DEF Watched
<1>4. CASE Goes(h, Failed)
  BY <1>4, QuietOK, GoesOK
<1>5. CASE c.target \in DOMAIN history /\ Writes(new, h, d)
  <2>1. n # 0 /\ content \in Content
    BY <1>2, <1>5 DEF Release
  <2>2. /\ HistoryStep(new) /\ Len(new) = n + 1
        /\ \A u \in 1..n : new[u] = history[u]
        /\ new[n + 1].content = content
    <3>1. "pending-rollback" \in begun /\ history # <<>>
      BY <1>2, <2>1 DEF begun
    <3> QED
      BY <1>1, <2>1, <3>1, PendsFacts
  <2>3. c.base <= n
    BY <1>1, <1>2, <2>1 DEF CallOK, NewerOK
  <2>4. d \in Call
    BY <1>2, <1>3 DEF Call, Revision
  <2>5. NewerOK(d, new) /\ MarkOK(d, new)
    <3>1. c.base < n + 1
      BY <1>2, <1>3, <2>3
    <3> QED
      BY <2>2, <3>1 DEF NewerOK, MarkOK
  <2>6. ASSUME ~c.disturbed
        PROVE  RolledOn(d, new, n + 1)
    <3>1. c.base = n /\ c.base > 1 /\ c.target = c.base - 1
      BY <1>1, <1>2, <2>6 DEF CallOK, Undisturbed, Watched
    <3>2. c.target \in 1..n /\ new[c.target] = history[c.target]
      BY <1>2, <2>2, <3>1
    <3> QED
      BY <2>2, <3>1, <3>2 DEF RolledOn
  <2>7. CallOK(d, new)
    BY <2>5, <2>6 DEF CallOK, Undisturbed
  <2> QED
    BY <1>5, <2>2, <2>4, <2>7, WritesOK
<1> QED
  BY <1>4, <1>5 DEF BeginRollback

LEMMA EndRollbackOK ==
  ASSUME IInv, NEW h \in Handler, EndRollback(h)
  PROVE  IInv'
<1>. PICK c : c = call[h]
  OBVIOUS
<1>. PICK v : v = c.version
  OBVIOUS
<1>. PICK d : d = [at |-> "rolled", base |-> c.base, disturbed |-> c.disturbed]
  OBVIOUS
<1>1. c \in Call /\ c.at = "rolling" /\ CallOK(c, history) /\ TypeOK
  BY DEF IInv, TypeOK, EndRollback
<1>2. /\ current \in Nat /\ DOMAIN history = 1..current
      /\ history = <<>> <=> current = 0
  BY <1>1, HistoryFacts
<1>3. c.base \in 0..MaxRevision /\ c.disturbed \in BOOLEAN /\ MaxRevision \in Nat
  BY <1>1, CallFields, HistoryFacts DEF Watched
<1>4. CASE Goes(h, Failed)
  BY <1>4, QuietOK, GoesOK
<1>5. ASSUME v \in DOMAIN history, NEW answer \in {d, Failed},
             Writes(Deploys(v), h, answer)
      PROVE  IInv'
  <2>. PICK new : new = Deploys(v)
    OBVIOUS
  <2>1. /\ HistoryStep(new) /\ Len(new) = current
        /\ \A u \in 1..current : new[u].content = history[u].content
        /\ new[v].status = "deployed"
    BY <1>1, <1>2, <1>5, DeploysFacts
  <2>2. d \in Call
    BY <1>3 DEF Call
  <2>3. c.base < current
    BY <1>1, <1>2, <1>5 DEF CallOK, NewerOK, current
  <2>4. NewerOK(d, new) /\ MarkOK(d, new)
    BY <1>2, <1>3, <2>1, <2>3 DEF NewerOK, MarkOK
  <2>5. ASSUME ~c.disturbed
        PROVE  RolledOn(d, new, Len(new)) /\ new[Len(new)].status = "deployed"
    <3>1. RolledOn(c, history, v)
      BY <1>1, <2>5 DEF CallOK, Undisturbed, Watched
    <3>2. /\ c.base > 1 /\ v = c.base + 1 /\ current = v
          /\ history[v].content = history[c.base - 1].content
      BY <3>1 DEF RolledOn, current
    <3>3. v \in 1..current /\ c.base - 1 \in 1..current
      BY <1>2, <1>3, <1>5, <3>2
    <3> QED
      BY <2>1, <3>2, <3>3 DEF RolledOn
  <2>6. CallOK(d, new)
    BY <2>4, <2>5 DEF CallOK, Undisturbed
  <2>7. answer \in Call /\ CallOK(answer, new)
    BY <2>2, <2>6, QuietOK
  <2> QED
    BY <1>5, <2>1, <2>7, WritesOK
<1>6. CASE v \in DOMAIN history
           /\ Writes([history EXCEPT ![v].status = "failed",
                                     ![v - 1].status = "superseded"], h, Failed)
  <2>. PICK new : new = [history EXCEPT ![v].status = "failed",
                                        ![v - 1].status = "superseded"]
    OBVIOUS
  <2>1. HistoryStep(new)
    BY <1>1, <1>2, <1>6, FailsFacts
  <2> QED
    BY <1>6, <2>1, QuietOK, WritesOK
<1> QED
  BY <1>4, <1>5, <1>6 DEF EndRollback

LEMMA GetNewRevisionOK ==
  ASSUME IInv, NEW h \in Handler, GetNewRevision(h)
  PROVE  IInv'
<1>. PICK c : c = call[h]
  OBVIOUS
<1>. PICK n : n = current
  OBVIOUS
<1>. PICK d : d = [at |-> "answered", base |-> c.base, disturbed |-> c.disturbed,
                   new_revision |-> n]
  OBVIOUS
<1>1. /\ c \in Call /\ c.at = "rolled" /\ CallOK(c, history) /\ TypeOK
      /\ Goes(h, IF history = <<>> THEN Failed ELSE d)
  BY DEF IInv, TypeOK, GetNewRevision
<1>2. /\ n \in Nat /\ n <= MaxRevision /\ MaxRevision \in Nat /\ n = Len(history)
      /\ history = <<>> <=> n = 0
  BY <1>1, HistoryFacts DEF current
<1>3. c.base \in 0..MaxRevision /\ c.disturbed \in BOOLEAN
  BY <1>1, CallFields DEF Watched
<1>4. CASE history = <<>>
  BY <1>1, <1>4, QuietOK, GoesOK
<1>5. CASE history # <<>>
  <2>1. d \in Call
    BY <1>2, <1>3, <1>5 DEF Call, Revision
  <2>2. c.base < n
    BY <1>1, <1>2, <1>5 DEF CallOK, NewerOK
  <2>3. NewerOK(d, history) /\ MarkOK(d, history)
    BY <1>2, <1>3, <2>2 DEF NewerOK, MarkOK
  <2>4. ~c.disturbed => RolledOn(d, history, n) /\ history[n].status = "deployed"
    BY <1>1, <1>2 DEF CallOK, Undisturbed, RolledOn, Watched
  <2>5. CallOK(d, history)
    BY <1>2, <2>3, <2>4 DEF CallOK, Undisturbed
  <2> QED
    BY <1>1, <1>5, <2>1, <2>5, GoesOK
<1> QED
  BY <1>4, <1>5

LEMMA UpgradeOK ==
  ASSUME IInv, Upgrade
  PROVE  IInv'
<1>1. PICK content \in Content :
           Operates(Pends(content, "pending-upgrade"), current + 1)
  BY DEF Upgrade
<1>2. TypeOK /\ history # <<>> /\ current < MaxRevision
  BY DEF IInv, Upgrade
<1>3. HistoryStep(Pends(content, "pending-upgrade"))
  BY <1>2, PendsFacts DEF begun
<1>4. current + 1 \in Revision
  BY <1>2, HistoryFacts DEF Revision
<1> QED
  BY <1>1, <1>3, <1>4, OperatesOK

LEMMA EndUpgradeOK ==
  ASSUME IInv, EndUpgrade
  PROVE  IInv'
<1>1. TypeOK /\ DOMAIN history = 1..current
  BY HistoryFacts DEF IInv
<1>2. CASE upgrade \in DOMAIN history /\ Operates(Deploys(upgrade), None)
  BY <1>1, <1>2, DeploysFacts, OperatesOK
<1>3. CASE upgrade \in DOMAIN history
           /\ Operates([history EXCEPT ![upgrade].status = "failed"], None)
  <2>1. HistoryStep([history EXCEPT ![upgrade].status = "failed"])
    BY <1>1, <1>3, FailsFacts
  <2> QED
    BY <1>3, <2>1, OperatesOK
<1>4. CASE Operates(history, None)
  BY <1>1, <1>4, SameHistory, OperatesOK
<1> QED
  BY <1>2, <1>3, <1>4 DEF EndUpgrade

LEMMA UninstallOK ==
  ASSUME IInv, Uninstall
  PROVE  IInv'
BY SameHistory, OperatesOK DEF Uninstall, IInv, TypeOK

LEMMA OlderFacts ==
  ASSUME NEW r \in Release
  PROVE  /\ [r EXCEPT !.age = Older(@)] \in Release
         /\ [r EXCEPT !.age = Older(@)].content = r.content
         /\ [r EXCEPT !.age = Older(@)].status = r.status
         /\ r.age = 2 => [r EXCEPT !.age = Older(@)].age = 2
BY DEF Release, Older

\* What a call knows stays true as all of it grows older.
LEMMA AgesOK ==
  ASSUME NEW s \in Seq(Release), NEW c \in Call, CallOK(c, s),
         NEW t, t = [v \in DOMAIN s |-> [s[v] EXCEPT !.age = Older(@)]],
         NEW d, d = IF c.at = "listing" THEN [c EXCEPT !.release.age = Older(@)] ELSE c
  PROVE  t \in Seq(Release) /\ Len(t) = Len(s) /\ d \in Call /\ CallOK(d, t)
<1>. PICK n : n = Len(s)
  OBVIOUS
<1>1. n \in Nat /\ s \in [1..n -> Release] /\ DOMAIN s = 1..n /\ (s = <<>> <=> n = 0)
  BY LenProperties, EmptySeq
<1>2. /\ t \in [1..n -> Release]
      /\ \A v \in 1..n : /\ t[v].content = s[v].content /\ t[v].status = s[v].status
                         /\ s[v].age = 2 => t[v].age = 2
                         /\ t[v] = [s[v] EXCEPT !.age = Older(@)]
  BY <1>1, OlderFacts
<1>3. t \in Seq(Release) /\ Len(t) = n /\ (t = <<>> <=> s = <<>>)
  <2>1. t \in Seq(Release)
    BY <1>1, <1>2, SeqDef
  <2>2. DOMAIN t = 1..n /\ Len(t) \in Nat /\ DOMAIN t = 1..Len(t)
    BY <1>2, <2>1, LenProperties
  <2>3. Len(t) = n
    BY <1>1, <2>2
  <2> QED
    BY <1>1, <2>1, <2>3, EmptySeq
<1>4. CASE c.at = "listing"
  <2>1. c \in [at : {"listing"}, disturbed : BOOLEAN, release : Release]
    BY <1>4, CallShape DEF CallIs, Idle, Failed
  <2>. PICK r : r = [c.release EXCEPT !.age = Older(@)]
    OBVIOUS
  <2>2. d = [c EXCEPT !.release = r]
    BY <1>4, <2>1
  <2>3. /\ r \in Release /\ d.at = "listing" /\ d.disturbed = c.disturbed
        /\ d.release = r
    BY <2>1, <2>2, OlderFacts
  <2>4. d \in Call
    BY <2>1, <2>2, <2>3 DEF Call
  <2>5. ASSUME ~c.disturbed
        PROVE  t # <<>> /\ r = t[n]
    <3>1. s # <<>> /\ c.release = s[n]
      BY <1>4, <2>5 DEF CallOK, Undisturbed, Watched
    <3>2. n \in 1..n
      BY <1>1, <3>1
    <3> QED
      BY <1>2, <1>3, <3>1, <3>2
  <2>6. CallOK(d, t)
    BY <1>3, <2>3, <2>5 DEF CallOK, NewerOK, MarkOK, Undisturbed
  <2> QED
    BY <1>3, <2>4, <2>6
<1>5. CASE c.at # "listing"
  <2>1. d = c
    BY <1>5
  <2>2. /\ c.at \in {"asked", "marking", "chosen", "rolling", "rolled", "answered"}
           => c.base \in Nat
        /\ c.at = "marking" => c.version \in Nat /\ c.version # 0
    BY CallFields DEF Revision
  <2>3. NewerOK(c, t)
    BY <1>3 DEF CallOK, NewerOK
  <2>4. MarkOK(c, t)
    <3>1. CASE c.at = "marking" /\ s # <<>>
      <4>1. /\ c.version > 1 /\ c.version <= n /\ s[c.version].age = 2
            /\ s[c.version].content = c.release.content
        BY <3>1 DEF CallOK, MarkOK
      <4>2. c.version \in 1..n
        BY <1>1, <2>2, <3>1, <4>1
      <4> QED
        BY <1>2, <1>3, <4>1, <4>2 DEF MarkOK
    <3>2. CASE s = <<>>
      BY <1>3, <3>2 DEF CallOK, MarkOK
    <3> QED
      BY <3>1, <3>2 DEF MarkOK
  <2>5. ASSUME c.at \in Watched, ~c.disturbed
        PROVE  Undisturbed(c, t)
    <3>1. Undisturbed(c, s)
      BY <2>5 DEF CallOK
    <3>2. ASSUME NEW m, RolledOn(c, s, m), c.base \in Nat
          PROVE  RolledOn(c, t, m)
      <4>1. c.base > 1 /\ m = c.base + 1 /\ n = m /\ s[m].content = s[c.base - 1].content
        BY <3>2 DEF RolledOn
      <4>2. m \in 1..n /\ c.base - 1 \in 1..n
        BY <1>1, <3>2, <4>1
      <4> QED
        BY <1>2, <1>3, <4>1, <4>2 DEF RolledOn
    <3>3. s # <<>> => t[n].status = s[n].status /\ (s[n].age = 2 => t[n].age = 2)
      <4>1. s # <<>> => n \in 1..n
        BY <1>1
      <4> QED
        BY <1>2, <4>1
    <3>4. c.at = "advised" => t # <<>> /\ Advised(c.advice, t[n])
      BY <1>3, <3>1, <3>3 DEF Undisturbed, Advised
    <3>5. c.at \in {"rolled", "answered"} => t[n].status = "deployed"
      BY <1>1, <2>2, <3>1, <3>3 DEF Undisturbed, RolledOn
    <3>6. c.at \in {"marking", "marked"} =>
            Undisturbed(c, t)
      <4>1. c.at = "marking" => s # <<>>
        BY <1>1, <2>2, <3>1 DEF Undisturbed
      <4>2. c.at = "marked" => s # <<>>
        BY <1>1, <3>1 DEF Undisturbed
      <4> QED
        BY <1>3, <3>1, <3>3, <4>1, <4>2 DEF Undisturbed
    <3> QED
      BY <1>3, <1>5, <2>2, <3>1, <3>2, <3>4, <3>5, <3>6 DEF Undisturbed
  <2> QED
    BY <1>3, <2>1, <2>3, <2>4, <2>5 DEF CallOK
<1> QED
  BY <1>4, <1>5

LEMMA TimePassesOK ==
  ASSUME IInv, TimePasses
  PROVE  IInv'
<1>. PICK t : t = [v \in DOMAIN history |-> [history[v] EXCEPT !.age = Older(@)]]
  OBVIOUS
<1>1. /\ history \in Seq(Release) /\ Len(history) <= MaxRevision
      /\ call \in [Handler -> Call] /\ HistoryOK(history) /\ history' = t
      /\ upgrade' = upgrade
  BY DEF IInv, TypeOK, TimePasses
<1>2. ASSUME NEW h \in Handler
      PROVE  call'[h] \in Call /\ CallOK(call'[h], t)
  <2>1. call'[h] = IF call[h].at = "listing"
                     THEN [call[h] EXCEPT !.release.age = Older(@)] ELSE call[h]
    BY DEF TimePasses
  <2>2. call[h] \in Call /\ CallOK(call[h], history)
    BY <1>1 DEF IInv
  <2> QED
    BY <1>1, <2>1, <2>2, AgesOK
<1>3. call' \in [Handler -> Call]
  BY <1>2 DEF TimePasses
<1>4. t \in Seq(Release) /\ Len(t) = Len(history) /\ HistoryOK(t)
  <2>1. Idle \in Call /\ CallOK(Idle, history) /\ Idle.at # "listing"
    BY QuietOK DEF Idle
  <2>2. t \in Seq(Release) /\ Len(t) = Len(history)
    BY <1>1, <2>1, AgesOK
  <2>3. history # <<>> => 1 \in DOMAIN history /\ history[1] \in Release
    BY <1>1, EmptySeq, LenProperties
  <2>4. t # <<>> => history # <<>>
    BY <1>1, <2>2, EmptySeq
  <2>5. history # <<>> => t[1].status = history[1].status
    BY <2>3, OlderFacts
  <2> QED
    BY <1>1, <2>2, <2>4, <2>5 DEF HistoryOK
<1>5. \A h \in Handler : CallOK(call[h], history)'
  BY <1>1, <1>2
<1> QED
  BY <1>1, <1>3, <1>4, <1>5 DEF IInv, TypeOK

LEMMA NextOK ==
  ASSUME IInv, [Next]_vars
  PROVE  IInv'
<1>1. ASSUME NEW h \in Handler, HelmStatus(h)
      PROVE  IInv'
  BY <1>1, GetStatusOK, ListHistoryOK DEF HelmStatus
<1>2. ASSUME NEW h \in Handler, Rollback(h)
      PROVE  IInv'
  BY <1>2, GetReleaseOK, UpdateStatusOK, BeginRollbackOK, EndRollbackOK,
     GetNewRevisionOK DEF Rollback
<1>3. CASE UNCHANGED vars
  BY <1>3 DEF vars, IInv, TypeOK
<1> QED
  BY <1>1, <1>2, <1>3, AskOK, RequestFailsOK, UpgradeOK, EndUpgradeOK, UninstallOK,
     TimePassesOK DEF Next

LEMMA InductiveInvariant == Spec => []IInv
BY InitOK, NextOK, PTL DEF Spec

-----------------------------------------------------------------------------
(* What follows.                                                           *)

\* Histories and calls have the shapes above.
THEOREM TypeCorrect == Spec => []TypeOK
<1>1. IInv => TypeOK
  BY DEF IInv
<1> QED
  BY <1>1, InductiveInvariant, PTL

\* A rollback that reports a revision reports a newer one than it was asked about and,
\* if nobody else wrote the history, the next one, with the content of the one before.
THEOREM RollbackHonest == Spec => []RollsBackOne
<1>1. IInv => RollsBackOne
  <2> SUFFICES ASSUME IInv, NEW h \in Handler, call[h].at = "answered"
               PROVE  /\ call[h].new_revision > call[h].base
                      /\ ~call[h].disturbed =>
                           /\ call[h].base > 1
                           /\ call[h].new_revision = call[h].base + 1
                           /\ current = call[h].base + 1
                           /\ history[current].status = "deployed"
                           /\ history[current].content
                              = history[call[h].base - 1].content
    BY DEF RollsBackOne
  <2>1. CallOK(call[h], history)
    BY DEF IInv
  <2> QED
    BY <2>1 DEF CallOK, NewerOK, Undisturbed, RolledOn, Watched, current
<1> QED
  BY <1>1, InductiveInvariant, PTL

\* Unlocking a release changes nothing but the status of a revision that is at least 30
\* minutes old and no first one, whatever happened since it was read; if nobody else
\* wrote the history, it is the current one, without an end.
THEOREM UnlocksStuck == Spec => UnlocksInPlace
<1>1. ASSUME IInv, NEW h \in Handler, UpdateStatus(h), history' # history
      PROVE  /\ history' = [history EXCEPT ![call[h].version].status = "deployed"]
             /\ history[call[h].version].age = 2 /\ call[h].version > 1
             /\ ~call[h].disturbed =>
                  call[h].version = current /\ history[current].status \in begun
  <2>. PICK c : c = call[h]
    OBVIOUS
  <2>. PICK new : new = [history EXCEPT ![c.version].content = c.release.content,
                                        ![c.version].status = "deployed"]
    OBVIOUS
  <2>1. c \in Call /\ CallOK(c, history)
    BY <1>1 DEF IInv, TypeOK
  <2>2. c.at = "marking" /\ c.version \in DOMAIN history /\ history' = new
    BY <1>1 DEF UpdateStatus, Goes, Writes
  <2> QED
    BY <1>1, <2>1, <2>2, UnlockFacts
<1>2. IInv /\ [Next]_vars =>
        [\A h \in Handler :
           LET c == call[h]
           IN  UpdateStatus(h) /\ history' # history
               => /\ history' = [history EXCEPT ![c.version].status = "deployed"]
                  /\ history[c.version].age = 2 /\ c.version > 1
                  /\ ~c.disturbed =>
                       c.version = current /\ history[current].status \in begun]_vars
  BY <1>1
<1> QED
  BY <1>2, InductiveInvariant, PTL DEF Spec, UnlocksInPlace

\* Of a release that nobody else writes, the first rollback after the advice that one is
\* safe only unlocks it, and the next one goes to the revision before; after a failure
\* the first does.
THEOREM AdviceInTwoCalls == Spec => AdviceTakesTwoCalls
<1>1. ASSUME IInv, NEW g \in Handler, NEW h \in Handler, GetRelease(g),
             call[h].at \in {"advised", "marked"}, ~call[h].disturbed
      PROVE  /\ call[h].at = "advised" =>
                  /\ call[h].advice = "safeToRetryOrRollback" =>
                       call'[g].at = "marking" /\ call'[g].version = current
                  /\ call[h].advice = "rollbackOrFix" /\ current > 1
                     => ChoosesPrevious(g)
             /\ call[h].at = "marked" =>
                  history[current].status \notin pending /\ ChoosesPrevious(g)
  <2>. PICK n : n = current
    OBVIOUS
  <2>. PICK c : c = call[h]
    OBVIOUS
  <2>1. call \in [Handler -> Call] /\ n \in Nat /\ (history = <<>> <=> n = 0)
    BY <1>1, HistoryFacts DEF IInv, TypeOK
  <2>2. Undisturbed(c, history)
    BY <1>1 DEF IInv, CallOK, Watched
  <2>3. ASSUME n > 1, ~Stuck(history[n])
        PROVE  ChoosesPrevious(g)
    <3>1. ~NothingToRollBackTo(n) /\ newRevision(n) = n - 1
      BY <2>1, <2>3 DEF NothingToRollBackTo, newRevision
    <3> QED
      BY <1>1, <2>1, <2>3, <3>1 DEF GetRelease, Goes, ChoosesPrevious
  <2>4. ASSUME c.at = "advised", c.advice = "safeToRetryOrRollback"
        PROVE  call'[g].at = "marking" /\ call'[g].version = n
    <3>1. history # <<>> /\ Stuck(history[n])
      BY <2>2, <2>4 DEF Undisturbed, Advised, Stuck, begun, current
    <3> QED
      BY <1>1, <2>1, <3>1 DEF GetRelease, Goes
  <2>5. ASSUME c.at = "advised", c.advice = "rollbackOrFix", n > 1
        PROVE  ChoosesPrevious(g)
    <3>1. ~Stuck(history[n])
      BY <2>2, <2>5 DEF Undisturbed, Advised, Stuck, begun, current
    <3> QED
      BY <2>3, <2>5, <3>1
  <2>6. ASSUME c.at = "marked"
        PROVE  history[n].status \notin pending /\ ChoosesPrevious(g)
    <3>1. n > 1 /\ history[n].status = "deployed"
      BY <2>2, <2>6 DEF Undisturbed, current
    <3>2. ~Stuck(history[n])
      BY <3>1 DEF Stuck, begun
    <3> QED
      BY <2>3, <3>1, <3>2 DEF pending
  <2> QED
    BY <2>4, <2>5, <2>6
<1>2. IInv /\ [Next]_vars =>
        [\A g, h \in Handler :
           GetRelease(g) /\ call[h].at \in {"advised", "marked"} /\ ~call[h].disturbed
           => /\ call[h].at = "advised" =>
                   /\ call[h].advice = "safeToRetryOrRollback" =>
                        call'[g].at = "marking" /\ call'[g].version = current
                   /\ call[h].advice = "rollbackOrFix" /\ current > 1
                      => ChoosesPrevious(g)
              /\ call[h].at = "marked" =>
                   history[current].status \notin pending /\ ChoosesPrevious(g)]_vars
  BY <1>1
<1> QED
  BY <1>2, InductiveInvariant, PTL DEF Spec, AdviceTakesTwoCalls

=============================================================================
