---------------------------- MODULE HelmReleases ----------------------------
(***************************************************************************)
(* helm_rollback and helm_status on one release (internal/tools/helm,      *)
(* internal/helm), while an operator upgrades or uninstalls the release.   *)
(*                                                                         *)
(* history is the release's history in Helm's storage: one record for each *)
(* revision, numbered from 1.  Helm's own operations are not atomic: an    *)
(* upgrade or a rollback stores a pending revision, works, and stores how  *)
(* it ended; whoever dies in between leaves it pending.  Of the time since *)
(* a revision's LastDeployed the code tells three spans apart: age 0 is    *)
(* under 15 minutes, 1 is under 30 and 2 is more.  A release that a call   *)
(* has read grows older with the others.                                   *)
(***************************************************************************)
EXTENDS Naturals, Sequences

CONSTANTS
  Content,      \* chart and values of a revision
  Handler,      \* goroutines, one for each call: bounds the calls
  Histories,    \* the histories the release may have at the start
  MaxRevision,  \* bound: revisions in the history
  None

Status == {"deployed", "superseded", "failed",
           "pending-install", "pending-upgrade", "pending-rollback"}
pending == {"pending-install", "pending-upgrade", "pending-rollback"}

Release == [content : Content, status : Status, age : 0..2]

\* An upgrade or a rollback that is under way, or was abandoned.
begun == {"pending-upgrade", "pending-rollback"}

\* The first revision of a release is made by an install.
ASSUME ConstantsAssumption ==
  /\ MaxRevision \in Nat
  /\ Histories \subseteq Seq(Release)
  /\ \A s \in Histories : Len(s) <= MaxRevision
  /\ \A s \in Histories : s # <<>> => s[1].status \notin begun
  /\ None \notin Nat

Revision == 1..MaxRevision

\* What helm_status recommends.
Advice == {"none", "rollbackOrFix", "wait", "safeToRetryOrRollback"}

\* Ghosts: base is the current revision when a rollback was asked for, disturbed
\* that someone else has written the history since then or, for helm_status, since
\* the release was read.
Idle == [at |-> "idle"]
Failed == [at |-> "failed"]
Call ==
  {Idle, Failed}
  \cup [at : {"status"}]
  \cup [at : {"listing"}, disturbed : BOOLEAN, release : Release]
  \cup [at : {"advised"}, disturbed : BOOLEAN, advice : Advice]
  \cup [at : {"asked"}, base : 0..MaxRevision, disturbed : BOOLEAN]
  \cup [at : {"marking"}, base : 0..MaxRevision, disturbed : BOOLEAN,
        version : Revision, release : Release]
  \cup [at : {"chosen"}, base : 0..MaxRevision, disturbed : BOOLEAN, target : Revision]
  \cup [at : {"rolling"}, base : 0..MaxRevision, disturbed : BOOLEAN, version : Revision]
  \cup [at : {"rolled", "marked"}, base : 0..MaxRevision, disturbed : BOOLEAN]
  \cup [at : {"answered"}, base : 0..MaxRevision, disturbed : BOOLEAN,
        new_revision : Revision]

VARIABLES
  history,
  upgrade,   \* the revision the operator's upgrade works on, None without one
  call       \* the call each handler works on

vars == <<history, upgrade, call>>

Init == /\ history \in Histories
        /\ upgrade = None
        /\ call = [h \in Handler |-> Idle]

-----------------------------------------------------------------------------
(* Helm.                                                                   *)

current == Len(history)

\* The history with the operation on revision v ended well: it supersedes what was
\* deployed.
Deploys(v) ==
  [u \in DOMAIN history |->
     IF u = v THEN [history[u] EXCEPT !.status = "deployed"]
     ELSE IF history[u].status = "deployed"
            THEN [history[u] EXCEPT !.status = "superseded"]
            ELSE history[u]]

\* A new revision at the end of the history.
Pends(content, status) ==
  Append(history, [content |-> content, status |-> status, age |-> 0])

-----------------------------------------------------------------------------
(* Steps of a handler, with what they mean to the ghosts of the others.    *)

Watching(c) == IF c.at \in {"idle", "failed", "status"} THEN c
               ELSE [c EXCEPT !.disturbed = TRUE]

Goes(h, c) == call' = [call EXCEPT ![h] = c] /\ UNCHANGED <<history, upgrade>>

\* Handler h writes the history, and its call goes on as c.
Writes(new, h, c) ==
  /\ history' = new
  /\ call' = [g \in Handler |-> IF g = h THEN c ELSE Watching(call[g])]
  /\ UNCHANGED upgrade

Ask(h) ==
  /\ call[h].at = "idle"
  /\ \/ Goes(h, [at |-> "status"])
     \/ Goes(h, [at |-> "asked", base |-> current, disturbed |-> FALSE])

\* A request to the storage fails, or the server dies.
RequestFails(h) ==
  /\ call[h].at \in {"status", "listing", "asked", "marking", "chosen", "rolling",
                     "rolled"}
  /\ Goes(h, Failed)

-----------------------------------------------------------------------------
(* helm_status.                                                            *)

\* Mutant of AdviceFor: half an hour is taken for a quarter.
AdviceTooEarly(release) ==
  CASE release.status = "failed" /\ release.age >= 1 -> "rollbackOrFix"
    [] release.status = "pending-upgrade" ->
         IF release.age < 1 THEN "wait" ELSE "safeToRetryOrRollback"
    [] OTHER -> "none"

AdviceFor(release) ==
  CASE release.status = "failed" /\ release.age >= 1 -> "rollbackOrFix"
    [] release.status = "pending-upgrade" ->
         IF release.age < 2 THEN "wait" ELSE "safeToRetryOrRollback"
    [] OTHER -> "none"

GetStatus(h) ==
  /\ call[h].at = "status"
  /\ Goes(h, IF history = <<>> THEN Failed
             ELSE [at |-> "listing", disturbed |-> FALSE, release |-> history[current]])

\* GetReleaseHistory, and the advice: by the release that was read before, at the
\* time it is now.  The resources come from the release and from discovery.
ListHistory(h) ==
  LET c == call[h]
  IN  /\ c.at = "listing"
      /\ Goes(h, IF history = <<>> THEN Failed
                 ELSE [at |-> "advised", disturbed |-> c.disturbed,
                       advice |-> AdviceFor(c.release)])

-----------------------------------------------------------------------------
(* helm_rollback.                                                          *)

\* Mutant: every unfinished operation counts as stuck.
Unfinished(release) == release.status \in pending

\* An upgrade or rollback whose end nobody stored for 30 minutes.
Stuck(release) ==
  release.status \in begun /\ release.age = 2

\* Mutant: the current revision is the target.
Same(version) == version

newRevision(version) == version - 1

NothingToRollBackTo(version) == newRevision(version) < 1

\* GetRelease, and what the handler decides with the release it has read.
GetRelease(h) ==
  LET c == call[h]
      release == history[current]
  IN  /\ c.at = "asked"
      /\ \/ history = <<>> /\ Goes(h, Failed)
         \/ /\ history # <<>> /\ Stuck(release)
            /\ Goes(h, [at |-> "marking", base |-> c.base, disturbed |-> c.disturbed,
                        version |-> current, release |-> release])
         \/ /\ history # <<>> /\ ~Stuck(release)
            /\ IF NothingToRollBackTo(current)
                 THEN Goes(h, Failed)
                 ELSE Goes(h, [at |-> "chosen", base |-> c.base,
                               disturbed |-> c.disturbed,
                               target |-> newRevision(current)])

\* UpdateStatus stores the release that was read, with its status replaced.
UpdateStatus(h) ==
  LET c == call[h]
      marked == [history EXCEPT ![c.version].content = c.release.content,
                                ![c.version].status = "deployed"]
  IN  /\ c.at = "marking"
      /\ \/ c.version \notin DOMAIN history /\ Goes(h, Failed)
         \/ /\ c.version \in DOMAIN history
            /\ \E answer \in {[at |-> "marked", base |-> c.base,
                               disturbed |-> c.disturbed], Failed} :
                 Writes(marked, h, answer)

\* Rollback stores a new revision with the content of the chosen one, ...
BeginRollback(h) ==
  LET c == call[h]
  IN  /\ c.at = "chosen" /\ current < MaxRevision
      /\ IF c.target \notin DOMAIN history
           THEN Goes(h, Failed)
           ELSE Writes(Pends(history[c.target].content, "pending-rollback"), h,
                       [at |-> "rolling", base |-> c.base, disturbed |-> c.disturbed,
                        version |-> current + 1])

\* ... applies it, and stores that it succeeded or, on an error, that it failed
\* and that the revision before it is superseded.
EndRollback(h) ==
  LET c == call[h]
      v == c.version
      rolled == [at |-> "rolled", base |-> c.base, disturbed |-> c.disturbed]
  IN  /\ c.at = "rolling"
      /\ \/ v \notin DOMAIN history /\ Goes(h, Failed)
         \/ /\ v \in DOMAIN history
            /\ \/ \E answer \in {rolled, Failed} : Writes(Deploys(v), h, answer)
               \/ Writes([history EXCEPT ![v].status = "failed",
                                         ![v - 1].status = "superseded"], h, Failed)

GetNewRevision(h) ==
  LET c == call[h]
  IN  /\ c.at = "rolled"
      /\ Goes(h, IF history = <<>> THEN Failed
                 ELSE [at |-> "answered", base |-> c.base, disturbed |-> c.disturbed,
                       new_revision |-> current])

-----------------------------------------------------------------------------
(* The operator, and time.                                                 *)

Operates(new, revision) ==
  /\ history' = new /\ upgrade' = revision
  /\ call' = [h \in Handler |-> Watching(call[h])]

\* Helm refuses an upgrade while another operation is pending.
Upgrade ==
  /\ upgrade = None /\ history # <<>> /\ current < MaxRevision
  /\ history[current].status \notin pending
  /\ \E content \in Content :
       Operates(Pends(content, "pending-upgrade"), current + 1)

EndUpgrade ==
  /\ upgrade # None
  /\ \/ upgrade \in DOMAIN history /\ Operates(Deploys(upgrade), None)
     \/ upgrade \in DOMAIN history
        /\ Operates([history EXCEPT ![upgrade].status = "failed"], None)
     \* The operator dies or, after an uninstall, gives up.
     \/ Operates(history, None)

Uninstall == history # <<>> /\ Operates(<<>>, upgrade)

Older(age) == IF age < 2 THEN age + 1 ELSE 2

TimePasses ==
  /\ history' = [v \in DOMAIN history |-> [history[v] EXCEPT !.age = Older(@)]]
  /\ call' = [h \in Handler |->
                IF call[h].at = "listing" THEN [call[h] EXCEPT !.release.age = Older(@)]
                ELSE call[h]]
  /\ UNCHANGED upgrade

-----------------------------------------------------------------------------
HelmStatus(h) == GetStatus(h) \/ ListHistory(h)
Rollback(h) == \/ GetRelease(h) \/ UpdateStatus(h)
               \/ BeginRollback(h) \/ EndRollback(h) \/ GetNewRevision(h)

Next == \/ \E h \in Handler : \/ Ask(h) \/ RequestFails(h)
                              \/ HelmStatus(h) \/ Rollback(h)
        \/ Upgrade \/ EndUpgrade \/ Uninstall \/ TimePasses

Spec == Init /\ [][Next]_vars

-----------------------------------------------------------------------------
(* Properties.                                                             *)

\* Histories and calls have the shapes above; a revision that is chosen exists in
\* the numbering.
TypeOK ==
  /\ history \in Seq(Release) /\ Len(history) <= MaxRevision
  /\ upgrade \in Revision \cup {None}
  /\ call \in [Handler -> Call]

\* What a rollback that reports a new revision reports is newer than what was current
\* when it was asked for.  If nobody else wrote the history meanwhile, it is the next
\* revision, deployed, with the content of the one before the current.  A call that
\* only unlocks the release reports no revision, and rolls nothing back.
RollsBackOne ==
  \A h \in Handler :
    LET c == call[h]
    IN  c.at = "answered" =>
          /\ c.new_revision > c.base
          /\ ~c.disturbed =>
               /\ c.base > 1
               /\ c.new_revision = c.base + 1 /\ current = c.base + 1
               /\ history[current].status = "deployed"
               /\ history[current].content = history[c.base - 1].content

\* The rollback of g has chosen the revision before the current.
ChoosesPrevious(g) == call'[g].at = "chosen" /\ call'[g].target = current - 1

\* The advice of helm_status to retry an upgrade or to roll back takes two calls of
\* helm_rollback, however much later, as long as nobody else writes the history.  The
\* first finds the upgrade stuck by a clock and a limit of its own, and only unlocks
\* the release: nothing is rolled back yet.  After it nothing is pending, so that Helm
\* accepts an upgrade, and the next call goes to the revision before, which is the one
\* before the stuck upgrade.  The advice about a failed release takes one call.
AdviceTakesTwoCalls ==
  [][\A g, h \in Handler :
       GetRelease(g) /\ call[h].at \in {"advised", "marked"} /\ ~call[h].disturbed
       => /\ call[h].at = "advised" =>
               /\ call[h].advice = "safeToRetryOrRollback" =>
                    call'[g].at = "marking" /\ call'[g].version = current
               /\ call[h].advice = "rollbackOrFix" /\ current > 1 => ChoosesPrevious(g)
          /\ call[h].at = "marked" =>
               history[current].status \notin pending /\ ChoosesPrevious(g)]_vars

\* The write that unlocks a release stores a whole release as it was read, maybe long
\* ago.  Whatever happened since, it changes nothing but the status of that revision,
\* which is no first one and at least 30 minutes old: newer work keeps its place and its
\* contents.  Only if nobody else wrote the history is it also right that the
\* revision is an operation without an end, and current: one that has failed or ended
\* since it was read is marked as deployed just the same.
UnlocksInPlace ==
  [][\A h \in Handler :
       LET c == call[h]
       IN  UpdateStatus(h) /\ history' # history
           => /\ history' = [history EXCEPT ![c.version].status = "deployed"]
              /\ history[c.version].age = 2 /\ c.version > 1
              /\ ~c.disturbed =>
                   c.version = current /\ history[current].status \in begun]_vars

=============================================================================
