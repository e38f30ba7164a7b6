------------------------------ MODULE LogAnswers -------------------------------
(***************************************************************************)
(* What the sanitizer does for an answer: the log of a pod goes through it *)
(* as a whole (tools/pods.go), and within it every candidate for a card    *)
(* number through the check of its check digit.                            *)
(*                                                                         *)
(* A task is one input of one of these functions; its answer is what the   *)
(* function returns.  The inputs are given by the constants.               *)
(***************************************************************************)
EXTENDS Sanitizer

CONSTANTS
  Logs,       \* logs, as sequences of tokens
  Numbers     \* candidates for card numbers, as sequences of digits

ASSUME LogsAssumption ==
  Logs \subseteq Seq(Token) /\ \A log \in Logs : WellFormed(log)
ASSUME NumbersAssumption == Numbers \subseteq Seq(0..9)

VARIABLES
  task,       \* the input and what it is
  answer      \* what became of it
vars == <<task, answer>>

Unanswered == [is |-> "unanswered"]

Init ==
  /\ \/ \E log \in Logs : task = [for |-> "log", log |-> log]
     \/ \E ds \in Numbers : task = [for |-> "number", digits |-> ds]
  /\ answer = Unanswered

\* The end of fetchPodLogStream.
SanitizeLog ==
  /\ task.for = "log" /\ answer = Unanswered
  /\ answer' = [is |-> "log", log |-> Sanitize(task.log)]
  /\ UNCHANGED task

\* The test of a candidate in maskValues.
TestCandidate ==
  /\ task.for = "number" /\ answer = Unanswered
  /\ answer' = [is |-> "verdict", valid |-> luhnValid(task.digits)]
  /\ UNCHANGED task

Next == SanitizeLog \/ TestCandidate

Spec == Init /\ [][Next]_vars

-----------------------------------------------------------------------------

\* The passes of the sanitizer work on each other's output: blocks over line
\* ends, then the value patterns one by one, then keys.  Whatever they do to
\* each other, the log in the answer has every secret of the log masked,
\* completely, and everything else as it was: no pass takes a piece away that
\* another one needs to recognise the rest, and none masks what is harmless.
\* This is of Recognisable logs: the code leaves the value of a key in clear
\* whose name is long or repeated in the value, and a card number that has
\* another group of digits next to it, and masks the name of any long key.
MasksExactlySecrets ==
  answer.is = "log" /\ Recognisable(task.log) =>
    OneMask(answer.log) = Reference(task.log)

\* Nor does a pass make, out of what the others leave, something they should
\* have masked.  In the answer to any log a reader finds no value of a known
\* format and no PEM block (two pieces of a log can meet where a match between
\* them is replaced); in the answer to a Recognisable one nor does he find a
\* value of a key that is sensitive or masked, or a card number, be it in the
\* middle of other groups of digits.
NothingSecretIsLeft ==
  answer.is = "log" =>
    /\ NoFormat(answer.log)
    /\ NoBlock(answer.log)
    /\ Recognisable(task.log) => NoAssignment(answer.log) /\ NoCard(answer.log)

\* A candidate is taken for a card number if its check digit is right, for
\* every length a card number has and no other: of the ten numbers that differ
\* in the last digit exactly one is, and none that differs from it in one
\* other digit.
CheckDigitDecides ==
  answer.is = "verdict" =>
    LET ds == task.digits
        n  == Len(ds)
        with(i, d) == [ds EXCEPT ![i] = d]
    IN  /\ answer.valid = LuhnReference(ds)
        /\ n \in 13..19 =>
             Cardinality({d \in 0..9 : luhnValid(with(n, d))}) = 1
        /\ answer.valid =>
             \A i \in DOMAIN ds : \A d \in (0..9) \ {ds[i]} : ~luhnValid(with(i, d))

=============================================================================
