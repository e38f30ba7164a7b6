-------------------------------- MODULE Answers --------------------------------
(***************************************************************************)
(* What the tools put into an answer besides the facts themselves: logs go *)
(* through the sanitizer (LogAnswers), and every structured answer is      *)
(* accompanied by a text (formatter.ToText, called at the end of every     *)
(* handler), for clients that show nothing else.                           *)
(***************************************************************************)
EXTENDS LogAnswers, Formatter

CONSTANT
  Structs     \* answers of tools, as values of the Formatter

AnswersInit ==
  \/ Init
  \/ /\ \E v \in Structs : task = [for |-> "text", struct |-> v]
     /\ answer = Unanswered

\* The end of a handler with a structured answer.
WriteText ==
  /\ task.for = "text" /\ answer = Unanswered
  /\ answer' = [is |-> "text", lines |-> ToText(task.struct)]
  /\ UNCHANGED task

AnswersNext == Next \/ WriteText

AnswersSpec == AnswersInit /\ [][AnswersNext]_vars

-----------------------------------------------------------------------------

\* The text says what the struct says: a reader who goes down its headings,
\* lines and tables finds every labelled fact of the struct at its place and
\* nothing else.  A flat field behind a section is not read as part of it, and
\* a missing pointer does not shift the cells of its row.
TextSaysTheSame ==
  answer.is = "text" => ReadBack(answer.lines) = Facts(task.struct, <<>>)

=============================================================================
