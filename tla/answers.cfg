SPECIFICATION AnswersSpec
CONSTANTS
  Logs <- MCLogs
  Numbers <- MCNumbers
  Structs <- MCStructs
INVARIANTS
  MasksExactlySecrets
  NothingSecretIsLeft
  CheckDigitDecides
  TextSaysTheSame
\* One answer for one task.
CHECK_DEADLOCK FALSE
