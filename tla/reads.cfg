\* One call of each tool, with up to three objects coming or going between its
\* requests.  A call ends, and with it the run.
SPECIFICATION Spec
CONSTANTS
  None = None
  Requests <- AllRequests
  MaxChanges = 3
INVARIANTS
  UsageIsOfDescribed
  AnswersAreComplete
  LogsAreOfTheJob
CHECK_DEADLOCK FALSE
