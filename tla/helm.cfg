\* Two calls at once of helm_rollback and helm_status, an operator who upgrades and
\* uninstalls, and operations that fail or are abandoned.
SPECIFICATION Spec
SYMMETRY Symmetry
CONSTANTS
  A = A
  B = B
  None = None
  Content = {A, B}
  Handler = {h1, h2}
  Histories <- HelmHistories
  MaxRevision = 4
INVARIANTS
  RollsBackOne
PROPERTIES
  AdviceTakesTwoCalls
  
CHECK_DEADLOCK FALSE
