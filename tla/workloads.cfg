\* Two calls at once of the tools that write workloads, with others creating,
\* removing, relabelling, undoing and scaling them; Second = 2 ticks, so that
\* restarts fall into one second and into different ones.
SPECIFICATION Spec
SYMMETRY Symmetry
CONSTANTS
  web = web
  None = None
  Name = {web}
  Handler = {h1, h2}
  Requests <- WorkloadRequests
  Existing <- TwoKinds
  Second = 2
  Bits = 3
  MaxTime = 2
  MaxWrites = 2
INVARIANTS
  NoAmbiguousRestart
  RestartedSinceAsked
  ScaleReportsItsEffect
CHECK_DEADLOCK FALSE
