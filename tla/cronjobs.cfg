\* Two calls at once of the tools that write CronJobs and Jobs, with other clients
\* editing, replacing and removing the same objects and with requests that fail.
SPECIFICATION Spec
SYMMETRY Symmetry
CONSTANTS
  backup = backup
  j = j
  g = g
  None = None
  CronJobName = {backup}
  JobName = {j, g}
  PodName = {p}
  Generated <- Drawn
  Template = {old, new}
  Handler = {h1, h2}
  Requests <- CronJobRequests
INVARIANTS
  RetriedRunIsOneJob
PROPERTIES
  ForeignEditsSurvive
  ImplementsSwitch
