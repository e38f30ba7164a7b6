\* Two calls at once of the tools that write Flux objects, with the controllers'
\* status writes and other clients' edits between any two of their steps.  Flux's
\* controllers handle what is requested; no symmetry, for the liveness property.
SPECIFICATION Flux
CONSTANTS
  ns = ns
  infra = infra
  app = app
  near = near
  far = far
  bare = bare
  None = None
  Namespace = {ns, infra}
  Name = {app}
  Spec <- Specs
  SourceRef <- Refs
  Handler = {h1, h2}
  Requests <- FluxRequests
  Initial <- FluxObjects
  MaxTime = 1
  MaxWrites = 1
INVARIANTS
  SourceReconciledIsTrue
PROPERTIES
  ForeignEditsSurvive
  RequestsAreHandled
CHECK_DEADLOCK FALSE
