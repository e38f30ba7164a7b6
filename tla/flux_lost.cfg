\* Two flux_reconcile calls in one second.
SPECIFICATION Flux
CONSTANTS
  ns = ns
  infra = infra
  app = app
  near = near
  far = far
  bare = bare
  None = None
  Namespace = {ns, infra}
  Name = {app}
  Spec <- Specs
  SourceRef <- Refs
  Handler = {h1, h2}
  Requests <- FluxRequests
  Initial <- FluxObjects
  MaxTime = 0
  MaxWrites = 0
INVARIANT
  ReconcileTriggers
CHECK_DEADLOCK FALSE
