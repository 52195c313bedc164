SPECIFICATION Spec
CONSTANTS
  Handlers = {h1, h2}
  Monitor = monitor
  Free = free
  AutoLoad = TRUE
  PolicyTick = TRUE
  MaxQueued = 1
  MaxRequests = 2
  MaxLoads = 2
  MaxUnloaders = 1
  SlowLoads = TRUE
SYMMETRY Symmetry
\* every handler runs MaxRequests requests, then the model may stop
CHECK_DEADLOCK FALSE
INVARIANT HandlerKeepsModel
