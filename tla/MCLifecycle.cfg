SPECIFICATION FairSpec
CONSTANTS
  Handlers = {h1, h2}
  Monitor = monitor
  Free = free
  AutoLoad = TRUE
  PolicyTick = FALSE
  MaxQueued = 1
  MaxRequests = 2
  MaxLoads = 2
  MaxUnloaders = 1
  SlowLoads = TRUE
\* every handler runs MaxRequests requests, then the model may stop
CHECK_DEADLOCK FALSE
INVARIANTS TypeOK HandlerKeepsModel CountersExact ModelsAccounted
PROPERTIES ImplementsLease GateReopens RequestsAnswered
