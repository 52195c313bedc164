SPECIFICATION FairSpec
CONSTANTS
  MaxWorkers = 2
  MaxItems = 5
  MaxJobs = 2
INVARIANTS TypeOK NoStrayWorker
PROPERTIES ImplementsForkJoin JoinReturns ShutdownReturns
