SPECIFICATION Spec
CONSTANTS
  Items = {i1}
  MaxJobs = 2
  Requests = {q1, q2}
  Replicas = {r1, r2}
  Workers = {w1}
  DispatchAhead = 1
  ReadBatch = 2
  MaxRetries = 0
  MaxFaults = 1
  NoItem = NoItem
SYMMETRY Symmetry
INVARIANTS PoolNotOverfilled TypeOK NoJobLost ArtifactsOnce ToldOutcomeIsStored SentOncePerCommit RestsSettled
PROPERTIES ImplementsLifecycle RemovedStaysRemoved
CHECK_DEADLOCK FALSE
