SPECIFICATION FairSpec
CONSTANTS
  Items = {i1}
  MaxJobs = 1
  Requests = {q1}
  Replicas = {r1, r2}
  Workers = {w1, w2}
  DispatchAhead = 1
  ReadBatch = 1
  MaxRetries = 1
  MaxFaults = 1
  NoItem = NoItem
PROPERTIES EventuallySettled
CHECK_DEADLOCK FALSE
