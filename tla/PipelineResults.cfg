SPECIFICATION Spec
CONSTANTS
  Items = {i1}
  MaxJobs = 1
  Requests = {q1}
  Replicas = {r1, r2}
  Workers = {w1}
  DispatchAhead = 1
  ReadBatch = 1
  MaxRetries = 0
  MaxFaults = 0
  NoItem = NoItem
SYMMETRY Symmetry
INVARIANTS FilledWithResults
CHECK_DEADLOCK FALSE
