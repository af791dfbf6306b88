SPECIFICATION Spec
CONSTANTS
  Sessions = {s1, s2, s3}
  MaxJobs = 4
  Replicas = {r1}
  DispatchAhead = 2
  MaxNow = 2
  MaxRollbacks = 1
  NoSession = NoSession
SYMMETRY Symmetry
INVARIANTS TypeOK NobodyPassesTwice FairOrderTakesTurns RegularViewIsPoolOrder
PROPERTIES TakesTurns
CHECK_DEADLOCK FALSE
