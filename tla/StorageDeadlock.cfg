SPECIFICATION Spec
CONSTANTS
    u1 = u1  u2 = u2  r1 = r1
    None = None
    Replica = {"A", "B"}
    Upload = {u1, u2}
    Room = {r1}
    At <- MCAt
    Plans <- MCPlans
    Size <- MCSize
    RoomLimit = 3
    SessionLimit = 3
    JobLimit = 2
    PoolSize = 2
    Sweeper = "B"
    MaxCrashes = 0
    MaxDeletes = 0
    MaxIdles = 0
INVARIANT FirstGoesIn
CHECK_DEADLOCK FALSE
