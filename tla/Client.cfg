SPECIFICATION MCSpec
CONSTANTS
    m1 = m1  m2 = m2
    Msg = {m1, m2}
    RoomOf <- MCRoomOf
    None = None
    MaxAttempts = 2
    Budgets <- MCBudgets
INVARIANTS NotInLimbo DiffReads
PROPERTIES ShowsTheRoom 
CHECK_DEADLOCK FALSE
