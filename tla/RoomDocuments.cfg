SPECIFICATION MCSpec
CONSTANTS
    m1 = m1  m2 = m2
    Msg = {m1, m2}
    RoomOf <- MCRoomOf
    None = None
    MaxAttempts = 2
    Budgets <- MCBudgets
INVARIANTS ListIsOfThisRoom
CHECK_DEADLOCK FALSE
