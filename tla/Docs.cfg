SPECIFICATION MCSpec
CONSTANTS
    Parts = {"notes", "history", "list"}
    Replica = {r1, r2}
    Editor = {e1, e2}
    Typing = {t1, t2}
    Upload = {u1}
    Nowhere = Nowhere
    None = None
    CompactAfter = 2
    Budgets <- MCBudgets
SYMMETRY Symmetry
INVARIANTS  OneSection CopiesCurrent ListKept
PROPERTIES  VersionsKept
CHECK_DEADLOCK FALSE
