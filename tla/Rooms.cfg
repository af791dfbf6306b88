SPECIFICATION Spec
CONSTANTS
    host = host  guest = guest
    g1 = g1  g2 = g2
    Person = {host, guest}
    Host = host
    Conn = {g1, g2}
    Whose <- MCWhose
    Home <- MCHome
    None = None
    Budgets <- MCBudgets
SYMMETRY Symmetry
INVARIANTS NobodyForgotten 
PROPERTIES InsideByRight
CHECK_DEADLOCK FALSE
