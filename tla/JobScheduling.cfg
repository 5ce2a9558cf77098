SPECIFICATION Spec
CONSTANTS
    j1 = j1
    j2 = j2
    e1 = e1
    Clerks = {c1, c2}
    Jobs = {j1, j2}
    Employees = {e1}
    Slots <- MCSlots
    DayLength = 3
    Requests <- MCRequests
    None = None
SYMMETRY MCSymmetry
INVARIANTS
    
    StaleNeedsCause
