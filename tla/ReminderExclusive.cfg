SPECIFICATION Spec
CONSTANTS
    k1 = k1
    k2 = k2
    Replicas = {r1, r2}
    Reminders = {k1}
    Links = {}
    RoundOf <- MCRoundOf
    Ids = {i1}
    Free = Free
    NoReminder = NoReminder
    NoRow = NoRow
INVARIANT Exclusive
