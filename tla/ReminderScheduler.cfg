SPECIFICATION FairSpec
CONSTANTS
    k1 = k1
    k2 = k2
    Replicas = {r1, r2}
    Reminders = {k1, k2}
    Links = {k2}
    RoundOf <- MCRoundOf
    Ids = {i1}
    Free = Free
    NoReminder = NoReminder
    NoRow = NoRow
INVARIANTS
    ExclusiveUntilOverrun
    DuplicateNeedsCause
    SentMails
PROPERTIES
    CyclesGoOn
