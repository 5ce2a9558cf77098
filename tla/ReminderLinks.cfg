SPECIFICATION Spec
CONSTANTS
    k1 = k1
    k2 = k2
    Replicas = {r1}
    Reminders = {k1}
    Links = {k1}
    RoundOf <- MCRoundOf
    Ids = {i1}
    Free = Free
    NoReminder = NoReminder
    NoRow = NoRow
INVARIANT SentReminders
