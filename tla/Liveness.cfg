SPECIFICATION MCLiveSpec
CONSTANTS
    u1 = u1
    Users = {u1}
    Tokens = {t1, t2}
    Workers = {w1, w2}
    NoUser = NoUser
    NoToken = NoToken
    Jtis = {j1}
    AccessLife = 1
    ShadowLife = 1
    TicksPerSecond = 2
    MaxTime = 5
    NoJti = NoJti
    Subjects = {u1}
    ErasureCalls = {r1}
    GraceHours = 1
    LastHour = 2
    NotDue = NotDue
PROPERTIES
    BlacklistPruned
    SessionsSettle
    DueIsErased
