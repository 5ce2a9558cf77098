SPECIFICATION Spec
CONSTANTS
    u1 = u1
    u2 = u2
    Users = {u1, u2}
    Tokens = {t1, t2, t3}
    Workers = {w1, w2}
    RoleOf <- MCRoleOf
    TenantOf <- MCTenantOf
    NoUser = NoUser
    NoToken = NoToken
SYMMETRY MCSymmetry
INVARIANTS
    RefusedIsFinal
PROPERTIES
    LifecycleRefined
