SPECIFICATION Spec
CONSTANTS
    u1 = u1
    u2 = u2
    Users = {u1}
    Tokens = {t1, t2}
    Workers = {w1, w2}
    RoleOf <- MCRoleOf
    TenantOf <- MCTenantOf
    NoUser = NoUser
    NoToken = NoToken
INVARIANT LogoutEverywhere
