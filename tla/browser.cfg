CONSTANTS
    None = None
    Secrets = {s1, s2}
    Lifetimes = {1}
    Tenants = {"t1", "t2"}
    Active = {"t1", "t2"}
    Users <- MCUsers
    Home <- MCHome
    RoleOf <- MCRoleOf
    Tabs = {b1, b2}
    TenantCookieLife = 2
    TokenCookieLife = 1
    MaxTime = 2
    MaxSignIns = 2
SPECIFICATION Spec
SYMMETRY Symmetric
INVARIANTS TypeOK PageIsOneSession
PROPERTIES ChangesAreSeen SignedInIsServed PageGoesOnWorking
