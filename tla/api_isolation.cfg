CONSTANTS
    None = None
    Tenants = {t1, t2}
    UserIds = {u1, u2, u3}
    Emails = {"ann@corp"}
    Passwords = {"pw"}
    Digests <- MCDigests
    Digest <- MCDigest
    Canonical <- MCCanonical
    Workers = {w1, w2}
    Provisioned = {t1, t2}
    Unfinished = {}
    Kinds = {"login", "create", "delete"}
    GrantableRoles = {"ADMIN", "MEMBER"}
    Faults = {}
    OperatorEdits = {}
    Lifetime = 0
    MaxTime = 1
SPECIFICATION Spec
SYMMETRY Symmetric
INVARIANTS AuthorisedMember
PROPERTY PrivilegeStaysLost
