CONSTANTS
    None = None
    Tenants = {t1}
    UserIds = {u1, u2}
    Emails = {"ann@corp"}
    Passwords = {"pw"}
    Digests <- MCDigests
    Digest <- MCDigest
    Canonical <- MCCanonical
    Workers = {w1, w2}
    Provisioned = {t1}
    Unfinished = {t1}
    Kinds = {"register", "login", "list", "create", "delete"}
    GrantableRoles = {"MEMBER"}
    Faults = {"error"}
    OperatorEdits = {"tenant", "user"}
    Lifetime = 1
    MaxTime = 0
SPECIFICATION FairSpec
PROPERTY Answered
