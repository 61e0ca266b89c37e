CONSTANTS
    None = None
    Tenants = {t1}
    UserIds = {u1, u2, u3}
    Emails = {"ann@corp", "ann@CORP", "no address"}
    Passwords = {"pw"}
    Digests <- MCDigests
    Digest <- MCDigest
    Canonical <- MCCanonical
    Workers = {w1, w2}
    Provisioned = {t1}
    Unfinished = {}
    Kinds = {"register", "login", "create", "delete"}
    GrantableRoles = {"ADMIN"}
    Faults = {"error", "crash"}
    OperatorEdits = {}
    Lifetime = 1
    MaxTime = 0
SPECIFICATION Spec
SYMMETRY Symmetric
INVARIANTS TypeOK UniqueEmail TokenBacked
PROPERTY ImplementsAccounts
