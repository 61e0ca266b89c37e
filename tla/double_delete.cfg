CONSTANTS
    None = None
    Tenants = {t1}
    UserIds = {u1, u2}
    Emails = {"ann@corp", "bob@corp"}
    Passwords = {"pw"}
    Digests <- MCDigests
    Digest <- MCDigest
    Canonical <- MCCanonical
    Workers = {w1, w2}
    Provisioned = {t1}
    Unfinished = {}
    Kinds = {"register", "login", "delete"}
    GrantableRoles = {}
    Faults = {}
    OperatorEdits = {}
    Lifetime = 1
    MaxTime = 0
SPECIFICATION Spec
SYMMETRY Symmetric
PROPERTY DeleteRemoves
