CONSTANTS
    None = None
    Tenants = {t1}
    UserIds = {u1, u2}
    Emails = {"ann@corp", "ann@CORP"}
    Passwords = {"pw"}
    Digests <- MCDigests
    Digest <- MCDigest
    Canonical <- MCCanonical
    Workers = {w1}
    Provisioned = {t1}
    Unfinished = {}
    Kinds = {"login"}
    GrantableRoles = {}
    Faults = {}
    OperatorEdits = {}
    Lifetime = 1
    MaxTime = 0
SPECIFICATION Spec
PROPERTY RefusedForCause
