CONSTANTS
    None = None
    Tenants = {t1}
    UserIds = {u1, u2, u3}
    Emails = {"ann@corp", "bob@corp", "cyd@corp"}
    Passwords = {"pw"}
    Digests <- MCDigests
    Digest <- MCDigest
    Canonical <- MCCanonical
    Workers = {w1, w2}
    Provisioned = {t1}
    Unfinished = {}
    Kinds = {"login", "register", "create", "list", "delete"}
    GrantableRoles = {"VIEWER"}
    Faults = {}
    OperatorEdits = {}
    Lifetime = 1
    MaxTime = 0
SPECIFICATION Spec
SYMMETRY Symmetric
INVARIANTS ListFaithful OrphansAreBeingEnrolled
