CONSTANTS
    None = None
    Tenants = {t1}
    UserIds = {u1, u2, u3}
    Emails = {"ann@corp", "ann@CORP"}
    Passwords = {"pw"}
    Digests <- MCDigests
    Digest <- MCDigest
    Canonical <- MCCanonical
    Workers = {w1}
    Provisioned = {}
    Unfinished = {}
    Kinds = {"register", "login", "create", "delete"}
    GrantableRoles = {"ADMIN"}
    Faults = {"error"}
    OperatorEdits = {}
    Lifetime = 1
    MaxTime = 0
    Scripts = {s1, s2}
    Jobs = {"create", "migrate"}
SPECIFICATION SystemSpec
SYMMETRY Symmetric
INVARIANTS SystemTypeOK TokenBacked AbandonedLockedOut PrivilegeFromOwner
PROPERTIES ImplementsAccounts RolesForGood LockedOutForGood
