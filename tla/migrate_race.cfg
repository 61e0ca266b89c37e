CONSTANTS
    None = None
    Tenants = {t1}
    UserIds = {u1, u2, u3}
    Emails = {"ann@corp", "bob@corp"}
    Passwords = {"pw"}
    Digests <- MCDigests
    Digest <- MCDigest
    Canonical <- MCCanonical
    Scripts = {s1, s2}
    Jobs = {"create", "migrate"}
    Faults = {}
SPECIFICATION FairSpec
PROPERTY OwnerArrives
