---------------------------- MODULE MC_TenantApi ----------------------------
(* Instances of the API for TLC.                                           *)
EXTENDS TenantApiProperties, TLC

(* bcrypt as these instances need it: different passwords, different       *)
(* digests.                                                                *)
MCDigests == {"digest of pw", "another digest"}
MCDigest  == [p \in Passwords |-> IF p = "pw" THEN "digest of pw" ELSE "another digest"]

(* email-validator lowers the domain and refuses what is no address.       *)
MCCanonical ==
    [e \in Emails |-> CASE e = "ann@CORP"  -> "ann@corp"
                        [] e = "no address" -> None
                        [] OTHER            -> e]

Symmetric == Permutations(UserIds) \cup Permutations(Workers)
=============================================================================
