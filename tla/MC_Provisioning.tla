-------------------------- MODULE MC_Provisioning --------------------------
(* Instances of the operator's scripts for TLC.                            *)
EXTENDS ProvisioningProperties, TLC

MCDigests == {"digest of pw"}
MCDigest  == [p \in Passwords |-> "digest of pw"]

(* The scripts store an address as typed and never normalise it.           *)
MCCanonical == [e \in Emails |-> e]

Symmetric == Permutations(Scripts) \cup Permutations(UserIds) \cup Permutations(Tenants)
=============================================================================
