----------------------------- MODULE MC_System -----------------------------
(* An instance of the whole system for TLC.                                *)
EXTENDS System, TLC

MCDigests == {"digest of pw"}
MCDigest  == [p \in Passwords |-> "digest of pw"]

(* Two spellings the API takes for one address, and the scripts for two.   *)
MCCanonical == [e \in Emails |-> IF e = "ann@CORP" THEN "ann@corp" ELSE e]

Symmetric == Permutations(UserIds) \cup Permutations(Workers) \cup Permutations(Scripts)
=============================================================================
