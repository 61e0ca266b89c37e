----------------------------- MODULE MC_Browser -----------------------------
(* Instances of the browser for TLC: the owners of two tenants, and a      *)
(* member the first one may yet get.                                       *)
EXTENDS BrowserProperties, TLC

MCUsers == {"ann", "bob", "mia"}
MCHome  == [u \in MCUsers |-> IF u = "bob" THEN "t2" ELSE "t1"]
MCRoleOf == [u \in MCUsers |-> IF u = "mia" THEN "MEMBER" ELSE "OWNER"]

Symmetric == Permutations(Tabs) \cup Permutations(Secrets)
=============================================================================
