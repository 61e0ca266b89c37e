---------------------------- MODULE RolesProofs ----------------------------
(* Theorems about the role hierarchy.                                      *)
EXTENDS Roles, TLAPS

LEMMA RoleLevels ==
    /\ ROLE_LEVEL["OWNER"] = 3
    /\ ROLE_LEVEL["ADMIN"] = 2
    /\ ROLE_LEVEL["MEMBER"] = 1
    /\ ROLE_LEVEL["VIEWER"] = 0
  BY DEF ROLE_LEVEL, Role

LEMMA RoleLevelNat == \A r \in Role : ROLE_LEVEL[r] \in 0..3
  BY RoleLevels DEF Role

(* Levels are between 0 and 3, so a non-empty set of roles has a lowest    *)
(* one: min() in require_role always has an answer, and it is one of them. *)
LEMMA MinLevelExists ==
    ASSUME NEW roles \in SUBSET Role, roles # {}
    PROVE  /\ MinLevel(roles) \in {ROLE_LEVEL[r] : r \in roles}
           /\ \A r \in roles : MinLevel(roles) <= ROLE_LEVEL[r]
<1> DEFINE Levels == {ROLE_LEVEL[r] : r \in roles}
           Least(l) == l \in Levels /\ \A r \in roles : l <= ROLE_LEVEL[r]
<1>1. Levels \subseteq 0..3
  BY RoleLevelNat
<1>2. \E l : Least(l)
  <2>1. CASE 0 \in Levels
    BY <2>1, RoleLevelNat
  <2>2. CASE 0 \notin Levels /\ 1 \in Levels
    BY <2>2, RoleLevelNat
  <2>3. CASE 0 \notin Levels /\ 1 \notin Levels /\ 2 \in Levels
    BY <2>3, RoleLevelNat
  <2>4. CASE Levels \subseteq {3}
    BY <2>4, RoleLevelNat
  <2> QED
    BY <1>1, <2>1, <2>2, <2>3, <2>4
<1> QED
  BY <1>2 DEF MinLevel

(* require_role(roles) admits a user exactly when the role of the user    *)
(* satisfies one of the roles given, whatever non-empty set is given: the  *)
(* minimum over levels in auth.py is the disjunction its docstring states. *)
THEOREM RequireRoleIsDisjunction ==
    ASSUME NEW userRole \in Role, NEW roles \in SUBSET Role, roles # {}
    PROVE  PassesRequireRole(userRole, roles)
               <=> \E r \in roles : RoleSatisfies(userRole, r)
<1>1. PICK least \in roles : MinLevel(roles) = ROLE_LEVEL[least]
  BY MinLevelExists
<1>2. ASSUME PassesRequireRole(userRole, roles)
      PROVE  \E r \in roles : RoleSatisfies(userRole, r)
  BY <1>1, <1>2 DEF PassesRequireRole, RoleSatisfies
<1>3. ASSUME NEW r \in roles, RoleSatisfies(userRole, r)
      PROVE  PassesRequireRole(userRole, roles)
  <2>1. MinLevel(roles) <= ROLE_LEVEL[r]
    BY MinLevelExists
  <2> QED
    BY <1>1, <1>3, <2>1, RoleLevelNat DEF PassesRequireRole, RoleSatisfies
<1> QED
  BY <1>2, <1>3

(* The hierarchy is a total order, so "at least this role" is unambiguous. *)
THEOREM RolesTotallyOrdered ==
    \A r, s, t \in Role :
        /\ RoleSatisfies(r, s) \/ RoleSatisfies(s, r)
        /\ RoleSatisfies(r, s) /\ RoleSatisfies(s, r) => r = s
        /\ RoleSatisfies(r, s) /\ RoleSatisfies(s, t) => RoleSatisfies(r, t)
<1> SUFFICES ASSUME NEW r \in Role, NEW s \in Role, NEW t \in Role
             PROVE  /\ RoleSatisfies(r, s) \/ RoleSatisfies(s, r)
                    /\ RoleSatisfies(r, s) /\ RoleSatisfies(s, r) => r = s
                    /\ RoleSatisfies(r, s) /\ RoleSatisfies(s, t) => RoleSatisfies(r, t)
  OBVIOUS
<1>1. RoleSatisfies(r, s) /\ RoleSatisfies(s, r) => r = s
  BY RoleLevels DEF RoleSatisfies, Role
<1> QED
  BY <1>1, RoleLevelNat DEF RoleSatisfies

(* The guard of POST and DELETE /users admits ADMIN and OWNER only; the    *)
(* guard of GET /users admits every role.                                  *)
LEMMA GuardedEndpoints ==
    ASSUME NEW role \in Role, NEW kind
    PROVE  /\ kind = "list" => PassesRequireRole(role, RequiredRoles(kind))
           /\ kind # "list" => (PassesRequireRole(role, RequiredRoles(kind)) <=> Privileged(role))
<1>1. ASSUME kind = "list" PROVE PassesRequireRole(role, RequiredRoles(kind))
  <2>1. RoleSatisfies(role, "VIEWER")
    BY RoleLevels, RoleLevelNat DEF RoleSatisfies
  <2> QED
    BY <1>1, <2>1, RequireRoleIsDisjunction DEF RequiredRoles, Role
<1>2. ASSUME kind # "list" PROVE PassesRequireRole(role, RequiredRoles(kind)) <=> Privileged(role)
  <2>1. /\ {"ADMIN"} \in SUBSET Role
        /\ RequiredRoles(kind) = {"ADMIN"}
    BY <1>2 DEF RequiredRoles, Role
  <2> QED
    BY <2>1, RequireRoleIsDisjunction DEF Privileged
<1> QED
  BY <1>1, <1>2
=============================================================================
