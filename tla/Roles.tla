------------------------------- MODULE Roles -------------------------------
(* The role hierarchy of a tenant and the check every guarded endpoint     *)
(* makes with it (src/domain/entities.py and require_role in               *)
(* src/api/dependencies/auth.py).                                          *)
EXTENDS Naturals

Role == {"OWNER", "ADMIN", "MEMBER", "VIEWER"}

ROLE_LEVEL == [r \in Role |-> CASE r = "OWNER"  -> 3
                                [] r = "ADMIN"  -> 2
                                [] r = "MEMBER" -> 1
                                [] r = "VIEWER" -> 0]

RoleSatisfies(userRole, requiredRole) ==
    ROLE_LEVEL[userRole] >= ROLE_LEVEL[requiredRole]

(* The lowest level of a non-empty set of roles: min(...) in require_role. *)
MinLevel(roles) ==
    CHOOSE level \in {ROLE_LEVEL[r] : r \in roles} :
        \A r \in roles : level <= ROLE_LEVEL[r]

PassesRequireRole(userRole, minimumRoles) ==
    ROLE_LEVEL[userRole] >= MinLevel(minimumRoles)

(* Mutant: require_role(ADMIN, MEMBER) where ADMIN was meant; the lowest   *)
(* of the roles is what counts.                                            *)
RequiredRolesLoose(kind) == IF kind = "list" THEN {"VIEWER"} ELSE {"ADMIN", "MEMBER"}

(* The argument of require_role at each guarded endpoint of users.py.      *)
RequiredRoles(kind) == IF kind = "list" THEN {"VIEWER"} ELSE {"ADMIN"}

Privileged(role) == role \in Role /\ RoleSatisfies(role, "ADMIN")
=============================================================================
