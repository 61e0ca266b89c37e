------------------------ MODULE TenantApiProperties ------------------------
(* What the API must guarantee while requests, failures, crashes and       *)
(* operator edits interleave.                                              *)
EXTENDS TenantApi

Served(w, kinds) == pc[w] # "idle" /\ req[w].kind \in kinds

(* Two live users of a tenant never share an address, although register    *)
(* and create test for it in one session and insert in another: the race   *)
(* is decided by the UNIQUE column (user_repository.py create).            *)
UniqueEmail ==
    \A t \in Tenants : \A u, v \in UserIds :
        UserExists(t, u) /\ UserExists(t, v) /\ users[t][u].email = users[t][v].email
            => u = v

(* Every token ever issued, replayed at any time, states the role its      *)
(* subject holds in the tenant it names.  Authentication reads the role    *)
(* from the claim and never looks the membership up (auth.py), so this is  *)
(* what makes the claim trustworthy.                                       *)
TokenBacked ==
    \A k \in tokens : memberships[k.tenant][k.sub] = k.role

(* The steps of a guarded endpoint after its role check.                   *)
PastGuard(w) ==
    /\ Served(w, {"list", "create", "delete"})
    /\ pc[w] \in {"list_members", "fetch_users", "check_email", "insert_user",
                  "assign_role", "delete_lookup", "delete_commit"}

(* Whoever is past the guard of an endpoint is a member of the very tenant *)
(* whose database the handler touches, and an ADMIN or OWNER of it when    *)
(* the handler writes: "confirm tenant membership" in the docstring of     *)
(* get_current_user, although no line of it reads a membership.            *)
AuthorisedMember ==
    \A w \in Workers : PastGuard(w) =>
        LET role == memberships[Tenant(w)][req[w].token.sub]
        IN  role # None /\ (Served(w, {"create", "delete"}) => Privileged(role))

(* Whoever has a privilege in a tenant, alive or deleted, it has an owner, *)
(* alive or deleted: a role above MEMBER is granted by a request whose     *)
(* token states one (require_role in users.py), and the first of them can  *)
(* only be the owner's.                                                    *)
PrivilegeFromOwner ==
    \A t \in Tenants, u \in UserIds :
        Privileged(memberships[t][u]) => \E v \in UserIds : memberships[t][v] = "OWNER"

(* No live user holds a privileged role and no creation that could make    *)
(* one is already past its guard.                                          *)
CreationUnderWay(t) ==
    \E w \in Workers : /\ Served(w, {"create"}) /\ Tenant(w) = t
                       /\ pc[w] \in {"check_email", "insert_user", "assign_role"}
Leaderless(t) ==
    /\ \A u \in UserIds : UserExists(t, u) => ~Privileged(memberships[t][u])
    /\ ~CreationUnderWay(t)

(* A provisioned tenant whose last ADMIN or OWNER is deleted never gets    *)
(* another through the API: the tokens of deleted users stop working, and  *)
(* nothing but a privileged request grants a privilege.                    *)
PrivilegeStaysLost ==
    [][\A t \in Tenants : Leaderless(t) => Leaderless(t)']_vars

(* The rendered user list, read in one session per row while others create *)
(* and delete: no member that was read and still exists is left out, and   *)
(* every row shown carries the role the member has in this tenant.         *)
ListFaithful ==
    \A w \in Workers : Served(w, {"list"}) /\ status[w] = 200 =>
        /\ \A row \in members[w] : UserExists(Tenant(w), row[1]) => row \in listed[w]
        /\ \A row \in listed[w] : memberships[Tenant(w)][row[1]] = row[2]

(* A user row without a membership is one its creator is about to enrol.   *)
(* Row and membership are two commits (register_user.py, create_user.py).  *)
BeingEnrolled(t, u) ==
    \E w \in Workers : pc[w] = "assign_role" /\ Tenant(w) = t /\ uid[w] = u
OrphansAreBeingEnrolled ==
    \A t \in Tenants, u \in UserIds :
        UserExists(t, u) /\ memberships[t][u] = None => BeingEnrolled(t, u)

(* A delete request answered 200 removed the row: two of them for one user *)
(* do not both succeed (delete_by_id: False if no such user exists).       *)
DeleteRemoves ==
    [][\A w \in Workers :
        Served(w, {"delete"}) /\ status[w] = 0 /\ status'[w] = 200
            => UserExists(Tenant(w), req[w].target)]_vars

(* The user a login means: the row whose stored address is the one typed,  *)
(* with the password, active and enrolled.                                 *)
Entitled(w, u) ==
    /\ u \in UsersWithEmail(Tenant(w), req[w].email)
    /\ LoginAccepts(w, u) /\ memberships[Tenant(w)][u] # None

(* Login answers 401 only for an unknown address, a wrong password, an     *)
(* inactive account or a missing membership (login in routers/auth.py).    *)
RefusedForCause ==
    [][\A w \in Workers :
        Served(w, {"login"}) /\ status[w] = 0 /\ status'[w] = 401
            => ~\E u \in UserIds : Entitled(w, u)]_vars

(* Every request is answered, whatever the others do meanwhile.            *)
Answered == \A w \in Workers : pc[w] = "resolve" ~> pc[w] = "replied"
-----------------------------------------------------------------------------
(* The API implements the abstract accounts: an account is the two rows    *)
(* of a user, and it stays closed once the membership alone is left.       *)
AccountOf(t, u) ==
    LET row == users[t][u]  role == memberships[t][u]
    IN  [state |-> CASE row = None /\ role = None -> "none"
                     [] row # None /\ role = None -> "pending"
                     [] row # None /\ role # None -> "enrolled"
                     [] OTHER                     -> "closed",
         email |-> IF row = None THEN None ELSE row.email,
         role  |-> role]

AbstractAccounts == [t \in Tenants |-> [u \in UserIds |-> AccountOf(t, u)]]
AbstractSessions == {[tenant |-> k.tenant, sub |-> k.sub, role |-> k.role] : k \in tokens}

A == INSTANCE Accounts WITH accounts <- AbstractAccounts, sessions <- AbstractSessions

(* Every behaviour of the API, with its races, failures and crashes, is a  *)
(* behaviour of the abstract accounts.                                     *)
ImplementsAccounts == A!Spec
=============================================================================
