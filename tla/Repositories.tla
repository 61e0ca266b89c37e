---------------------------- MODULE Repositories ----------------------------
(* The stored data: the tenant registry, and one SQLite database per       *)
(* tenant with its users and memberships tables, together with the         *)
(* operations of the three repositories.  Every repository method opens    *)
(* its own session, so each of them is one atomic step of its caller and   *)
(* nothing is held between two of them.                                    *)
EXTENDS Roles

CONSTANTS
    Tenants,     \* slugs that may ever be registered
    UserIds,     \* the values uuid4 can draw (bounded; see drawn)
    Emails,      \* spellings of e-mail addresses
    Passwords,   \* plain passwords
    Digests,     \* what a stored hash lets verify() compare
    Digest,      \* bcrypt: passwords with one digest verify against each other
    Canonical,   \* EmailStr: a spelling to its normal form, or None if refused
    None         \* "no such row", "not supplied"

ASSUME DigestAssumption    == Digest \in [Passwords -> Digests]
ASSUME CanonicalAssumption == Canonical \in [Emails -> Emails \cup {None}]

TableNames == {"users", "memberships"}

(* A row of the users table; its primary key is the index of the function. *)
UserRow == [email : Emails, hashed_password : Digests, is_active : BOOLEAN]

ASSUME NoneAssumption ==
    /\ None \notin UserIds
    /\ None \notin Tenants
    /\ None \notin Emails
    /\ None \notin Passwords
    /\ None \notin Role
    /\ None \notin UserRow

VARIABLES
    registry,     \* [Tenants -> {"absent", "active", "inactive"}]
    tables,       \* tables that exist in each tenant database
    users,        \* users[t][u]: a row, or None
    memberships,  \* memberships[t][u]: a role, or None.  The tenant_slug of a
                  \* row is always its database's: both come from one request
    drawn         \* identifiers uuid4 has returned; it never repeats one

dataVars == <<registry, tables, users, memberships, drawn>>

DataTypeOK ==
    /\ registry \in [Tenants -> {"absent", "active", "inactive"}]
    /\ tables \in [Tenants -> SUBSET TableNames]
    /\ users \in [Tenants -> [UserIds -> UserRow \cup {None}]]
    /\ memberships \in [Tenants -> [UserIds -> Role \cup {None}]]
    /\ drawn \in SUBSET UserIds
-----------------------------------------------------------------------------
(* TenantRepository *)
TenantActive(t) == registry[t] = "active"

(* UserRepository *)
UserExists(t, u) == users[t][u] # None
UserActive(t, u) == UserExists(t, u) /\ users[t][u].is_active

(* The answer of get_by_email; at most one row, by the UNIQUE constraint.  *)
UsersWithEmail(t, e) ==
    {u \in UserIds : UserExists(t, u) /\ users[t][u].email = e}

EmailTaken(t, e) == UsersWithEmail(t, e) # {}

(* Mutant: the plain password is stored.                                   *)
NewUserUnhashed(e, p) == [email |-> e, hashed_password |-> p, is_active |-> TRUE]

NewUser(e, p) == [email |-> e, hashed_password |-> Digest[p], is_active |-> TRUE]

(* Mutant: the users table is created without UNIQUE on its address.       *)
UniqueUnchecked(t, e) == FALSE

(* create(): the insert, and the IntegrityError the UNIQUE column raises.  *)
UniqueViolated(t, e) == EmailTaken(t, e)
AddUser(t, u, row)   == users' = [users EXCEPT ![t][u] = row]

(* delete_by_id() after its lookup: a DELETE that matches no row succeeds. *)
RemoveUser(t, u) == users' = [users EXCEPT ![t][u] = None]

(* MembershipRepository: assign_role is an upsert on (user_id, tenant).    *)
UpsertMembership(t, u, role) ==
    memberships' = [memberships EXCEPT ![t][u] = role]

MembersOf(t) == {u \in UserIds : memberships[t][u] # None}

PasswordVerifies(p, row) == Digest[p] = row.hashed_password

GenerateId(u) == u \notin drawn /\ drawn' = drawn \cup {u}
=============================================================================
