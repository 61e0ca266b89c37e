------------------------------ MODULE TenantApi ------------------------------
(* The HTTP API at work: requests served concurrently (FastAPI runs the    *)
(* synchronous endpoints in a thread pool), each a sequence of database    *)
(* sessions with nothing held in between.  One worker is one request slot: *)
(* tenant middleware, authentication, role check, endpoint, use case and   *)
(* repositories, one action per database session.                          *)
EXTENDS Repositories, FiniteSets

CONSTANTS
    Workers,         \* requests in flight at once
    Provisioned,     \* tenants create_tenant was run for before the start
    Unfinished,      \* those of them in which it may have died
    Kinds,           \* endpoints the clients call
    GrantableRoles,  \* roles the clients of POST /users ask for
    Faults,          \* "error": a session may raise; "crash": the process dies
    OperatorEdits,   \* is_active columns edited in the database by hand
    Lifetime,        \* JWT_EXPIRE_MINUTES
    MaxTime          \* bound of the clock

Kind == {"register", "login", "list", "create", "delete"}

ASSUME ProvisionedAssumption == Provisioned \subseteq Tenants
ASSUME UnfinishedAssumption  == Unfinished \subseteq Provisioned
ASSUME KindsAssumption       == Kinds \subseteq Kind
ASSUME GrantableAssumption   == GrantableRoles \subseteq Role
ASSUME TimeAssumption        == Lifetime \in Nat /\ MaxTime \in Nat

(* The claims of a signed JWT.                                             *)
Token == [sub : UserIds, tenant : Tenants, role : Role, exp : Nat]

Request == [kind : Kind, tenant : Tenants \cup {None}, email : Emails \cup {None},
            password : Passwords \cup {None}, role : Role \cup {None},
            token : Token \cup {None}, target : UserIds \cup {None}]

ASSUME NoRequestAssumption == None \notin Token /\ None \notin Request

VARIABLES
    now,        \* the clock
    tokens,     \* tokens issued so far; clients keep and replay them
    pc,         \* what each worker does next
    req,        \* the request each worker serves
    uid,        \* the user a handler has created, or found by e-mail
    members,    \* the rows list_members returned: <<user, role>>
    unfetched,  \* those the list loop has not reached
    listed,     \* those it has appended to its result
    status      \* the response code, once there is one

workerVars == <<pc, req, uid, members, unfetched, listed, status>>
vars == <<dataVars, now, tokens, workerVars>>

(* The sessions of each endpoint, by the table they use.                   *)
UserSteps       == {"authenticate", "check_email", "insert_user", "find_user",
                    "fetch_users", "delete_lookup", "delete_commit"}
MembershipSteps == {"assign_role", "get_membership", "list_members"}
PC == {"idle", "resolve", "replied"} \cup UserSteps \cup MembershipSteps

Status == {0, 200, 201, 400, 401, 403, 404, 409, 422, 500}

TypeOK ==
    /\ DataTypeOK
    /\ now \in Nat
    /\ tokens \subseteq Token
    /\ pc \in [Workers -> PC]
    /\ req \in [Workers -> Request \cup {None}]
    /\ \A w \in Workers : pc[w] # "idle" => req[w] # None
    /\ uid \in [Workers -> UserIds \cup {None}]
    /\ members \in [Workers -> SUBSET (UserIds \X Role)]
    /\ unfetched \in [Workers -> SUBSET (UserIds \X Role)]
    /\ listed \in [Workers -> SUBSET (UserIds \X Role)]
    /\ status \in [Workers -> Status]
-----------------------------------------------------------------------------
(* Initially create_tenant has run for the provisioned tenants and seeded  *)
(* an owner in each, or has died while it migrated an unfinished one.      *)
OwnerRows(done, owner, email, password) ==
    [t \in Tenants |-> [u \in UserIds |->
        IF t \in done /\ u = owner[t] THEN NewUser(email[t], password[t]) ELSE None]]

OwnerMemberships(done, owner) ==
    [t \in Tenants |-> [u \in UserIds |->
        IF t \in done /\ u = owner[t] THEN "OWNER" ELSE None]]

InitTables(done, migrated) ==
    [t \in Tenants |-> CASE t \in done               -> TableNames
                         [] t \in Provisioned \ done -> migrated[t]
                         [] OTHER                    -> {}]

InitStore(done) ==
    /\ registry = [t \in Tenants |-> IF t \in Provisioned THEN "active" ELSE "absent"]
    /\ \E migrated \in [Provisioned -> {{}, {"users"}}] : tables = InitTables(done, migrated)
    /\ \E owner \in [done -> UserIds], email \in [done -> Emails],
          password \in [done -> Passwords] :
        /\ \A s, t \in done : owner[s] = owner[t] => s = t
        /\ users = OwnerRows(done, owner, email, password)
        /\ memberships = OwnerMemberships(done, owner)
        /\ drawn = {owner[t] : t \in done}

Init ==
    /\ \E died \in SUBSET Unfinished : InitStore(Provisioned \ died)
    /\ now = 0
    /\ tokens = {}
    /\ pc = [w \in Workers |-> "idle"]
    /\ req = [w \in Workers |-> None]
    /\ uid = [w \in Workers |-> None]
    /\ members = [w \in Workers |-> {}]
    /\ unfetched = [w \in Workers |-> {}]
    /\ listed = [w \in Workers |-> {}]
    /\ status = [w \in Workers |-> 0]
-----------------------------------------------------------------------------
(* Requests.  A client knows the identifiers of enrolled users (responses  *)
(* and the users page show them); it may present any token issued, or none *)
(* that decodes.  A create request's role None is text that is no role.    *)
KnownIds == UNION {MembersOf(t) : t \in Tenants}
Slugs    == Tenants \cup {None}

Credentials(k) ==
    [kind : {k}, tenant : Slugs, email : Emails, password : Passwords,
     role : {None}, token : {None}, target : {None}]

Inputs(k) ==
    CASE k \in {"register", "login"} -> Credentials(k)
      [] k = "list" ->
            [kind : {k}, tenant : Slugs, email : {None}, password : {None},
             role : {None}, token : tokens \cup {None}, target : {None}]
      [] k = "create" ->
            [kind : {k}, tenant : Slugs, email : Emails, password : Passwords,
             role : GrantableRoles \cup {None}, token : tokens \cup {None}, target : {None}]
      [] k = "delete" ->
            [kind : {k}, tenant : Slugs, email : {None}, password : {None},
             role : {None}, token : tokens \cup {None}, target : KnownIds]

Creating == {"register", "create"}

(* Bound: no more creations are started than identifiers are left to draw. *)
WillDraw == {w \in Workers : /\ pc[w] \in {"resolve", "authenticate", "check_email"}
                             /\ req[w].kind \in Creating}
IdLeftFor(k) == k \in Creating => Cardinality(WillDraw) < Cardinality(UserIds \ drawn)

Goto(w, step)    == pc' = [pc EXCEPT ![w] = step]
Reply(w, code)   == Goto(w, "replied") /\ status' = [status EXCEPT ![w] = code]
Tenant(w)        == req[w].tenant
HasTable(w, tab) == tab \in tables[Tenant(w)]

(* The body schemas of /auth normalise the address; the form of POST       *)
(* /users takes it as typed.                                               *)
EmailOf(w) == IF req[w].kind = "create" THEN req[w].email ELSE Canonical[req[w].email]

Receive(w) ==
    /\ pc[w] = "idle"
    /\ \E k \in Kinds :
        /\ IdLeftFor(k)
        /\ \E r \in Inputs(k) : req' = [req EXCEPT ![w] = r]
    /\ Goto(w, "resolve")
    /\ UNCHANGED <<dataVars, now, tokens, uid, members, unfetched, listed, status>>
-----------------------------------------------------------------------------
(* TenantMiddleware.dispatch, then the validation of the body.             *)
MissingTenant(w) == pc[w] = "resolve" /\ Tenant(w) = None

UnknownTenant(w) ==
    pc[w] = "resolve" /\ Tenant(w) # None /\ ~TenantActive(Tenant(w))

TenantResolved(w) ==
    pc[w] = "resolve" /\ Tenant(w) # None /\ TenantActive(Tenant(w))

HasCredentials(w) == req[w].kind \in {"register", "login"}
InvalidBody(w) == HasCredentials(w) /\ Canonical[req[w].email] = None

RefuseTenant(w) ==
    /\ \/ MissingTenant(w) /\ Reply(w, 400)
       \/ UnknownTenant(w) /\ Reply(w, 404)
    /\ UNCHANGED <<dataVars, now, tokens, req, uid, members, unfetched, listed>>

RefuseBody(w) ==
    /\ TenantResolved(w) /\ InvalidBody(w)
    /\ Reply(w, 422)
    /\ UNCHANGED <<dataVars, now, tokens, req, uid, members, unfetched, listed>>

FirstStep(k) ==
    CASE k = "register" -> "check_email"
      [] k = "login"    -> "find_user"
      [] OTHER          -> "authenticate"

Dispatch(w) ==
    /\ TenantResolved(w) /\ ~InvalidBody(w)
    /\ Goto(w, FirstStep(req[w].kind))
    /\ UNCHANGED <<dataVars, now, tokens, req, uid, members, unfetched, listed, status>>
-----------------------------------------------------------------------------
(* get_current_user and require_role: the token is judged by its claims,   *)
(* the role is the claim's, and one session reads the user.                *)
Expired(token) == now > token.exp

ClaimsAccepted(w) ==
    LET token == req[w].token
    IN  token # None /\ ~Expired(token) /\ token.tenant = Tenant(w)

(* Mutant: the token is enough, the user is not read.                      *)
PrincipalAssumed(w) == TRUE

PrincipalActive(w) == UserActive(Tenant(w), req[w].token.sub)

RoleSuffices(w) == PassesRequireRole(req[w].token.role, RequiredRoles(req[w].kind))

RefuseToken(w) ==
    /\ pc[w] = "authenticate" /\ ~ClaimsAccepted(w)
    /\ Reply(w, 401)
    /\ UNCHANGED <<dataVars, now, tokens, req, uid, members, unfetched, listed>>

RefusePrincipal(w) ==
    /\ pc[w] = "authenticate" /\ ClaimsAccepted(w) /\ HasTable(w, "users")
    /\ \/ ~PrincipalActive(w) /\ Reply(w, 401)
       \/ PrincipalActive(w) /\ ~RoleSuffices(w) /\ Reply(w, 403)
    /\ UNCHANGED <<dataVars, now, tokens, req, uid, members, unfetched, listed>>

HandlerStep(k) ==
    CASE k = "list"   -> "list_members"
      [] k = "create" -> "check_email"
      [] OTHER        -> "delete_lookup"

Authorise(w) ==
    /\ pc[w] = "authenticate" /\ ClaimsAccepted(w) /\ HasTable(w, "users")
    /\ PrincipalActive(w) /\ RoleSuffices(w)
    /\ Goto(w, HandlerStep(req[w].kind))
    /\ UNCHANGED <<dataVars, now, tokens, req, uid, members, unfetched, listed, status>>
-----------------------------------------------------------------------------
(* RegisterUserUseCase and CreateUserUseCase, with their endpoints.        *)
InvalidRole(w) == req[w].kind = "create" /\ req[w].role = None

RefuseRole(w) ==
    /\ pc[w] = "check_email" /\ InvalidRole(w)
    /\ Reply(w, 422)
    /\ UNCHANGED <<dataVars, now, tokens, req, uid, members, unfetched, listed>>

(* Mutant: an address already registered is enrolled again instead of      *)
(* refused.                                                                *)
EnrolsEmailTaken(w) ==
    /\ pc[w] = "check_email" /\ ~InvalidRole(w) /\ HasTable(w, "users")
    /\ \E u \in UsersWithEmail(Tenant(w), EmailOf(w)) : uid' = [uid EXCEPT ![w] = u]
    /\ Goto(w, "assign_role")
    /\ UNCHANGED <<dataVars, now, tokens, req, members, unfetched, listed, status>>

FindsEmailTaken(w) ==
    /\ pc[w] = "check_email" /\ ~InvalidRole(w) /\ HasTable(w, "users")
    /\ EmailTaken(Tenant(w), EmailOf(w))
    /\ Reply(w, 409)
    /\ UNCHANGED <<dataVars, now, tokens, req, uid, members, unfetched, listed>>

CheckEmail(w) ==
    /\ pc[w] = "check_email" /\ ~InvalidRole(w) /\ HasTable(w, "users")
    /\ ~EmailTaken(Tenant(w), EmailOf(w))
    /\ \E u \in UserIds : GenerateId(u) /\ uid' = [uid EXCEPT ![w] = u]
    /\ Goto(w, "insert_user")
    /\ UNCHANGED <<registry, tables, users, memberships, now, tokens, req,
                   members, unfetched, listed, status>>

InsertConflicts(w) ==
    /\ pc[w] = "insert_user" /\ HasTable(w, "users")
    /\ UniqueViolated(Tenant(w), EmailOf(w))
    /\ Reply(w, 409)
    /\ UNCHANGED <<dataVars, now, tokens, req, uid, members, unfetched, listed>>

(* Mutant: the token is made as soon as the user exists.                   *)
InsertUserAndIssue(w) ==
    /\ pc[w] = "insert_user" /\ HasTable(w, "users")
    /\ ~UniqueViolated(Tenant(w), EmailOf(w))
    /\ AddUser(Tenant(w), uid[w], NewUser(EmailOf(w), req[w].password))
    /\ tokens' = tokens \cup {[sub |-> uid[w], tenant |-> Tenant(w),
                                role |-> "MEMBER", exp |-> now + Lifetime]}
    /\ Goto(w, "assign_role")
    /\ UNCHANGED <<registry, tables, memberships, drawn, now, req, uid,
                   members, unfetched, listed, status>>

(* Mutant: register leaves the role to be assigned later.                  *)
InsertUserOnly(w) ==
    /\ pc[w] = "insert_user" /\ HasTable(w, "users")
    /\ ~UniqueViolated(Tenant(w), EmailOf(w))
    /\ AddUser(Tenant(w), uid[w], NewUser(EmailOf(w), req[w].password))
    /\ IF req[w].kind = "register" THEN Reply(w, 201)
       ELSE Goto(w, "assign_role") /\ UNCHANGED status
    /\ UNCHANGED <<registry, tables, memberships, drawn, now, tokens, req, uid,
                   members, unfetched, listed>>

InsertUser(w) ==
    /\ pc[w] = "insert_user" /\ HasTable(w, "users")
    /\ ~UniqueViolated(Tenant(w), EmailOf(w))
    /\ AddUser(Tenant(w), uid[w], NewUser(EmailOf(w), req[w].password))
    /\ Goto(w, "assign_role")
    /\ UNCHANGED <<registry, tables, memberships, drawn, now, tokens, req, uid,
                   members, unfetched, listed, status>>

NewToken(u, t, role) == [sub |-> u, tenant |-> t, role |-> role, exp |-> now + Lifetime]
RoleGranted(w) == IF req[w].kind = "register" THEN "MEMBER" ELSE req[w].role

(* register also issues the token of the new member.                       *)
AssignRole(w) ==
    /\ pc[w] = "assign_role" /\ HasTable(w, "memberships")
    /\ UpsertMembership(Tenant(w), uid[w], RoleGranted(w))
    /\ tokens' = IF req[w].kind = "register"
                 THEN tokens \cup {NewToken(uid[w], Tenant(w), "MEMBER")} ELSE tokens
    /\ Reply(w, 201)
    /\ UNCHANGED <<registry, tables, users, drawn, now, req, uid, members, unfetched, listed>>
-----------------------------------------------------------------------------
(* LoginUseCase.                                                           *)
LoginAccepts(w, u) ==
    /\ UserActive(Tenant(w), u)
    /\ PasswordVerifies(req[w].password, users[Tenant(w)][u])

RefuseLogin(w) ==
    /\ pc[w] = "find_user" /\ HasTable(w, "users")
    /\ \A u \in UsersWithEmail(Tenant(w), EmailOf(w)) : ~LoginAccepts(w, u)
    /\ Reply(w, 401)
    /\ UNCHANGED <<dataVars, now, tokens, req, uid, members, unfetched, listed>>

FindUser(w) ==
    /\ pc[w] = "find_user" /\ HasTable(w, "users")
    /\ \E u \in UsersWithEmail(Tenant(w), EmailOf(w)) :
        LoginAccepts(w, u) /\ uid' = [uid EXCEPT ![w] = u]
    /\ Goto(w, "get_membership")
    /\ UNCHANGED <<dataVars, now, tokens, req, members, unfetched, listed, status>>

RefuseStranger(w) ==
    /\ pc[w] = "get_membership" /\ HasTable(w, "memberships")
    /\ memberships[Tenant(w)][uid[w]] = None
    /\ Reply(w, 401)
    /\ UNCHANGED <<dataVars, now, tokens, req, uid, members, unfetched, listed>>

GetMembership(w) ==
    /\ pc[w] = "get_membership" /\ HasTable(w, "memberships")
    /\ memberships[Tenant(w)][uid[w]] # None
    /\ tokens' = tokens \cup
          {NewToken(uid[w], Tenant(w), memberships[Tenant(w)][uid[w]])}
    /\ Reply(w, 200)
    /\ UNCHANGED <<dataVars, now, req, uid, members, unfetched, listed>>
-----------------------------------------------------------------------------
(* ListUsersUseCase: the memberships in one session, then one session for  *)
(* the user of each, in the order the database returned them.              *)
ListMembers(w) ==
    /\ pc[w] = "list_members" /\ HasTable(w, "memberships")
    /\ LET rows == {<<u, memberships[Tenant(w)][u]>> : u \in MembersOf(Tenant(w))}
       IN  members' = [members EXCEPT ![w] = rows] /\ unfetched' = [unfetched EXCEPT ![w] = rows]
    /\ Goto(w, "fetch_users")
    /\ UNCHANGED <<dataVars, now, tokens, req, uid, listed, status>>

(* Mutant: a deleted user ends the loop (break for continue).              *)
FetchUserOrBreak(w) ==
    /\ pc[w] = "fetch_users" /\ HasTable(w, "users")
    /\ \E row \in unfetched[w] :
        IF UserExists(Tenant(w), row[1])
        THEN /\ unfetched' = [unfetched EXCEPT ![w] = @ \ {row}]
             /\ listed' = [listed EXCEPT ![w] = @ \cup {row}]
        ELSE unfetched' = [unfetched EXCEPT ![w] = {}] /\ UNCHANGED listed
    /\ UNCHANGED <<dataVars, now, tokens, pc, req, uid, members, status>>

(* Mutant: the loop asks again for a user it did not find.                 *)
FetchUserAgain(w) ==
    /\ pc[w] = "fetch_users" /\ HasTable(w, "users")
    /\ \E row \in unfetched[w] :
        /\ UserExists(Tenant(w), row[1])
        /\ unfetched' = [unfetched EXCEPT ![w] = @ \ {row}]
        /\ listed' = [listed EXCEPT ![w] = @ \cup {row}]
    /\ UNCHANGED <<dataVars, now, tokens, pc, req, uid, members, status>>

FetchUser(w) ==
    /\ pc[w] = "fetch_users" /\ HasTable(w, "users")
    /\ \E row \in unfetched[w] :
        /\ unfetched' = [unfetched EXCEPT ![w] = @ \ {row}]
        /\ listed' = IF UserExists(Tenant(w), row[1])
                     THEN [listed EXCEPT ![w] = @ \cup {row}] ELSE listed
    /\ UNCHANGED <<dataVars, now, tokens, pc, req, uid, members, status>>

RenderList(w) ==
    /\ pc[w] = "fetch_users" /\ unfetched[w] = {}
    /\ Reply(w, 200)
    /\ UNCHANGED <<dataVars, now, tokens, req, uid, members, unfetched, listed>>
-----------------------------------------------------------------------------
(* delete_by_id: the SELECT and the DELETE are two statements, and SQLite  *)
(* takes no lock before the DELETE.                                        *)
RefuseDelete(w) ==
    /\ pc[w] = "delete_lookup" /\ HasTable(w, "users")
    /\ ~UserExists(Tenant(w), req[w].target)
    /\ Reply(w, 404)
    /\ UNCHANGED <<dataVars, now, tokens, req, uid, members, unfetched, listed>>

DeleteLookup(w) ==
    /\ pc[w] = "delete_lookup" /\ HasTable(w, "users")
    /\ UserExists(Tenant(w), req[w].target)
    /\ Goto(w, "delete_commit")
    /\ UNCHANGED <<dataVars, now, tokens, req, uid, members, unfetched, listed, status>>

DeleteCommit(w) ==
    /\ pc[w] = "delete_commit" /\ HasTable(w, "users")
    /\ RemoveUser(Tenant(w), req[w].target)
    /\ Reply(w, 200)
    /\ UNCHANGED <<registry, tables, memberships, drawn, now, tokens, req, uid,
                   members, unfetched, listed>>
-----------------------------------------------------------------------------
(* A session raises (the file is locked, a table is missing): the endpoint *)
(* lets it through as a 500, and what earlier sessions committed stays.    *)
ReadsRegistry(w) == pc[w] = "resolve" /\ Tenant(w) # None
UsesTable(w, tab) ==
    \/ /\ tab = "users" /\ pc[w] \in UserSteps
       /\ pc[w] = "authenticate" => ClaimsAccepted(w)
       /\ pc[w] = "check_email" => ~InvalidRole(w)
       /\ pc[w] = "fetch_users" => unfetched[w] # {}
    \/ tab = "memberships" /\ pc[w] \in MembershipSteps

MissingTable(w) ==
    /\ \E tab \in TableNames : UsesTable(w, tab) /\ ~HasTable(w, tab)
    /\ Reply(w, 500)
    /\ UNCHANGED <<dataVars, now, tokens, req, uid, members, unfetched, listed>>

SessionError(w) ==
    /\ "error" \in Faults
    /\ ReadsRegistry(w) \/ \E tab \in TableNames : UsesTable(w, tab)
    /\ Reply(w, 500)
    /\ UNCHANGED <<dataVars, now, tokens, req, uid, members, unfetched, listed>>

Finish(w) ==
    /\ pc[w] = "replied"
    /\ Goto(w, "idle")
    /\ req' = [req EXCEPT ![w] = None]
    /\ uid' = [uid EXCEPT ![w] = None]
    /\ members' = [members EXCEPT ![w] = {}]
    /\ unfetched' = [unfetched EXCEPT ![w] = {}]
    /\ listed' = [listed EXCEPT ![w] = {}]
    /\ status' = [status EXCEPT ![w] = 0]
    /\ UNCHANGED <<dataVars, now, tokens>>

(* The process dies: every request in flight is lost, the files are not.   *)
Crash ==
    /\ "crash" \in Faults
    /\ \E w \in Workers : pc[w] # "idle"
    /\ pc' = [w \in Workers |-> "idle"]
    /\ req' = [w \in Workers |-> None]
    /\ uid' = [w \in Workers |-> None]
    /\ members' = [w \in Workers |-> {}]
    /\ unfetched' = [w \in Workers |-> {}]
    /\ listed' = [w \in Workers |-> {}]
    /\ status' = [w \in Workers |-> 0]
    /\ UNCHANGED <<dataVars, now, tokens>>

Tick ==
    /\ now < MaxTime
    /\ now' = now + 1
    /\ UNCHANGED <<dataVars, tokens, workerVars>>

(* No endpoint writes is_active; an operator does, in the database.        *)
SetTenantActive(t) ==
    /\ "tenant" \in OperatorEdits /\ registry[t] # "absent"
    /\ registry' = [registry EXCEPT ![t] = IF @ = "active" THEN "inactive" ELSE "active"]
    /\ UNCHANGED <<tables, users, memberships, drawn, now, tokens, workerVars>>

SetUserActive(t, u) ==
    /\ "user" \in OperatorEdits /\ UserExists(t, u)
    /\ users' = [users EXCEPT ![t][u].is_active = ~@]
    /\ UNCHANGED <<registry, tables, memberships, drawn, now, tokens, workerVars>>
-----------------------------------------------------------------------------
Guard(w)  == RefuseTenant(w) \/ RefuseBody(w) \/ Dispatch(w)
             \/ RefuseToken(w) \/ RefusePrincipal(w) \/ Authorise(w)
Enrol(w)  == RefuseRole(w) \/ FindsEmailTaken(w) \/ CheckEmail(w)
             \/ InsertConflicts(w) \/ InsertUser(w) \/ AssignRole(w)
Login(w)  == RefuseLogin(w) \/ FindUser(w) \/ RefuseStranger(w) \/ GetMembership(w)
List(w)   == ListMembers(w) \/ FetchUser(w) \/ RenderList(w)
Delete(w) == RefuseDelete(w) \/ DeleteLookup(w) \/ DeleteCommit(w)

Serve(w) == Guard(w) \/ Enrol(w) \/ Login(w) \/ List(w) \/ Delete(w)
            \/ MissingTable(w) \/ Finish(w)

Environment ==
    \/ Crash
    \/ Tick
    \/ \E t \in Tenants : SetTenantActive(t)
    \/ \E t \in Tenants, u \in UserIds : SetUserActive(t, u)

Next == (\E w \in Workers : Receive(w) \/ Serve(w) \/ SessionError(w)) \/ Environment

Spec == Init /\ [][Next]_vars

(* Every thread of the pool is scheduled, and a session on SQLite ends     *)
(* (the driver gives up a locked file after a timeout).  Nothing is        *)
(* assumed of clients, of errors or of the environment.                    *)
FairSpec == Spec /\ \A w \in Workers : WF_vars(Serve(w))
=============================================================================
