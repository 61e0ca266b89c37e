-------------------------- MODULE TenantApiProofs --------------------------
(* Theorems about the API for any number of tenants, users, addresses and  *)
(* concurrent requests, with failures, crashes and operator edits.         *)
EXTENDS TenantApiProperties, RolesProofs

(* The actions that only refuse a request: nothing but pc and status of    *)
(* one worker changes.                                                     *)
JustReplies(w) ==
    \E code \in Status \ {0, 200} :
        /\ pc[w] # "idle"
        /\ Reply(w, code)
        /\ UNCHANGED <<dataVars, now, tokens, req, uid, members, unfetched, listed>>

(* ... and those that only move a request to its next step.                *)
JustMoves(w) ==
    \E step \in PC \ {"idle", "insert_user", "assign_role", "get_membership", "fetch_users"} :
        /\ pc[w] \notin {"idle", "replied", "fetch_users"}
        /\ Goto(w, step)
        /\ UNCHANGED <<dataVars, now, tokens, req, uid, members, unfetched, listed, status>>

LEMMA Replies ==
    ASSUME NEW w \in Workers,
           \/ RefuseTenant(w) \/ RefuseBody(w) \/ RefuseToken(w) \/ RefusePrincipal(w)
           \/ RefuseRole(w) \/ FindsEmailTaken(w) \/ InsertConflicts(w) \/ RefuseLogin(w)
           \/ RefuseStranger(w) \/ RefuseDelete(w)
           \/ MissingTable(w) \/ SessionError(w)
    PROVE  JustReplies(w)
<1> USE DEF JustReplies, Status
<1>1. CASE RefuseTenant(w)
  BY <1>1 DEF RefuseTenant, MissingTenant, UnknownTenant
<1>2. CASE RefuseBody(w)
  BY <1>2 DEF RefuseBody, TenantResolved
<1>3. CASE RefuseToken(w) \/ RefusePrincipal(w)
  BY <1>3 DEF RefuseToken, RefusePrincipal
<1>4. CASE RefuseRole(w) \/ FindsEmailTaken(w) \/ InsertConflicts(w)
  BY <1>4 DEF RefuseRole, FindsEmailTaken, InsertConflicts
<1>5. CASE RefuseLogin(w) \/ RefuseStranger(w)
  BY <1>5 DEF RefuseLogin, RefuseStranger
<1>6. CASE RefuseDelete(w)
  BY <1>6 DEF RefuseDelete
<1>7. CASE MissingTable(w) \/ SessionError(w)
  BY <1>7 DEF MissingTable, SessionError, ReadsRegistry, UsesTable, UserSteps, MembershipSteps
<1> QED
  BY <1>1, <1>2, <1>3, <1>4, <1>5, <1>6, <1>7

LEMMA Moves ==
    ASSUME NEW w \in Workers, Dispatch(w) \/ Authorise(w) \/ DeleteLookup(w)
    PROVE  JustMoves(w)
<1> USE DEF JustMoves, PC, UserSteps, MembershipSteps
<1>1. CASE Dispatch(w)
  BY <1>1 DEF Dispatch, TenantResolved, FirstStep
<1>2. CASE Authorise(w)
  BY <1>2 DEF Authorise, HandlerStep
<1>3. CASE DeleteLookup(w)
  BY <1>3 DEF DeleteLookup
<1> QED
  BY <1>1, <1>2, <1>3

(* What a request of each kind carries.                                    *)
RequestShape(r) ==
    /\ r.kind \in {"register", "login", "create"} => r.email \in Emails /\ r.password \in Passwords
    /\ r.kind = "delete" => r.target \in UserIds

LEMMA InputsAreRequests ==
    ASSUME TypeOK, NEW k \in Kinds, NEW r \in Inputs(k)
    PROVE  /\ r \in Request
           /\ r.kind = k
           /\ r.token \in tokens \cup {None}
           /\ RequestShape(r)
<1> USE DEF RequestShape
<1>1. k \in Kind
  BY KindsAssumption
<1>2. KnownIds \subseteq UserIds
  BY DEF KnownIds, MembersOf
<1>3. CASE k = "register" \/ k = "login"
  BY <1>1, <1>3 DEF Inputs, Credentials, Slugs, Request, Kind
<1>4. CASE k = "list"
  BY <1>1, <1>4 DEF Inputs, Slugs, Request, Kind, TypeOK
<1>5. CASE k = "create"
  BY <1>1, <1>5, GrantableAssumption DEF Inputs, Slugs, Request, Kind, TypeOK
<1>6. CASE k = "delete"
  BY <1>1, <1>2, <1>6 DEF Inputs, Slugs, Request, Kind, TypeOK
<1> QED
  BY <1>1, <1>3, <1>4, <1>5, <1>6 DEF Kind
-----------------------------------------------------------------------------
(* Where a request is in its handler, and what it has by then.             *)
WorkerShape(w) ==
    /\ RequestShape(req[w])
    /\ pc[w] \notin {"resolve", "replied"} =>
            Tenant(w) \in Tenants /\ (HasCredentials(w) => Canonical[req[w].email] \in Emails)
    /\ pc[w] = "authenticate" => ~HasCredentials(w)
    /\ pc[w] \in {"check_email", "insert_user", "assign_role"} => req[w].kind \in Creating
    /\ pc[w] \in {"insert_user", "assign_role"} => uid[w] \in UserIds /\ RoleGranted(w) \in Role
    /\ pc[w] \in {"find_user", "get_membership"} => req[w].kind = "login"
    /\ pc[w] = "get_membership" => uid[w] \in UserIds
    /\ pc[w] \in {"list_members", "fetch_users"} => req[w].kind = "list"
    /\ pc[w] \in {"delete_lookup", "delete_commit"} => req[w].kind = "delete"

Shape == \A w \in Workers : pc[w] # "idle" => WorkerShape(w)

(* The body of the induction for type correctness.                         *)
LEMMA TypeStep ==
    ASSUME TypeOK, Shape, [Next]_vars
    PROVE  TypeOK'
<1> USE DEF TypeOK, DataTypeOK, Goto, Reply
<1>1. CASE UNCHANGED vars
  BY <1>1 DEF vars, dataVars, workerVars
<1>2. ASSUME NEW w \in Workers, Receive(w) PROVE TypeOK'
  <2>1. PICK k \in Kinds : \E r \in Inputs(k) : req' = [req EXCEPT ![w] = r]
    BY <1>2 DEF Receive
  <2>2. PICK r \in Request : req' = [req EXCEPT ![w] = r]
    BY <2>1, InputsAreRequests
  <2>3. r # None
    BY NoRequestAssumption
  <2> QED
    BY <1>2, <2>2, <2>3 DEF Receive, dataVars, PC
<1>3. ASSUME NEW w \in Workers, JustReplies(w) PROVE TypeOK'
  BY <1>3 DEF JustReplies, dataVars, PC
<1>4. ASSUME NEW w \in Workers, JustMoves(w) PROVE TypeOK'
  BY <1>4 DEF JustMoves, dataVars
<1>5. ASSUME NEW w \in Workers, CheckEmail(w) PROVE TypeOK'
  BY <1>5 DEF CheckEmail, GenerateId, PC, UserSteps
<1>6. ASSUME NEW w \in Workers, InsertUser(w) PROVE TypeOK'
  <2>1. WorkerShape(w) /\ pc[w] = "insert_user"
    BY <1>6 DEF InsertUser, Shape
  <2>2. EmailOf(w) \in Emails /\ req[w].password \in Passwords /\ Tenant(w) \in Tenants /\ uid[w] \in UserIds
    BY <2>1 DEF WorkerShape, RequestShape, EmailOf, Creating, HasCredentials
  <2>3. NewUser(EmailOf(w), req[w].password) \in UserRow
    BY <2>2, DigestAssumption DEF NewUser, UserRow
  <2>4. users' \in [Tenants -> [UserIds -> UserRow \cup {None}]]
    BY <1>6, <2>2, <2>3 DEF InsertUser, AddUser
  <2> QED
    BY <1>6, <2>4 DEF InsertUser, PC, MembershipSteps
<1>7. ASSUME NEW w \in Workers, AssignRole(w) PROVE TypeOK'
  <2>1. WorkerShape(w) /\ pc[w] = "assign_role"
    BY <1>7 DEF AssignRole, Shape
  <2>2. RoleGranted(w) \in Role /\ Tenant(w) \in Tenants /\ uid[w] \in UserIds
    BY <2>1 DEF WorkerShape
  <2>3. NewToken(uid[w], Tenant(w), "MEMBER") \in Token
    BY <2>2, TimeAssumption DEF NewToken, Token, Role
  <2>4. memberships' \in [Tenants -> [UserIds -> Role \cup {None}]]
    BY <1>7, <2>2 DEF AssignRole, UpsertMembership
  <2>5. tokens' \subseteq Token
    BY <1>7, <2>3 DEF AssignRole
  <2> QED
    BY <1>7, <2>4, <2>5 DEF AssignRole, PC, Status
<1>8. ASSUME NEW w \in Workers, FindUser(w) PROVE TypeOK'
  BY <1>8 DEF FindUser, dataVars, UsersWithEmail, PC, MembershipSteps
<1>9. ASSUME NEW w \in Workers, GetMembership(w) PROVE TypeOK'
  <2>1. WorkerShape(w) /\ pc[w] = "get_membership"
    BY <1>9 DEF GetMembership, Shape
  <2>2. /\ Tenant(w) \in Tenants /\ uid[w] \in UserIds
        /\ memberships[Tenant(w)][uid[w]] \in Role
    BY <1>9, <2>1 DEF WorkerShape, GetMembership
  <2>3. NewToken(uid[w], Tenant(w), memberships[Tenant(w)][uid[w]]) \in Token
    BY <2>2, TimeAssumption DEF NewToken, Token
  <2> QED
    BY <1>9, <2>3 DEF GetMembership, dataVars, PC, Status
<1>10. ASSUME NEW w \in Workers, ListMembers(w) PROVE TypeOK'
  <2>1. Tenant(w) \in Tenants
    BY <1>10 DEF ListMembers, Shape, WorkerShape
  <2>2. {<<u, memberships[Tenant(w)][u]>> : u \in MembersOf(Tenant(w))} \in SUBSET (UserIds \X Role)
    BY <2>1 DEF MembersOf
  <2> QED
    BY <1>10, <2>2 DEF ListMembers, dataVars, PC, UserSteps
<1>11. ASSUME NEW w \in Workers, FetchUser(w) PROVE TypeOK'
  BY <1>11 DEF FetchUser, dataVars
<1>12. ASSUME NEW w \in Workers, DeleteCommit(w) PROVE TypeOK'
  <2>1. Tenant(w) \in Tenants /\ req[w].target \in UserIds
    BY <1>12 DEF DeleteCommit, Shape, WorkerShape, RequestShape
  <2>2. users' \in [Tenants -> [UserIds -> UserRow \cup {None}]]
    BY <1>12, <2>1 DEF DeleteCommit, RemoveUser
  <2> QED
    BY <1>12, <2>2 DEF DeleteCommit, PC, Status
<1>18. ASSUME NEW w \in Workers, RenderList(w) PROVE TypeOK'
  BY <1>18 DEF RenderList, dataVars, PC, Status
<1>13. ASSUME NEW w \in Workers, Finish(w) PROVE TypeOK'
  BY <1>13 DEF Finish, dataVars, PC, Status
<1>14. CASE Crash
  BY <1>14 DEF Crash, dataVars, PC, Status
<1>15. CASE Tick
  BY <1>15 DEF Tick, dataVars, workerVars
<1>16. ASSUME NEW t \in Tenants, SetTenantActive(t) PROVE TypeOK'
  BY <1>16 DEF SetTenantActive, workerVars
<1>17. ASSUME NEW t \in Tenants, NEW u \in UserIds, SetUserActive(t, u) PROVE TypeOK'
  <2>1. users[t][u] \in UserRow
    BY <1>17 DEF SetUserActive, UserExists
  <2>2. [users[t][u] EXCEPT !.is_active = ~@] \in UserRow
    BY <2>1 DEF UserRow
  <2>3. users' = [users EXCEPT ![t] = [users[t] EXCEPT ![u] = [users[t][u] EXCEPT !.is_active = ~@]]]
    BY <1>17 DEF SetUserActive
  <2>4. users' \in [Tenants -> [UserIds -> UserRow \cup {None}]]
    BY <2>2, <2>3
  <2> QED
    BY <1>17, <2>4 DEF SetUserActive, workerVars
<1> QED
  BY <1>1, <1>2, <1>3, <1>4, <1>5, <1>6, <1>7, <1>8, <1>9, <1>10, <1>11, <1>12,
     <1>13, <1>14, <1>15, <1>16, <1>17, <1>18, Replies, Moves
     DEF Next, Serve, Guard, Enrol, Login, List, Delete, Environment

(* Requests keep their shape through the handlers.                         *)
LEMMA ShapeStep ==
    ASSUME TypeOK, Shape, [Next]_vars
    PROVE  Shape'
<1> USE DEF Shape, WorkerShape, HasCredentials, RoleGranted, Tenant
<1>0. pc \in [Workers -> PC] /\ req \in [Workers -> Request \cup {None}] /\ uid \in [Workers -> UserIds \cup {None}]
  BY DEF TypeOK
<1>1. CASE UNCHANGED vars
  BY <1>1 DEF vars, workerVars
<1>2. ASSUME NEW w \in Workers, Receive(w) PROVE Shape'
  <2>1. PICK k \in Kinds : \E r \in Inputs(k) : req' = [req EXCEPT ![w] = r]
    BY <1>2 DEF Receive
  <2>2. PICK r \in Request : RequestShape(r) /\ req' = [req EXCEPT ![w] = r]
    BY <2>1, InputsAreRequests
  <2> QED
    BY <1>0, <1>2, <2>2 DEF Receive, Goto
<1>3. ASSUME NEW w \in Workers, JustReplies(w) PROVE Shape'
  BY <1>0, <1>3 DEF JustReplies, Reply, Goto
<1>4. ASSUME NEW w \in Workers, Dispatch(w) PROVE Shape'
  <2>1. /\ pc[w] = "resolve" /\ pc' = [pc EXCEPT ![w] = FirstStep(req[w].kind)]
        /\ UNCHANGED <<req, uid>>
    BY <1>4 DEF Dispatch, TenantResolved, Goto
  <2>2. WorkerShape(w)
    BY <2>1
  <2>3. req[w] \in Request /\ req[w].kind \in Kind
    BY <1>0, <2>1 DEF TypeOK, Request
  <2>4. Tenant(w) \in Tenants
    BY <1>4, <2>3 DEF Dispatch, TenantResolved, Request
  <2>5. HasCredentials(w) => Canonical[req[w].email] \in Emails
    BY <1>4, <2>2, CanonicalAssumption DEF Dispatch, InvalidBody, RequestShape
  <2>6. /\ req[w].kind = "register" => FirstStep(req[w].kind) = "check_email"
        /\ req[w].kind = "login" => FirstStep(req[w].kind) = "find_user"
        /\ ~HasCredentials(w) => FirstStep(req[w].kind) = "authenticate"
    BY DEF FirstStep
  <2> QED
    BY <1>0, <2>1, <2>2, <2>3, <2>4, <2>5, <2>6 DEF Creating
<1>5. ASSUME NEW w \in Workers, Authorise(w) PROVE Shape'
  <2>1. /\ pc[w] = "authenticate" /\ pc' = [pc EXCEPT ![w] = HandlerStep(req[w].kind)]
        /\ UNCHANGED <<req, uid>>
    BY <1>5 DEF Authorise, Goto
  <2>2. req[w].kind \in {"list", "create", "delete"}
    BY <1>0, <2>1 DEF TypeOK, Request, Kind
  <2>3. /\ req[w].kind = "list" => HandlerStep(req[w].kind) = "list_members"
        /\ req[w].kind = "create" => HandlerStep(req[w].kind) = "check_email"
        /\ req[w].kind = "delete" => HandlerStep(req[w].kind) = "delete_lookup"
    BY DEF HandlerStep
  <2> QED
    BY <1>0, <2>1, <2>2, <2>3 DEF Creating
<1>6. ASSUME NEW w \in Workers, CheckEmail(w) PROVE Shape'
  <2>1. PICK u \in UserIds : uid' = [uid EXCEPT ![w] = u]
    BY <1>6 DEF CheckEmail
  <2>2. pc[w] = "check_email" /\ pc' = [pc EXCEPT ![w] = "insert_user"] /\ req' = req
    BY <1>6 DEF CheckEmail, Goto
  <2>3. RoleGranted(w) \in Role
    BY <1>0, <1>6, <2>2 DEF CheckEmail, InvalidRole, TypeOK, Request, Creating, Role
  <2> QED
    BY <1>0, <2>1, <2>2, <2>3
<1>7. ASSUME NEW w \in Workers, InsertUser(w) PROVE Shape'
  BY <1>0, <1>7 DEF InsertUser, Goto
<1>8. ASSUME NEW w \in Workers, 
             AssignRole(w) \/ GetMembership(w) \/ RenderList(w) \/ DeleteCommit(w)
      PROVE  Shape'
  BY <1>0, <1>8 DEF AssignRole, GetMembership, RenderList, DeleteCommit, Reply, Goto
<1>9. ASSUME NEW w \in Workers, FindUser(w) PROVE Shape'
  BY <1>0, <1>9 DEF FindUser, UsersWithEmail, Goto
<1>10. ASSUME NEW w \in Workers, ListMembers(w) \/ FetchUser(w) \/ DeleteLookup(w) PROVE Shape'
  BY <1>0, <1>10 DEF ListMembers, FetchUser, DeleteLookup, Goto
<1>11. ASSUME NEW w \in Workers, Finish(w) PROVE Shape'
  BY <1>0, <1>11 DEF Finish, Goto
<1>12. CASE Crash
  BY <1>12 DEF Crash
<1>13. CASE Tick \/ (\E t \in Tenants : SetTenantActive(t))
            \/ (\E t \in Tenants, u \in UserIds : SetUserActive(t, u))
  BY <1>13 DEF Tick, SetTenantActive, SetUserActive, workerVars
<1> QED
  BY <1>1, <1>2, <1>3, <1>4, <1>5, <1>6, <1>7, <1>8, <1>9, <1>10, <1>11, <1>12, <1>13, Replies
     DEF Next, Serve, Guard, Enrol, Login, List, Delete, Environment

LEMMA TypeInit == Init => TypeOK /\ Shape
<1> SUFFICES ASSUME Init PROVE TypeOK /\ Shape
  OBVIOUS
<1>1. PICK done \in SUBSET Provisioned : InitStore(done)
  BY DEF Init
<1>2. PICK owner \in [done -> UserIds], email \in [done -> Emails],
           password \in [done -> Passwords] :
        /\ \A s, t \in done : owner[s] = owner[t] => s = t
        /\ users = OwnerRows(done, owner, email, password)
        /\ memberships = OwnerMemberships(done, owner)
        /\ drawn = {owner[t] : t \in done}
  BY <1>1 DEF InitStore
<1>3. done \subseteq Tenants
  BY ProvisionedAssumption
<1>4. users \in [Tenants -> [UserIds -> UserRow \cup {None}]]
  <2>1. \A t \in done : NewUser(email[t], password[t]) \in UserRow
    BY DigestAssumption DEF NewUser, UserRow
  <2> QED
    BY <1>2, <2>1 DEF OwnerRows
<1>5. memberships \in [Tenants -> [UserIds -> Role \cup {None}]] /\ drawn \in SUBSET UserIds
  BY <1>2 DEF OwnerMemberships, Role
<1>6. registry \in [Tenants -> {"absent", "active", "inactive"}]
  BY <1>1 DEF InitStore
<1>7. tables \in [Tenants -> SUBSET TableNames]
  BY <1>1, <1>3 DEF InitStore, InitTables, TableNames
<1> QED
  BY <1>4, <1>5, <1>6, <1>7 DEF Init, TypeOK, DataTypeOK, Shape, PC, Status

(* Type correctness, with the shape of the requests in their handlers:     *)
(* every stored row, role, token and response code is one of its kind.     *)
THEOREM TypeCorrect == Spec => [](TypeOK /\ Shape)
<1>1. TypeOK /\ Shape /\ [Next]_vars => (TypeOK /\ Shape)'
  BY TypeStep, ShapeStep
<1> QED
  BY TypeInit, <1>1, PTL DEF Spec

(* The type invariant the runs check holds for every number of tenants,    *)
(* users and concurrent requests.                                          *)
THEOREM TypeInvariant == Spec => []TypeOK
  BY TypeCorrect, PTL
-----------------------------------------------------------------------------
(* Identifiers: uuid4 repeats none, so whoever is creating a user holds an *)
(* identifier no row and no other creator has.                             *)
IsCreating(w) == pc[w] \in {"insert_user", "assign_role"}

Ids ==
    /\ \A t \in Tenants, u \in UserIds :
            users[t][u] # None \/ memberships[t][u] # None => u \in drawn
    /\ \A w \in Workers : IsCreating(w) =>
            uid[w] \in drawn /\ \A t \in Tenants : memberships[t][uid[w]] = None
    /\ \A w \in Workers : pc[w] = "insert_user" =>
            \A t \in Tenants : users[t][uid[w]] = None
    /\ \A v, w \in Workers : v # w /\ IsCreating(v) /\ IsCreating(w) => uid[v] # uid[w]

(* The actions that leave users and memberships alone, and draw nothing.   *)
StoreUntouched == UNCHANGED <<users, memberships>>

LEMMA OthersLeaveStore ==
    ASSUME NEW w \in Workers,
           \/ Receive(w) \/ JustReplies(w) \/ JustMoves(w) \/ CheckEmail(w) \/ FindUser(w)
           \/ GetMembership(w) \/ ListMembers(w) \/ FetchUser(w) \/ RenderList(w) \/ Finish(w)
    PROVE  StoreUntouched
  BY DEF Receive, JustReplies, JustMoves, CheckEmail, FindUser, GetMembership, ListMembers,
         FetchUser, RenderList, Finish, StoreUntouched, dataVars

(* Every step is one of a creator, a deleter or an operator, or leaves the *)
(* stored users and memberships alone.                                     *)
LEMMA StoreSteps ==
    ASSUME [Next]_vars
    PROVE  \/ StoreUntouched
           \/ \E w \in Workers : InsertUser(w) \/ AssignRole(w) \/ DeleteCommit(w)
           \/ \E t \in Tenants, u \in UserIds : SetUserActive(t, u)
<1>1. CASE UNCHANGED vars
  BY <1>1 DEF vars, dataVars, StoreUntouched
<1>2. CASE Crash \/ Tick \/ (\E t \in Tenants : SetTenantActive(t))
  BY <1>2 DEF Crash, Tick, SetTenantActive, dataVars, StoreUntouched
<1> QED
  BY <1>1, <1>2, OthersLeaveStore, Replies, Moves
     DEF Next, Serve, Guard, Enrol, Login, List, Delete, Environment

LEMMA IdsStep ==
    ASSUME TypeOK, Shape, Ids, [Next]_vars
    PROVE  Ids'
<1> USE DEF Ids, IsCreating
<1>0. /\ pc \in [Workers -> PC] /\ uid \in [Workers -> UserIds \cup {None}]
      /\ users \in [Tenants -> [UserIds -> UserRow \cup {None}]]
      /\ memberships \in [Tenants -> [UserIds -> Role \cup {None}]]
  BY DEF TypeOK, DataTypeOK
<1>1. CASE UNCHANGED vars
  BY <1>1 DEF vars, dataVars, workerVars
<1>2. ASSUME NEW w \in Workers,
             \/ Receive(w) \/ JustReplies(w) \/ JustMoves(w)
             \/ ListMembers(w) \/ FetchUser(w) \/ RenderList(w)
      PROVE  Ids'
  BY <1>0, <1>2 DEF Receive, JustReplies, JustMoves, ListMembers, FetchUser, RenderList,
                    Goto, Reply, dataVars
<1>3. ASSUME NEW w \in Workers, CheckEmail(w) PROVE Ids'
  <2>1. PICK u \in UserIds : GenerateId(u) /\ uid' = [uid EXCEPT ![w] = u]
    BY <1>3 DEF CheckEmail
  <2>2. \A t \in Tenants : users[t][u] = None /\ memberships[t][u] = None
    BY <2>1 DEF GenerateId
  <2> QED
    BY <1>0, <1>3, <2>1, <2>2 DEF CheckEmail, GenerateId, Goto
<1>4. ASSUME NEW w \in Workers, InsertUser(w) PROVE Ids'
  <2>1. Tenant(w) \in Tenants /\ uid[w] \in UserIds /\ pc[w] = "insert_user"
    BY <1>4 DEF InsertUser, Shape, WorkerShape
  <2>2. \A t \in Tenants, u \in UserIds : u # uid[w] => users'[t][u] = users[t][u]
    BY <1>0, <1>4, <2>1 DEF InsertUser, AddUser
  <2>3. uid[w] \in drawn /\ drawn' = drawn /\ uid' = uid /\ memberships' = memberships
    BY <1>4, <2>1 DEF InsertUser
  <2>4. pc' = [pc EXCEPT ![w] = "assign_role"]
    BY <1>4 DEF InsertUser, Goto
  <2>5. \A v \in Workers : IsCreating(v)' <=> IsCreating(v)
    BY <1>0, <2>1, <2>4
  <2>6. \A v \in Workers : pc'[v] = "insert_user" => pc[v] = "insert_user" /\ v # w
    BY <1>0, <2>1, <2>4
  <2>7. \A v \in Workers : pc'[v] = "insert_user" => uid[v] # uid[w] /\ uid[v] \in UserIds
    BY <1>0, <2>1, <2>6 DEF Shape, WorkerShape
  <2> QED
    BY <2>1, <2>2, <2>3, <2>5, <2>6, <2>7
<1>5. ASSUME NEW w \in Workers, AssignRole(w) PROVE Ids'
  <2>1. Tenant(w) \in Tenants /\ uid[w] \in UserIds /\ pc[w] = "assign_role"
    BY <1>5 DEF AssignRole, Shape, WorkerShape
  <2>2. \A t \in Tenants, u \in UserIds : u # uid[w] => memberships'[t][u] = memberships[t][u]
    BY <1>0, <1>5, <2>1 DEF AssignRole, UpsertMembership
  <2>3. uid[w] \in drawn /\ drawn' = drawn /\ uid' = uid /\ users' = users
    BY <1>5, <2>1 DEF AssignRole
  <2>4. pc' = [pc EXCEPT ![w] = "replied"]
    BY <1>5 DEF AssignRole, Reply, Goto
  <2>5. \A v \in Workers : IsCreating(v)' => IsCreating(v) /\ v # w /\ pc'[v] = pc[v]
    BY <1>0, <2>1, <2>4
  <2>6. \A v \in Workers : IsCreating(v)' => uid[v] # uid[w] /\ uid[v] \in UserIds
    BY <1>0, <2>1, <2>5 DEF Shape, WorkerShape
  <2> QED
    BY <2>1, <2>2, <2>3, <2>5, <2>6
<1>6. ASSUME NEW w \in Workers, FindUser(w) \/ GetMembership(w) PROVE Ids'
  BY <1>0, <1>6 DEF FindUser, GetMembership, Goto, Reply, dataVars
<1>7. ASSUME NEW w \in Workers, DeleteCommit(w) PROVE Ids'
  <2>1. \A t \in Tenants, u \in UserIds : users'[t][u] # None => users[t][u] # None
    BY <1>0, <1>7 DEF DeleteCommit, RemoveUser
  <2>2. \A v \in Workers, t \in Tenants : users[t][uid[v]] = None => users'[t][uid[v]] = None
    BY <1>0, <1>7 DEF DeleteCommit, RemoveUser
  <2> QED
    BY <1>0, <1>7, <2>1, <2>2 DEF DeleteCommit, Reply, Goto
<1>8. ASSUME NEW w \in Workers, Finish(w) PROVE Ids'
  BY <1>0, <1>8 DEF Finish, Goto, dataVars
<1>9. CASE Crash
  BY <1>9 DEF Crash, dataVars
<1>10. CASE Tick \/ \E t \in Tenants : SetTenantActive(t)
  BY <1>10 DEF Tick, SetTenantActive, dataVars, workerVars
<1>11. ASSUME NEW t \in Tenants, NEW u \in UserIds, SetUserActive(t, u) PROVE Ids'
  <2>1. \A s \in Tenants, v \in UserIds : users'[s][v] # None => users[s][v] # None
    BY <1>0, <1>11 DEF SetUserActive, UserExists
  <2>2. \A w \in Workers : pc[w] = "insert_user" => uid[w] \in UserIds
    BY DEF Shape, WorkerShape
  <2> QED
    BY <1>11, <2>1, <2>2 DEF SetUserActive, workerVars
<1> QED
  BY <1>1, <1>2, <1>3, <1>4, <1>5, <1>6, <1>7, <1>8, <1>9, <1>10, <1>11, Replies, Moves
     DEF Next, Serve, Guard, Enrol, Login, List, Delete, Environment

LEMMA IdsInit == Init => Ids
<1> SUFFICES ASSUME Init PROVE Ids
  OBVIOUS
<1>1. PICK done \in SUBSET Provisioned : InitStore(done)
  BY DEF Init
<1>2. PICK owner \in [done -> UserIds], email \in [done -> Emails],
           password \in [done -> Passwords] :
        /\ \A s, t \in done : owner[s] = owner[t] => s = t
        /\ users = OwnerRows(done, owner, email, password)
        /\ memberships = OwnerMemberships(done, owner)
        /\ drawn = {owner[t] : t \in done}
  BY <1>1 DEF InitStore
<1>3. done \subseteq Tenants
  BY ProvisionedAssumption
<1>4. \A w \in Workers : ~IsCreating(w)
  BY DEF Init, IsCreating
<1> QED
  BY <1>2, <1>3, <1>4 DEF Init, Ids, OwnerRows, OwnerMemberships, IsCreating
-----------------------------------------------------------------------------
LEMMA UniqueStep ==
    ASSUME TypeOK, Shape, UniqueEmail, [Next]_vars
    PROVE  UniqueEmail'
<1> USE DEF UniqueEmail, UserExists
<1>0. users \in [Tenants -> [UserIds -> UserRow \cup {None}]]
  BY DEF TypeOK, DataTypeOK
<1>1. CASE StoreUntouched
  BY <1>1 DEF StoreUntouched
<1>2. ASSUME NEW w \in Workers, InsertUser(w) PROVE UniqueEmail'
  <2>1. Tenant(w) \in Tenants /\ uid[w] \in UserIds
    BY <1>2 DEF InsertUser, Shape, WorkerShape
  <2>2. \A v \in UserIds : UserExists(Tenant(w), v) => users[Tenant(w)][v].email # EmailOf(w)
    BY <1>2 DEF InsertUser, UniqueViolated, EmailTaken, UsersWithEmail
  <2>3. /\ users'[Tenant(w)][uid[w]].email = EmailOf(w)
        /\ \A t \in Tenants, v \in UserIds :
                t # Tenant(w) \/ v # uid[w] => users'[t][v] = users[t][v]
    BY <1>0, <1>2, <2>1 DEF InsertUser, AddUser, NewUser
  <2> QED
    BY <2>1, <2>2, <2>3
<1>3. ASSUME NEW w \in Workers, DeleteCommit(w) PROVE UniqueEmail'
  <2>1. \A t \in Tenants, v \in UserIds : users'[t][v] = users[t][v] \/ users'[t][v] = None
    BY <1>0, <1>3 DEF DeleteCommit, RemoveUser
  <2> QED
    BY <2>1
<1>4. ASSUME NEW w \in Workers, AssignRole(w) PROVE UniqueEmail'
  BY <1>4 DEF AssignRole
<1>5. ASSUME NEW s \in Tenants, NEW x \in UserIds, SetUserActive(s, x) PROVE UniqueEmail'
  <2>1. users[s][x] \in UserRow
    BY <1>0, <1>5 DEF SetUserActive
  <2>2. \A t \in Tenants, v \in UserIds :
            t # s \/ v # x => users'[t][v] = users[t][v]
    BY <1>0, <1>5 DEF SetUserActive
  <2>3. users'[s][x] = [users[s][x] EXCEPT !.is_active = ~@]
    BY <1>0, <1>5 DEF SetUserActive
  <2>4. users'[s][x].email = users[s][x].email /\ users[s][x] # None
    BY <1>5, <2>1, <2>3 DEF SetUserActive, UserRow
  <2>5. \A t \in Tenants, v \in UserIds : users'[t][v] # None =>
            users[t][v] # None /\ users'[t][v].email = users[t][v].email
    BY <2>2, <2>4
  <2> QED
    BY <2>5
<1> QED
  BY <1>1, <1>2, <1>3, <1>4, <1>5, StoreSteps

(* No interleaving of registrations, creations, deletions, failures and    *)
(* crashes ever leaves two live users of a tenant under one address.       *)
THEOREM EmailsUnique == Spec => []UniqueEmail
<1>1. Init => UniqueEmail
  <2> SUFFICES ASSUME Init PROVE UniqueEmail
    OBVIOUS
  <2>1. PICK done \in SUBSET Provisioned : InitStore(done)
    BY DEF Init
  <2>2. PICK owner \in [done -> UserIds], email \in [done -> Emails],
             password \in [done -> Passwords] :
          users = OwnerRows(done, owner, email, password)
    BY <2>1 DEF InitStore
  <2> QED
    BY <2>2 DEF UniqueEmail, UserExists, OwnerRows
<1>2. TypeOK /\ Shape /\ UniqueEmail /\ [Next]_vars => UniqueEmail'
  BY UniqueStep
<1> QED
  BY <1>1, <1>2, TypeCorrect, PTL DEF Spec
-----------------------------------------------------------------------------
(* The store never changes a role, never brings a member back, and tokens  *)
(* are never withdrawn.                                                    *)
LEMMA StoreStable ==
    ASSUME TypeOK, Shape, Ids, [Next]_vars, NEW t \in Tenants, NEW u \in UserIds,
           memberships[t][u] # None
    PROVE  /\ memberships'[t][u] = memberships[t][u]
           /\ users[t][u] = None => users'[t][u] = None
<1>0. /\ users \in [Tenants -> [UserIds -> UserRow \cup {None}]]
      /\ memberships \in [Tenants -> [UserIds -> Role \cup {None}]]
  BY DEF TypeOK, DataTypeOK
<1>1. CASE StoreUntouched
  BY <1>1 DEF StoreUntouched
<1>2. ASSUME NEW w \in Workers, InsertUser(w)
      PROVE  memberships' = memberships /\ (users[t][u] = None => users'[t][u] = None)
  <2>1. u # uid[w]
    BY <1>2 DEF InsertUser, Ids, IsCreating
  <2> QED
    BY <1>0, <1>2, <2>1 DEF InsertUser, AddUser
<1>3. ASSUME NEW w \in Workers, AssignRole(w)
      PROVE  memberships'[t][u] = memberships[t][u] /\ users' = users
  <2>1. u # uid[w]
    BY <1>3 DEF AssignRole, Ids, IsCreating
  <2> QED
    BY <1>0, <1>3, <2>1 DEF AssignRole, UpsertMembership
<1>4. ASSUME NEW w \in Workers, DeleteCommit(w)
      PROVE  memberships' = memberships /\ (users[t][u] = None => users'[t][u] = None)
  BY <1>0, <1>4 DEF DeleteCommit, RemoveUser
<1>5. ASSUME NEW s \in Tenants, NEW v \in UserIds, SetUserActive(s, v)
      PROVE  memberships' = memberships /\ (users[t][u] = None => users'[t][u] = None)
  BY <1>0, <1>5 DEF SetUserActive, UserExists
<1> QED
  BY <1>1, <1>2, <1>3, <1>4, <1>5, StoreSteps DEF StoreUntouched

LEMMA TokenSteps ==
    ASSUME [Next]_vars
    PROVE  tokens' = tokens \/ \E w \in Workers : AssignRole(w) \/ GetMembership(w)
<1>1. CASE UNCHANGED vars
  BY <1>1 DEF vars
<1>2. CASE Environment
  BY <1>2 DEF Environment, Crash, Tick, SetTenantActive, SetUserActive
<1>3. ASSUME NEW w \in Workers,
             \/ Receive(w) \/ JustReplies(w) \/ JustMoves(w) \/ CheckEmail(w) \/ InsertUser(w)
             \/ FindUser(w) \/ ListMembers(w) \/ FetchUser(w) \/ RenderList(w)
             \/ DeleteCommit(w) \/ Finish(w)
      PROVE  tokens' = tokens
  BY <1>3 DEF Receive, JustReplies, JustMoves, CheckEmail, InsertUser, FindUser, ListMembers,
              FetchUser, RenderList, DeleteCommit, Finish
<1> QED
  BY <1>1, <1>2, <1>3, Replies, Moves DEF Next, Serve, Guard, Enrol, Login, List, Delete

LEMMA BackedStep ==
    ASSUME TypeOK, Shape, Ids, TokenBacked, [Next]_vars
    PROVE  TokenBacked' /\ tokens \subseteq tokens'
<1>0. /\ memberships \in [Tenants -> [UserIds -> Role \cup {None}]]
      /\ tokens \subseteq Token
  BY DEF TypeOK, DataTypeOK
<1>1. \A k \in tokens : memberships'[k.tenant][k.sub] = k.role
  <2> SUFFICES ASSUME NEW k \in tokens PROVE memberships'[k.tenant][k.sub] = k.role
    OBVIOUS
  <2>1. k.tenant \in Tenants /\ k.sub \in UserIds /\ k.role \in Role
    BY <1>0 DEF Token
  <2>2. memberships[k.tenant][k.sub] = k.role /\ k.role # None
    BY <2>1, NoneAssumption DEF TokenBacked
  <2> QED
    BY <2>1, <2>2, StoreStable
<1>2. CASE tokens' = tokens
  BY <1>1, <1>2 DEF TokenBacked
<1>3. ASSUME NEW w \in Workers, AssignRole(w)
      PROVE  TokenBacked' /\ tokens \subseteq tokens'
  <2>1. Tenant(w) \in Tenants /\ uid[w] \in UserIds
    BY <1>3 DEF AssignRole, Shape, WorkerShape
  <2>2. memberships'[Tenant(w)][uid[w]] = RoleGranted(w)
    BY <1>0, <1>3, <2>1 DEF AssignRole, UpsertMembership
  <2> QED
    BY <1>1, <1>3, <2>1, <2>2 DEF AssignRole, RoleGranted, NewToken, TokenBacked
<1>4. ASSUME NEW w \in Workers, GetMembership(w)
      PROVE  TokenBacked' /\ tokens \subseteq tokens'
  <2>1. memberships' = memberships
    BY <1>4 DEF GetMembership, dataVars
  <2> QED
    BY <1>1, <1>4, <2>1 DEF GetMembership, NewToken, TokenBacked
<1> QED
  BY <1>2, <1>3, <1>4, TokenSteps

(* A token, however old, names a member of its tenant and that member's    *)
(* role: trusting the role claim without reading the membership is sound   *)
(* as long as roles are assigned once, which the same proof establishes.   *)
THEOREM TokensBacked == Spec => []TokenBacked
<1>1. Init => TokenBacked
  BY DEF Init, TokenBacked
<1>2. TypeOK /\ Shape /\ Ids /\ [Next]_vars => Ids'
  BY IdsStep
<1>3. TypeOK /\ Shape /\ Ids /\ TokenBacked /\ [Next]_vars => TokenBacked'
  BY BackedStep
<1> QED
  BY <1>1, <1>2, <1>3, IdsInit, TypeCorrect, PTL DEF Spec
-----------------------------------------------------------------------------
(* A request presents a token that was issued, or none.                    *)
TokensPresented == \A w \in Workers : pc[w] # "idle" => req[w].token \in tokens \cup {None}

(* Past its guard, a request has a token of its own tenant, and a          *)
(* privileged one if its handler writes.                                   *)
Guarded ==
    \A w \in Workers : PastGuard(w) =>
        LET token == req[w].token
        IN  /\ token \in tokens /\ token.tenant = Tenant(w)
            /\ Served(w, {"create", "delete"}) => Privileged(token.role)

(* Steps of a request, seen from its guard: only Authorise takes one past. *)
LEMMA GuardSteps ==
    ASSUME TypeOK, Shape, [Next]_vars, NEW w \in Workers, PastGuard(w)'
    PROVE  req'[w] = req[w] /\ (PastGuard(w) \/ Authorise(w))
<1> USE DEF PastGuard, Served
<1>0. pc \in [Workers -> PC] /\ req \in [Workers -> Request \cup {None}]
  BY DEF TypeOK
<1>1. CASE UNCHANGED vars
  BY <1>1 DEF vars, workerVars
<1>2. CASE Environment
  BY <1>2 DEF Environment, Crash, Tick, SetTenantActive, SetUserActive, workerVars
<1>3. ASSUME NEW v \in Workers, Receive(v) \/ JustReplies(v) \/ Finish(v)
      PROVE  req'[w] = req[w] /\ PastGuard(w)
  BY <1>0, <1>3 DEF Receive, JustReplies, Finish, Goto, Reply
<1>4. ASSUME NEW v \in Workers, Dispatch(v)
      PROVE  req'[w] = req[w] /\ PastGuard(w)
  <2>1. req' = req /\ pc' = [pc EXCEPT ![v] = FirstStep(req[v].kind)]
    BY <1>4 DEF Dispatch, Goto
  <2>2. req[v].kind \in {"list", "create", "delete"} => FirstStep(req[v].kind) = "authenticate"
    BY DEF FirstStep
  <2> QED
    BY <1>0, <2>1, <2>2
<1>5. ASSUME NEW v \in Workers, Authorise(v)
      PROVE  req'[w] = req[w] /\ (PastGuard(w) \/ Authorise(w))
  BY <1>0, <1>5 DEF Authorise, Goto
<1>6. ASSUME NEW v \in Workers, CheckEmail(v) \/ InsertUser(v) \/ AssignRole(v)
      PROVE  req'[w] = req[w] /\ PastGuard(w)
  BY <1>0, <1>6 DEF CheckEmail, InsertUser, AssignRole, Goto, Reply
<1>7. ASSUME NEW v \in Workers, FindUser(v) \/ GetMembership(v)
      PROVE  req'[w] = req[w] /\ PastGuard(w)
  BY <1>0, <1>7 DEF FindUser, GetMembership, Goto, Reply
<1>8. ASSUME NEW v \in Workers, ListMembers(v) \/ FetchUser(v) \/ RenderList(v)
      PROVE  req'[w] = req[w] /\ PastGuard(w)
  BY <1>0, <1>8 DEF ListMembers, FetchUser, RenderList, Goto, Reply
<1>9. ASSUME NEW v \in Workers, DeleteLookup(v) \/ DeleteCommit(v)
      PROVE  req'[w] = req[w] /\ PastGuard(w)
  BY <1>0, <1>9 DEF DeleteLookup, DeleteCommit, Goto, Reply
<1> QED
  BY <1>1, <1>2, <1>3, <1>4, <1>5, <1>6, <1>7, <1>8, <1>9, Replies
     DEF Next, Serve, Guard, Enrol, Login, List, Delete

LEMMA PresentedStep ==
    ASSUME TypeOK, Shape, Ids, TokenBacked, TokensPresented, [Next]_vars
    PROVE  TokensPresented'
<1> USE DEF TokensPresented
<1>0. /\ pc \in [Workers -> PC] /\ req \in [Workers -> Request \cup {None}]
      /\ tokens \subseteq tokens'
  BY BackedStep DEF TypeOK
<1>1. CASE UNCHANGED vars
  BY <1>1 DEF vars, workerVars
<1>2. CASE Environment
  BY <1>2 DEF Environment, Crash, Tick, SetTenantActive, SetUserActive, workerVars
<1>3. ASSUME NEW w \in Workers, Receive(w) PROVE TokensPresented'
  <2>1. PICK k \in Kinds : \E r \in Inputs(k) : req' = [req EXCEPT ![w] = r]
    BY <1>3 DEF Receive
  <2>2. PICK r : r.token \in tokens \cup {None} /\ req' = [req EXCEPT ![w] = r]
    BY <2>1, InputsAreRequests
  <2> QED
    BY <1>0, <1>3, <2>2 DEF Receive, Goto
<1>4. ASSUME NEW w \in Workers, req' = req, \E step : pc[w] # "idle" /\ Goto(w, step)
      PROVE  TokensPresented'
  BY <1>0, <1>4 DEF Goto
<1>5. ASSUME NEW w \in Workers, FetchUser(w) PROVE TokensPresented'
  BY <1>0, <1>5 DEF FetchUser
<1>6. ASSUME NEW w \in Workers, Finish(w) PROVE TokensPresented'
  BY <1>0, <1>6 DEF Finish, Goto
<1>7. ASSUME NEW w \in Workers,
             \/ JustReplies(w) \/ JustMoves(w) \/ CheckEmail(w) \/ InsertUser(w) \/ AssignRole(w)
             \/ FindUser(w) \/ GetMembership(w) \/ ListMembers(w) \/ RenderList(w) \/ DeleteCommit(w)
      PROVE  req' = req /\ \E step : pc[w] # "idle" /\ Goto(w, step)
  BY <1>7 DEF JustReplies, JustMoves, CheckEmail, InsertUser, AssignRole, FindUser,
              GetMembership, ListMembers, RenderList, DeleteCommit, Reply
<1> QED
  BY <1>1, <1>2, <1>3, <1>4, <1>5, <1>6, <1>7, Replies, Moves
     DEF Next, Serve, Guard, Enrol, Login, List, Delete

LEMMA GuardedStep ==
    ASSUME TypeOK, Shape, Ids, TokenBacked, TokensPresented, Guarded, [Next]_vars
    PROVE  Guarded'
<1> SUFFICES ASSUME NEW w \in Workers, PastGuard(w)'
             PROVE  LET token == req'[w].token
                    IN  /\ token \in tokens' /\ token.tenant = req'[w].tenant
                        /\ req'[w].kind \in {"create", "delete"} => Privileged(token.role)
  BY DEF Guarded, Tenant, Served, Privileged, RoleSatisfies
<1>1. req'[w] = req[w] /\ (PastGuard(w) \/ Authorise(w)) /\ tokens \subseteq tokens'
  BY GuardSteps, BackedStep
<1>2. CASE PastGuard(w)
  BY <1>1, <1>2 DEF Guarded, Tenant, Served, PastGuard
<1>3. CASE Authorise(w)
  <2>1. /\ req[w].token \in tokens /\ req[w].token.tenant = Tenant(w)
        /\ PassesRequireRole(req[w].token.role, RequiredRoles(req[w].kind))
    BY <1>3 DEF Authorise, ClaimsAccepted, RoleSuffices, TokensPresented
  <2>2. req[w].token.role \in Role
    BY <2>1 DEF TypeOK, Token
  <2>3. req[w].kind # "list" => Privileged(req[w].token.role)
    BY <2>1, <2>2, GuardedEndpoints
  <2> QED
    BY <1>1, <2>1, <2>3 DEF Tenant
<1> QED
  BY <1>1, <1>2, <1>3

LEMMA GuardedAreMembers ==
    ASSUME TypeOK, TokenBacked, TokensPresented, Guarded
    PROVE  AuthorisedMember
<1> SUFFICES ASSUME NEW w \in Workers, PastGuard(w)
             PROVE  /\ memberships[Tenant(w)][req[w].token.sub] # None
                    /\ Served(w, {"create", "delete"}) =>
                          Privileged(memberships[Tenant(w)][req[w].token.sub])
  BY DEF AuthorisedMember
<1>1. memberships[Tenant(w)][req[w].token.sub] = req[w].token.role
  BY DEF Guarded, TokenBacked
<1>2. req[w].token.role \in Role
  BY DEF Guarded, TypeOK, Token
<1> QED
  BY <1>1, <1>2, NoneAssumption DEF Guarded

(* Whoever gets past the guard of an endpoint is at every later step a     *)
(* member of the tenant the handler works on, and an ADMIN or OWNER of it  *)
(* if the handler writes - without any membership ever being looked up.    *)
THEOREM GuardsAdmitMembers == Spec => []AuthorisedMember
<1> DEFINE Inv == TokenBacked /\ TokensPresented /\ Guarded
<1>1. Init => Inv
  BY DEF Init, TokenBacked, TokensPresented, Guarded, PastGuard, Served
<1>2. TypeOK /\ Shape /\ Ids /\ [Next]_vars => Ids'
  BY IdsStep
<1>3. TypeOK /\ Shape /\ Ids /\ Inv /\ [Next]_vars => Inv'
  BY BackedStep, PresentedStep, GuardedStep
<1>4. TypeOK /\ Inv => AuthorisedMember
  BY GuardedAreMembers
<1> QED
  BY <1>1, <1>2, <1>3, <1>4, IdsInit, TypeCorrect, PTL DEF Spec
-----------------------------------------------------------------------------
(* A list request that has read the memberships, until its answer is gone. *)
Reading(w) == pc[w] = "fetch_users" \/ (Served(w, {"list"}) /\ status[w] = 200)

(* What the loop of ListUsersUseCase keeps: the rows read are still the    *)
(* roles of the tenant, and a row neither appended nor still to come is of *)
(* a user deleted for good.                                                *)
ListSound(w) ==
    /\ Tenant(w) \in Tenants
    /\ \A row \in members[w] : memberships[Tenant(w)][row[1]] = row[2]
    /\ listed[w] \subseteq members[w] /\ unfetched[w] \subseteq members[w]
    /\ \A row \in members[w] :
            UserExists(Tenant(w), row[1]) => row \in listed[w] \cup unfetched[w]
    /\ status[w] = 200 => unfetched[w] = {}

Listing ==
    \A w \in Workers :
        /\ status[w] # 0 => pc[w] = "replied"
        /\ pc[w] \notin {"fetch_users", "replied"} => listed[w] = {}
        /\ Reading(w) => ListSound(w)

(* A step of anyone else leaves the bookkeeping of a worker alone.         *)
ListFrame(w) ==
    /\ pc'[w] = pc[w] /\ req'[w] = req[w] /\ status'[w] = status[w]
    /\ members'[w] = members[w] /\ unfetched'[w] = unfetched[w] /\ listed'[w] = listed[w]

LEMMA FrameSteps ==
    ASSUME TypeOK, [Next]_vars, NEW w \in Workers
    PROVE  ListFrame(w) \/ Crash \/ Receive(w) \/ Serve(w) \/ SessionError(w)
<1> USE DEF ListFrame
<1>0. /\ pc \in [Workers -> PC] /\ req \in [Workers -> Request \cup {None}]
      /\ status \in [Workers -> Status]
      /\ members \in [Workers -> SUBSET (UserIds \X Role)]
      /\ unfetched \in [Workers -> SUBSET (UserIds \X Role)]
      /\ listed \in [Workers -> SUBSET (UserIds \X Role)]
  BY DEF TypeOK
<1>1. CASE UNCHANGED vars
  BY <1>1 DEF vars, workerVars
<1>2. CASE Tick \/ (\E t \in Tenants : SetTenantActive(t))
           \/ (\E t \in Tenants, u \in UserIds : SetUserActive(t, u))
  BY <1>2 DEF Tick, SetTenantActive, SetUserActive, workerVars
<1>3. ASSUME NEW v \in Workers, v # w, Receive(v) \/ JustReplies(v) \/ JustMoves(v)
      PROVE  ListFrame(w)
  BY <1>0, <1>3 DEF Receive, JustReplies, JustMoves, Goto, Reply
<1>4. ASSUME NEW v \in Workers, v # w, CheckEmail(v) \/ InsertUser(v) \/ AssignRole(v)
      PROVE  ListFrame(w)
  BY <1>0, <1>4 DEF CheckEmail, InsertUser, AssignRole, Goto, Reply
<1>5. ASSUME NEW v \in Workers, v # w, FindUser(v) \/ GetMembership(v) \/ DeleteCommit(v)
      PROVE  ListFrame(w)
  BY <1>0, <1>5 DEF FindUser, GetMembership, DeleteCommit, Goto, Reply
<1>6. ASSUME NEW v \in Workers, v # w, ListMembers(v) \/ FetchUser(v) \/ RenderList(v)
      PROVE  ListFrame(w)
  BY <1>0, <1>6 DEF ListMembers, FetchUser, RenderList, Goto, Reply
<1>7. ASSUME NEW v \in Workers, v # w, Finish(v)
      PROVE  ListFrame(w)
  BY <1>0, <1>7 DEF Finish, Goto
<1> QED
  BY <1>1, <1>2, <1>3, <1>4, <1>5, <1>6, <1>7, Replies, Moves
     DEF Next, Serve, Guard, Enrol, Login, List, Delete, Environment

LEMMA ListingStep ==
    ASSUME TypeOK, Shape, Ids, Listing, [Next]_vars
    PROVE  Listing'
<1>0. /\ pc \in [Workers -> PC] /\ req \in [Workers -> Request \cup {None}]
      /\ status \in [Workers -> Status]
      /\ members \in [Workers -> SUBSET (UserIds \X Role)]
      /\ unfetched \in [Workers -> SUBSET (UserIds \X Role)]
      /\ listed \in [Workers -> SUBSET (UserIds \X Role)]
  BY DEF TypeOK
<1> SUFFICES ASSUME NEW w \in Workers
             PROVE  /\ status'[w] # 0 => pc'[w] = "replied"
                    /\ pc'[w] \notin {"fetch_users", "replied"} => listed'[w] = {}
                    /\ Reading(w)' => ListSound(w)'
  BY DEF Listing
<1> DEFINE Goal == /\ status'[w] # 0 => pc'[w] = "replied"
                   /\ pc'[w] \notin {"fetch_users", "replied"} => listed'[w] = {}
                   /\ Reading(w)' => ListSound(w)'
<1> USE DEF Listing
(* What was read stays true whoever takes the step.                        *)
<1>1. ASSUME Reading(w), NEW row \in members[w]
      PROVE  /\ memberships'[Tenant(w)][row[1]] = row[2]
             /\ users[Tenant(w)][row[1]] = None => users'[Tenant(w)][row[1]] = None
  <2>1. row[1] \in UserIds /\ row[2] \in Role
    BY <1>0
  <2>2. Tenant(w) \in Tenants /\ memberships[Tenant(w)][row[1]] = row[2]
    BY <1>1 DEF ListSound
  <2> QED
    BY <2>1, <2>2, StoreStable, NoneAssumption
<1>2. CASE ListFrame(w)
  <2>1. Reading(w)' => Reading(w)
    BY <1>2 DEF ListFrame, Reading, Served
  <2>2. ASSUME Reading(w) PROVE ListSound(w)'
    BY <1>1, <1>2, <2>2 DEF ListFrame, ListSound, Tenant, UserExists
  <2> QED
    BY <1>2, <2>1, <2>2 DEF ListFrame
<1>3. CASE Crash
  BY <1>3 DEF Crash, Reading, Served
<1>4. CASE Receive(w) \/ Finish(w)
  BY <1>0, <1>4 DEF Receive, Finish, Goto, Reading, Served
<1>5. CASE JustReplies(w)
  BY <1>0, <1>5 DEF JustReplies, Reply, Goto, Reading, Served, ListFrame
<1>11. CASE JustMoves(w)
  BY <1>0, <1>11 DEF JustMoves, Reply, Goto, Reading, Served, ListFrame
<1>6. CASE CheckEmail(w) \/ InsertUser(w) \/ FindUser(w)
  BY <1>0, <1>6 DEF CheckEmail, InsertUser, FindUser, Goto, Reading, Served
<1>7. CASE AssignRole(w) \/ GetMembership(w) \/ DeleteCommit(w)
  <2>1. req[w].kind # "list" /\ req' = req /\ pc' = [pc EXCEPT ![w] = "replied"]
    BY <1>7 DEF AssignRole, GetMembership, DeleteCommit, Reply, Goto, Shape, WorkerShape, Creating
  <2> QED
    BY <1>0, <2>1 DEF Reading, Served
<1>8. CASE ListMembers(w)
  <2> DEFINE Rows == {<<u, memberships[Tenant(w)][u]>> : u \in MembersOf(Tenant(w))}
  <2>1. /\ pc[w] = "list_members" /\ pc'[w] = "fetch_users" /\ listed' = listed
        /\ req' = req /\ status' = status /\ memberships' = memberships
        /\ members'[w] = Rows /\ unfetched'[w] = Rows
    BY <1>0, <1>8 DEF ListMembers, Goto, dataVars
  <2>2. status[w] = 0 /\ listed[w] = {} /\ Tenant(w) \in Tenants
    BY <2>1 DEF Shape, WorkerShape
  <2>3. \A row \in Rows : memberships[Tenant(w)][row[1]] = row[2]
    OBVIOUS
  <2> QED
    BY <2>1, <2>2, <2>3 DEF ListSound, Tenant
<1>9. CASE FetchUser(w)
  <2>1. PICK row \in unfetched[w] :
          /\ unfetched' = [unfetched EXCEPT ![w] = @ \ {row}]
          /\ listed' = IF UserExists(Tenant(w), row[1])
                       THEN [listed EXCEPT ![w] = @ \cup {row}] ELSE listed
    BY <1>9 DEF FetchUser
  <2>2. /\ pc[w] = "fetch_users" /\ pc' = pc /\ req' = req /\ status' = status
        /\ members' = members /\ users' = users /\ memberships' = memberships
    BY <1>9 DEF FetchUser, dataVars
  <2>3. ListSound(w) /\ status[w] = 0
    BY <2>2 DEF Reading
  <2>4. row \in members[w]
    BY <2>1, <2>3, <1>9 DEF ListSound
  <2> QED
    BY <1>0, <2>1, <2>2, <2>3, <2>4 DEF ListSound, Tenant, UserExists
<1>10. CASE RenderList(w)
  <2>1. /\ pc[w] = "fetch_users" /\ unfetched[w] = {} /\ req' = req /\ pc'[w] = "replied"
        /\ UNCHANGED <<members, unfetched, listed, users, memberships>>
    BY <1>0, <1>10 DEF RenderList, Reply, Goto, dataVars
  <2>2. ListSound(w)
    BY <2>1 DEF Reading
  <2> QED
    BY <2>1, <2>2 DEF ListSound, Tenant, UserExists
<1> QED
  BY <1>2, <1>3, <1>4, <1>5, <1>6, <1>7, <1>8, <1>9, <1>10, <1>11, FrameSteps, Replies, Moves
     DEF Serve, Guard, Enrol, Login, List, Delete

(* The user list, although it is read in many sessions, omits no member    *)
(* that existed from its first read to its answer, and shows only roles    *)
(* that members of this tenant hold.                                       *)
THEOREM ListsFaithful == Spec => []ListFaithful
<1>1. Init => Listing
  BY DEF Init, Listing, Reading, Served
<1>2. TypeOK /\ Shape /\ Ids /\ [Next]_vars => Ids'
  BY IdsStep
<1>3. TypeOK /\ Shape /\ Ids /\ Listing /\ [Next]_vars => Listing'
  BY ListingStep
<1>4. Listing => ListFaithful
  BY DEF Listing, ListFaithful, Reading, ListSound
<1> QED
  BY <1>1, <1>2, <1>3, <1>4, IdsInit, TypeCorrect, PTL DEF Spec
=============================================================================
