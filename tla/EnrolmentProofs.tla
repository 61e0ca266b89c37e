-------------------------- MODULE EnrolmentProofs --------------------------
(* Theorems about how accounts come about and end: privileges once lost    *)
(* stay lost, only a fault leaves an account half made, and the API        *)
(* implements the abstract accounts.                                       *)
EXTENDS TenantApiProofs

(* What the earlier proofs establish, together.                            *)
Authority == TypeOK /\ Shape /\ Ids /\ TokenBacked /\ TokensPresented /\ Guarded

LEMMA AuthorityHolds == Spec => []Authority
<1>1. Init => TokenBacked /\ TokensPresented /\ Guarded
  BY DEF Init, TokenBacked, TokensPresented, Guarded, PastGuard, Served
<1>2. TypeOK /\ Shape /\ Ids /\ [Next]_vars => Ids'
  BY IdsStep
<1>3. Authority /\ [Next]_vars => TokenBacked' /\ TokensPresented' /\ Guarded'
  BY BackedStep, PresentedStep, GuardedStep DEF Authority
<1> QED
  BY <1>1, <1>2, <1>3, IdsInit, TypeCorrect, PTL DEF Spec, Authority
-----------------------------------------------------------------------------
(* Whoever gets past the guard of POST /users is a live privileged member. *)
LEMMA CreatorsArePrivileged ==
    ASSUME Authority, NEW w \in Workers, Authorise(w), req[w].kind = "create"
    PROVE  \E u \in UserIds : /\ UserExists(Tenant(w), u)
                              /\ Privileged(memberships[Tenant(w)][u])
<1> USE DEF Authority
<1>1. /\ req[w].token \in tokens /\ req[w].token.tenant = Tenant(w)
      /\ PassesRequireRole(req[w].token.role, RequiredRoles(req[w].kind))
      /\ UserExists(Tenant(w), req[w].token.sub)
  BY DEF Authorise, ClaimsAccepted, RoleSuffices, TokensPresented, PrincipalActive, UserActive
<1>2. req[w].token.role \in Role /\ req[w].token.sub \in UserIds
  BY <1>1 DEF TypeOK, Token
<1>3. Privileged(req[w].token.role)
  BY <1>1, <1>2, GuardedEndpoints
<1>4. memberships[Tenant(w)][req[w].token.sub] = req[w].token.role
  BY <1>1 DEF TokenBacked
<1> QED
  BY <1>1, <1>2, <1>3, <1>4

(* A creation past its guard was past it before, or passes it now.         *)
LEMMA CreationSteps ==
    ASSUME Authority, [Next]_vars, NEW t \in Tenants, CreationUnderWay(t)'
    PROVE  \/ CreationUnderWay(t)
           \/ \E w \in Workers : Authorise(w) /\ req[w].kind = "create" /\ Tenant(w) = t
<1> USE DEF Authority, Served, Tenant
<1>1. PICK w \in Workers : /\ pc'[w] \in {"check_email", "insert_user", "assign_role"}
                           /\ req'[w].kind = "create" /\ req'[w].tenant = t
  BY DEF CreationUnderWay
<1>2. PastGuard(w)'
  BY <1>1 DEF PastGuard
<1>3. req'[w] = req[w] /\ (PastGuard(w) \/ Authorise(w))
  BY <1>2, GuardSteps
<1>4. PastGuard(w) => pc[w] \in {"check_email", "insert_user", "assign_role"}
  BY <1>1, <1>3 DEF PastGuard, Shape, WorkerShape
<1>5. PastGuard(w) => pc[w] # "idle"
  BY DEF PastGuard
<1> QED
  BY <1>1, <1>3, <1>4, <1>5 DEF CreationUnderWay

LEMMA LeaderlessStep ==
    ASSUME Authority, [Next]_vars, NEW t \in Tenants, Leaderless(t)
    PROVE  Leaderless(t)'
<1> USE DEF Authority
<1>0. /\ users \in [Tenants -> [UserIds -> UserRow \cup {None}]]
      /\ memberships \in [Tenants -> [UserIds -> Role \cup {None}]]
  BY DEF TypeOK, DataTypeOK
<1>1. ~CreationUnderWay(t)'
  BY CreationSteps, CreatorsArePrivileged DEF Leaderless
<1>2. ASSUME NEW u \in UserIds, users'[t][u] # None
      PROVE  ~Privileged(memberships'[t][u])
  <2>0. users[t][u] # None => ~Privileged(memberships[t][u])
    BY DEF Leaderless, UserExists
  <2>1. CASE StoreUntouched
    BY <1>2, <2>0, <2>1 DEF StoreUntouched
  <2>2. ASSUME NEW w \in Workers, InsertUser(w) PROVE ~Privileged(memberships'[t][u])
    <3>1. memberships' = memberships /\ memberships[t][uid[w]] = None
      BY <2>2 DEF InsertUser, Ids, IsCreating
    <3>2. u # uid[w] => users'[t][u] = users[t][u]
      BY <1>0, <2>2 DEF InsertUser, AddUser
    <3> QED
      BY <1>2, <2>0, <3>1, <3>2, NoneAssumption DEF Privileged
  <2>3. ASSUME NEW w \in Workers, AssignRole(w) PROVE ~Privileged(memberships'[t][u])
    <3>1. /\ pc[w] = "assign_role" /\ Tenant(w) \in Tenants /\ uid[w] \in UserIds
          /\ req[w].kind \in Creating /\ users' = users
      BY <2>3 DEF AssignRole, Shape, WorkerShape
    <3>2. CASE Tenant(w) = t /\ uid[w] = u
      <4>1. req[w].kind = "register"
        BY <3>1, <3>2 DEF Leaderless, CreationUnderWay, Served, Creating
      <4>2. memberships'[t][u] = "MEMBER"
        BY <1>0, <2>3, <3>2, <4>1 DEF AssignRole, UpsertMembership, RoleGranted
      <4> QED
        BY <4>2, RoleLevels DEF Privileged, RoleSatisfies
    <3>3. CASE ~(Tenant(w) = t /\ uid[w] = u)
      <4>1. memberships'[t][u] = memberships[t][u]
        BY <1>0, <2>3, <3>1, <3>3 DEF AssignRole, UpsertMembership
      <4> QED
        BY <1>2, <2>0, <3>1, <4>1
    <3> QED
      BY <3>2, <3>3
  <2>4. ASSUME NEW w \in Workers, DeleteCommit(w) PROVE ~Privileged(memberships'[t][u])
    BY <1>0, <1>2, <2>0, <2>4 DEF DeleteCommit, RemoveUser
  <2>5. ASSUME NEW s \in Tenants, NEW v \in UserIds, SetUserActive(s, v)
        PROVE  ~Privileged(memberships'[t][u])
    BY <1>0, <1>2, <2>0, <2>5 DEF SetUserActive, UserExists
  <2> QED
    BY <2>1, <2>2, <2>3, <2>4, <2>5, StoreSteps
<1> QED
  BY <1>1, <1>2 DEF Leaderless, UserExists

(* Whatever its requests, its lost sessions and its crashes do, a tenant   *)
(* without a live ADMIN or OWNER and without a creation under way stays    *)
(* so: the API has no way back, only the operator's script has.            *)
THEOREM PrivilegeLostForGood == Spec => PrivilegeStaysLost
<1>1. Authority /\ [Next]_vars => \A t \in Tenants : Leaderless(t) => Leaderless(t)'
  BY LeaderlessStep
<1> QED
  BY <1>1, AuthorityHolds, PTL DEF Spec, PrivilegeStaysLost
-----------------------------------------------------------------------------
(* A creator waiting to assign a role keeps its request and its user until *)
(* it assigns it, fails, or dies.                                          *)
Waits(w) == pc[w] = "assign_role"
WaitsOn(w) == pc'[w] = pc[w] /\ req'[w] = req[w] /\ uid'[w] = uid[w]

LEMMA OthersLeaveCreator ==
    ASSUME TypeOK, NEW v \in Workers, NEW w \in Workers, v # w,
           Receive(v) \/ Serve(v) \/ SessionError(v)
    PROVE  WaitsOn(w)
<1> USE DEF WaitsOn
<1>0. /\ pc \in [Workers -> PC] /\ req \in [Workers -> Request \cup {None}]
      /\ uid \in [Workers -> UserIds \cup {None}]
  BY DEF TypeOK
<1>1. CASE Receive(v) \/ JustReplies(v) \/ JustMoves(v)
  BY <1>0, <1>1 DEF Receive, JustReplies, JustMoves, Goto, Reply
<1>2. CASE CheckEmail(v) \/ InsertUser(v) \/ AssignRole(v)
  BY <1>0, <1>2 DEF CheckEmail, InsertUser, AssignRole, Goto, Reply
<1>3. CASE FindUser(v) \/ GetMembership(v) \/ DeleteCommit(v)
  BY <1>0, <1>3 DEF FindUser, GetMembership, DeleteCommit, Goto, Reply
<1>4. CASE ListMembers(v) \/ FetchUser(v) \/ RenderList(v)
  BY <1>0, <1>4 DEF ListMembers, FetchUser, RenderList, Goto, Reply
<1>5. CASE Finish(v)
  BY <1>0, <1>5 DEF Finish, Goto
<1> QED
  BY <1>1, <1>2, <1>3, <1>4, <1>5, Replies, Moves
     DEF Serve, Guard, Enrol, Login, List, Delete

LEMMA EnvironmentSteps ==
    ASSUME [Next]_vars
    PROVE  \/ \E w \in Workers : Receive(w) \/ Serve(w) \/ SessionError(w)
           \/ Crash
           \/ UNCHANGED <<tables, tokens, workerVars>>
  BY DEF Next, Environment, Tick, SetTenantActive, SetUserActive, vars, dataVars

LEMMA WaitingSteps ==
    ASSUME TypeOK, [Next]_vars, NEW w \in Workers, Waits(w)
    PROVE  \/ WaitsOn(w)
           \/ AssignRole(w) \/ MissingTable(w) \/ SessionError(w) \/ Crash
<1>1. CASE Receive(w) \/ Guard(w) \/ Login(w)
  BY <1>1 DEF Waits, Receive, Guard, RefuseTenant, MissingTenant, UnknownTenant, RefuseBody,
              TenantResolved, Dispatch, RefuseToken, RefusePrincipal, Authorise,
              Login, RefuseLogin, FindUser, RefuseStranger, GetMembership
<1>2. CASE List(w) \/ Delete(w) \/ Finish(w)
  BY <1>2 DEF Waits, List, ListMembers, FetchUser, RenderList,
              Delete, RefuseDelete, DeleteLookup, DeleteCommit, Finish
<1>3. CASE Enrol(w)
  BY <1>3 DEF Waits, Enrol, RefuseRole, FindsEmailTaken, CheckEmail, InsertConflicts, InsertUser
<1>4. CASE UNCHANGED <<tables, tokens, workerVars>>
  BY <1>4 DEF workerVars, WaitsOn
<1> QED
  BY <1>1, <1>2, <1>3, <1>4, EnvironmentSteps, OthersLeaveCreator DEF Serve

(* Only an insert makes a worker wait.                                     *)
LEMMA WaitingBegins ==
    ASSUME TypeOK, [Next]_vars, NEW w \in Workers, Waits(w)'
    PROVE  InsertUser(w) \/ (Waits(w) /\ WaitsOn(w))
<1> USE DEF Waits
<1>0. pc \in [Workers -> PC]
  BY DEF TypeOK
<1>1. ASSUME ~InsertUser(w), Receive(w) \/ Serve(w) \/ SessionError(w)
      PROVE  FALSE
  <2>1. CASE Receive(w) \/ JustReplies(w) \/ JustMoves(w) \/ CheckEmail(w) \/ AssignRole(w)
    BY <1>0, <2>1 DEF Receive, JustReplies, JustMoves, CheckEmail, AssignRole, Goto, Reply
  <2>2. CASE FindUser(w) \/ GetMembership(w) \/ ListMembers(w) \/ FetchUser(w)
    BY <1>0, <2>2 DEF FindUser, GetMembership, ListMembers, FetchUser, Goto, Reply
  <2>3. CASE RenderList(w) \/ DeleteCommit(w) \/ Finish(w)
    BY <1>0, <2>3 DEF RenderList, DeleteCommit, Finish, Goto, Reply
  <2> QED
    BY <1>1, <2>1, <2>2, <2>3, Replies, Moves DEF Serve, Guard, Enrol, Login, List, Delete
<1>2. CASE Crash
  BY <1>2 DEF Crash
<1>3. CASE UNCHANGED <<tables, tokens, workerVars>>
  BY <1>3 DEF workerVars, WaitsOn
<1> QED
  BY <1>1, <1>2, <1>3, EnvironmentSteps, OthersLeaveCreator DEF WaitsOn
-----------------------------------------------------------------------------
(* With every provisioning finished, a tenant the middleware lets through  *)
(* has both tables, so no request past it lacks one.                       *)
TablesComplete ==
    /\ \A t \in Tenants : registry[t] # "absent" => tables[t] = TableNames
    /\ \A w \in Workers : pc[w] \notin {"idle", "resolve", "replied"} =>
            tables[Tenant(w)] = TableNames

(* No step touches the tables, and none registers or removes a tenant.     *)
LEMMA SchemaStays ==
    ASSUME TypeOK, [Next]_vars
    PROVE  /\ tables' = tables
           /\ \A t \in Tenants : registry'[t] # "absent" <=> registry[t] # "absent"
<1>0. registry \in [Tenants -> {"absent", "active", "inactive"}]
  BY DEF TypeOK, DataTypeOK
<1>1. ASSUME NEW w \in Workers,
             \/ Receive(w) \/ JustReplies(w) \/ JustMoves(w) \/ CheckEmail(w) \/ InsertUser(w)
             \/ AssignRole(w) \/ FindUser(w) \/ GetMembership(w) \/ ListMembers(w)
             \/ FetchUser(w) \/ RenderList(w) \/ DeleteCommit(w) \/ Finish(w)
      PROVE  UNCHANGED <<tables, registry>>
  BY <1>1 DEF Receive, JustReplies, JustMoves, CheckEmail, InsertUser, AssignRole, FindUser,
              GetMembership, ListMembers, FetchUser, RenderList, DeleteCommit, Finish, dataVars
<1>2. CASE UNCHANGED vars \/ Crash \/ Tick
           \/ \E t \in Tenants, u \in UserIds : SetUserActive(t, u)
  BY <1>2 DEF vars, Crash, Tick, SetUserActive, dataVars
<1>3. ASSUME NEW s \in Tenants, SetTenantActive(s)
      PROVE  tables' = tables /\ \A t \in Tenants : registry'[t] # "absent" <=> registry[t] # "absent"
  BY <1>0, <1>3 DEF SetTenantActive
<1> QED
  BY <1>1, <1>2, <1>3, Replies, Moves
     DEF Next, Serve, Guard, Enrol, Login, List, Delete, Environment

(* A request beyond the middleware was beyond it before, or has just been  *)
(* let through.                                                            *)
LEMMA BeyondMiddleware ==
    ASSUME TypeOK, [Next]_vars, NEW w \in Workers,
           pc'[w] \notin {"idle", "resolve", "replied"}
    PROVE  /\ req'[w] = req[w]
           /\ pc[w] \notin {"idle", "resolve", "replied"} \/ Dispatch(w)
<1>0. pc \in [Workers -> PC] /\ req \in [Workers -> Request \cup {None}]
  BY DEF TypeOK
<1> DEFINE Goal == /\ req'[w] = req[w]
                   /\ pc[w] \notin {"idle", "resolve", "replied"} \/ Dispatch(w)
<1>1. CASE UNCHANGED <<tables, tokens, workerVars>>
  BY <1>1 DEF workerVars
<1>2. CASE Crash
  BY <1>2 DEF Crash
<1>3. ASSUME NEW v \in Workers, v # w, Receive(v) \/ Serve(v) \/ SessionError(v)
      PROVE  Goal
  BY <1>3, OthersLeaveCreator DEF WaitsOn
<1>4. CASE Receive(w) \/ JustReplies(w) \/ Finish(w) \/ RenderList(w)
  BY <1>0, <1>4 DEF Receive, JustReplies, Finish, RenderList, Goto, Reply
<1>5. CASE Dispatch(w)
  BY <1>5 DEF Dispatch
<1>6. CASE Authorise(w) \/ DeleteLookup(w) \/ CheckEmail(w) \/ InsertUser(w) \/ AssignRole(w)
  BY <1>6 DEF Authorise, DeleteLookup, CheckEmail, InsertUser, AssignRole
<1>7. CASE FindUser(w) \/ GetMembership(w) \/ ListMembers(w) \/ FetchUser(w) \/ DeleteCommit(w)
  BY <1>7 DEF FindUser, GetMembership, ListMembers, FetchUser, DeleteCommit
<1> QED
  BY <1>1, <1>2, <1>3, <1>4, <1>5, <1>6, <1>7, EnvironmentSteps, Replies
     DEF Serve, Guard, Enrol, Login, List, Delete

LEMMA TablesStep ==
    ASSUME TypeOK, Shape, TablesComplete, [Next]_vars
    PROVE  TablesComplete'
<1>1. ASSUME NEW w \in Workers, pc'[w] \notin {"idle", "resolve", "replied"}
      PROVE  tables'[Tenant(w)'] = TableNames
  <2>1. CASE Dispatch(w)
    <3>1. Tenant(w) # None /\ registry[Tenant(w)] = "active" /\ pc[w] = "resolve"
      BY <2>1 DEF Dispatch, TenantResolved, TenantActive
    <3>2. Tenant(w) \in Tenants
      BY <3>1 DEF TypeOK, Request, Tenant
    <3> QED
      BY <1>1, <3>1, <3>2, SchemaStays, BeyondMiddleware DEF TablesComplete, Tenant
  <2> QED
    BY <1>1, <2>1, SchemaStays, BeyondMiddleware DEF TablesComplete, Tenant
<1> QED
  BY <1>1, SchemaStays DEF TablesComplete

LEMMA TablesInit ==
    ASSUME Unfinished = {}, Init
    PROVE  TablesComplete
<1>1. InitStore(Provisioned)
  BY DEF Init
<1> QED
  BY <1>1, ProvisionedAssumption DEF InitStore, InitTables, Init, TablesComplete

(* A step that leaves a user row without its membership either made the    *)
(* row, and its creator goes on, or found it so, and its creator waits.    *)
LEMMA OrphansStep ==
    ASSUME "error" \notin Faults, "crash" \notin Faults,
           Authority, TablesComplete, OrphansAreBeingEnrolled, [Next]_vars
    PROVE  OrphansAreBeingEnrolled'
<1> USE DEF Authority
<1>0. /\ users \in [Tenants -> [UserIds -> UserRow \cup {None}]]
      /\ memberships \in [Tenants -> [UserIds -> Role \cup {None}]]
      /\ pc \in [Workers -> PC]
  BY DEF TypeOK, DataTypeOK
<1> SUFFICES ASSUME NEW t \in Tenants, NEW u \in UserIds,
                    users'[t][u] # None, memberships'[t][u] = None
             PROVE  BeingEnrolled(t, u)'
  BY DEF OrphansAreBeingEnrolled, UserExists
<1>1. memberships[t][u] = None
  BY StoreStable
<1>2. CASE users[t][u] # None
  <2>1. PICK w \in Workers : Waits(w) /\ Tenant(w) = t /\ uid[w] = u
    BY <1>1, <1>2 DEF OrphansAreBeingEnrolled, UserExists, BeingEnrolled, Waits
  <2>2. ~SessionError(w) /\ ~Crash
    BY DEF SessionError, Crash
  <2>3. ~MissingTable(w)
    BY <2>1 DEF TablesComplete, Waits, MissingTable, HasTable
  <2>4. ~AssignRole(w)
    <3> SUFFICES ASSUME AssignRole(w) PROVE FALSE
      OBVIOUS
    <3>1. memberships'[t][u] = RoleGranted(w) /\ RoleGranted(w) \in Role
      BY <1>0, <2>1 DEF AssignRole, UpsertMembership, Shape, WorkerShape
    <3> QED
      BY <3>1, NoneAssumption
  <2>5. WaitsOn(w)
    BY <2>1, <2>2, <2>3, <2>4, WaitingSteps
  <2> QED
    BY <2>1, <2>5 DEF BeingEnrolled, Waits, WaitsOn, Tenant
<1>3. CASE users[t][u] = None
  <2>1. ~StoreUntouched /\ \A w \in Workers : ~AssignRole(w)
    BY <1>3 DEF StoreUntouched, AssignRole
  <2>2. \A w \in Workers : ~DeleteCommit(w)
    BY <1>0, <1>3 DEF DeleteCommit, RemoveUser
  <2>3. \A s \in Tenants, v \in UserIds : ~SetUserActive(s, v)
    BY <1>0, <1>3 DEF SetUserActive, UserExists
  <2>4. PICK w \in Workers : InsertUser(w)
    BY <2>1, <2>2, <2>3, StoreSteps
  <2>5. Tenant(w) = t /\ uid[w] = u
    BY <1>0, <1>3, <2>4 DEF InsertUser, AddUser
  <2>6. pc'[w] = "assign_role" /\ req' = req /\ uid' = uid
    BY <1>0, <2>4 DEF InsertUser, Goto
  <2> QED
    BY <2>5, <2>6 DEF BeingEnrolled, Tenant
<1> QED
  BY <1>2, <1>3

(* As long as no session fails, the process does not die and no            *)
(* provisioning was left unfinished, every user row without a membership   *)
(* is one its creator is about to enrol: no interleaving of creators,      *)
(* deleters, logins and operators alone leaves an account half made.       *)
THEOREM OrphansEnrolled ==
    ASSUME "error" \notin Faults, "crash" \notin Faults, Unfinished = {}
    PROVE  Spec => []OrphansAreBeingEnrolled
<1>1. Init => TablesComplete
  BY TablesInit
<1>2. Init => OrphansAreBeingEnrolled
  <2> SUFFICES ASSUME Init PROVE OrphansAreBeingEnrolled
    OBVIOUS
  <2>1. PICK done \in SUBSET Provisioned : InitStore(done)
    BY DEF Init
  <2>2. PICK owner \in [done -> UserIds], email \in [done -> Emails],
             password \in [done -> Passwords] :
          /\ users = OwnerRows(done, owner, email, password)
          /\ memberships = OwnerMemberships(done, owner)
    BY <2>1 DEF InitStore
  <2> QED
    BY <2>2, NoneAssumption
       DEF OrphansAreBeingEnrolled, UserExists, OwnerRows, OwnerMemberships, Role
<1>3. Authority /\ TablesComplete /\ [Next]_vars => TablesComplete'
  BY TablesStep DEF Authority
<1>4. Authority /\ TablesComplete /\ OrphansAreBeingEnrolled /\ [Next]_vars
        => OrphansAreBeingEnrolled'
  BY OrphansStep
<1> QED
  BY <1>1, <1>2, <1>3, <1>4, AuthorityHolds, PTL DEF Spec
-----------------------------------------------------------------------------
(* Beyond what authority needs: an identifier is of one tenant, a creator  *)
(* that waits has its row, and what a delete request names is enrolled.    *)
Holds(t, u) == users[t][u] # None \/ memberships[t][u] # None
OneTenant == \A s, t \in Tenants, u \in UserIds : Holds(s, u) /\ Holds(t, u) => s = t
RowsWait  == \A w \in Workers : Waits(w) => UserExists(Tenant(w), uid[w])
TargetsEnrolled ==
    \A w \in Workers : Served(w, {"delete"}) =>
        \E t \in Tenants : memberships[t][req[w].target] # None
Accounted == OneTenant /\ RowsWait /\ TargetsEnrolled

(* A deleter removes the two rows of an enrolled account of its tenant, or *)
(* finds nothing to remove.                                                *)
LEMMA DeletesEnrolled ==
    ASSUME Authority, Accounted, NEW w \in Workers, DeleteCommit(w),
           users[Tenant(w)][req[w].target] # None
    PROVE  /\ Tenant(w) \in Tenants /\ req[w].target \in UserIds
           /\ memberships[Tenant(w)][req[w].target] # None
<1>1. /\ pc[w] = "delete_commit" /\ req[w].kind = "delete"
      /\ Tenant(w) \in Tenants /\ req[w].target \in UserIds
  BY DEF DeleteCommit, Authority, Shape, WorkerShape, RequestShape
<1>2. PICK s \in Tenants : memberships[s][req[w].target] # None
  BY <1>1 DEF Accounted, TargetsEnrolled, Served
<1>3. s = Tenant(w)
  BY <1>1, <1>2 DEF Accounted, OneTenant, Holds
<1> QED
  BY <1>1, <1>2, <1>3

LEMMA TargetsStep ==
    ASSUME Authority, TargetsEnrolled, [Next]_vars
    PROVE  TargetsEnrolled'
<1> USE DEF Authority, Served
<1>0. /\ pc \in [Workers -> PC] /\ req \in [Workers -> Request \cup {None}]
      /\ memberships \in [Tenants -> [UserIds -> Role \cup {None}]]
  BY DEF TypeOK, DataTypeOK
<1>1. ASSUME NEW t \in Tenants, NEW u \in UserIds, memberships[t][u] # None
      PROVE  memberships'[t][u] # None
  BY <1>1, StoreStable
<1>2. ASSUME NEW w \in Workers, pc[w] # "idle", req[w].kind = "delete"
      PROVE  req[w].target \in UserIds
  BY <1>2 DEF Shape, WorkerShape, RequestShape
<1>3. ASSUME \A w \in Workers : pc'[w] # "idle" => pc[w] # "idle" /\ req'[w] = req[w]
      PROVE  TargetsEnrolled'
  BY <1>1, <1>2, <1>3 DEF TargetsEnrolled
<1>4. ASSUME NEW w \in Workers, Receive(w) PROVE TargetsEnrolled'
  <2>1. PICK k \in Kinds : \E r \in Inputs(k) : req' = [req EXCEPT ![w] = r]
    BY <1>4 DEF Receive
  <2>2. PICK r \in Inputs(k) : req' = [req EXCEPT ![w] = r]
    BY <2>1
  <2>3. r.kind = k /\ k \in Kind
    BY <2>2, InputsAreRequests, KindsAssumption
  <2>4. k = "delete" => r.target \in KnownIds
    BY <2>2 DEF Inputs
  <2>5. r.kind = "delete" => \E t \in Tenants : memberships[t][r.target] # None
    BY <2>3, <2>4 DEF KnownIds, MembersOf
  <2>6. memberships' = memberships /\ pc' = [pc EXCEPT ![w] = "resolve"]
    BY <1>4 DEF Receive, dataVars, Goto
  <2> QED
    BY <1>0, <2>2, <2>5, <2>6 DEF TargetsEnrolled
<1>5. ASSUME NEW w \in Workers, Finish(w) PROVE TargetsEnrolled'
  BY <1>0, <1>3, <1>5 DEF Finish, Goto
<1>6. ASSUME NEW w \in Workers, req' = req, \E step : pc[w] # "idle" /\ Goto(w, step)
      PROVE  TargetsEnrolled'
  BY <1>0, <1>3, <1>6 DEF Goto
<1>7. ASSUME NEW w \in Workers,
             \/ JustReplies(w) \/ JustMoves(w) \/ CheckEmail(w) \/ InsertUser(w) \/ AssignRole(w)
             \/ FindUser(w) \/ GetMembership(w) \/ ListMembers(w) \/ RenderList(w) \/ DeleteCommit(w)
      PROVE  req' = req /\ \E step : pc[w] # "idle" /\ Goto(w, step)
  BY <1>7 DEF JustReplies, JustMoves, CheckEmail, InsertUser, AssignRole, FindUser,
              GetMembership, ListMembers, RenderList, DeleteCommit, Reply
<1>8. ASSUME NEW w \in Workers, FetchUser(w) PROVE TargetsEnrolled'
  BY <1>3, <1>8 DEF FetchUser
<1>9. CASE Crash
  BY <1>9 DEF Crash, TargetsEnrolled
<1>10. CASE UNCHANGED <<tables, tokens, workerVars>>
  BY <1>3, <1>10 DEF workerVars
<1> QED
  BY <1>4, <1>5, <1>6, <1>7, <1>8, <1>9, <1>10, EnvironmentSteps, Replies, Moves
     DEF Serve, Guard, Enrol, Login, List, Delete

LEMMA RowsWaitStep ==
    ASSUME Authority, Accounted, [Next]_vars
    PROVE  RowsWait'
<1> USE DEF Authority
<1>0. users \in [Tenants -> [UserIds -> UserRow \cup {None}]]
  BY DEF TypeOK, DataTypeOK
<1> SUFFICES ASSUME NEW w \in Workers, Waits(w)'
             PROVE  users'[Tenant(w)'][uid'[w]] # None
  BY DEF RowsWait, UserExists
<1>1. CASE InsertUser(w)
  <2>1. /\ Tenant(w) \in Tenants /\ uid[w] \in UserIds
        /\ EmailOf(w) \in Emails /\ req[w].password \in Passwords
    BY <1>1 DEF InsertUser, Shape, WorkerShape, RequestShape, EmailOf, Creating, HasCredentials
  <2>2. NewUser(EmailOf(w), req[w].password) \in UserRow
    BY <2>1, DigestAssumption DEF NewUser, UserRow
  <2>3. users'[Tenant(w)][uid[w]] = NewUser(EmailOf(w), req[w].password)
    BY <1>0, <1>1, <2>1 DEF InsertUser, AddUser
  <2> QED
    BY <1>1, <2>2, <2>3, NoneAssumption DEF InsertUser, Tenant
<1>2. CASE Waits(w) /\ WaitsOn(w)
  <2>1. /\ Tenant(w)' = Tenant(w) /\ uid'[w] = uid[w]
        /\ Tenant(w) \in Tenants /\ uid[w] \in UserIds
    BY <1>2 DEF WaitsOn, Waits, Tenant, Shape, WorkerShape
  <2>2. users[Tenant(w)][uid[w]] # None
    BY <1>2 DEF Accounted, RowsWait, UserExists
  <2>3. \A t \in Tenants : memberships[t][uid[w]] = None
    BY <1>2 DEF Waits, Ids, IsCreating
  <2>4. CASE StoreUntouched
    BY <2>1, <2>2, <2>4 DEF StoreUntouched
  <2>5. ASSUME NEW v \in Workers, InsertUser(v) PROVE users'[Tenant(w)][uid[w]] # None
    <3>1. \A t \in Tenants : users[t][uid[v]] = None
      BY <2>5 DEF InsertUser, Ids
    <3> QED
      BY <1>0, <2>1, <2>2, <2>5, <3>1 DEF InsertUser, AddUser
  <2>6. ASSUME NEW v \in Workers, AssignRole(v) PROVE users'[Tenant(w)][uid[w]] # None
    BY <2>2, <2>6 DEF AssignRole
  <2>7. ASSUME NEW v \in Workers, DeleteCommit(v) PROVE users'[Tenant(w)][uid[w]] # None
    <3>1. ~(Tenant(v) = Tenant(w) /\ req[v].target = uid[w])
      BY <2>1, <2>2, <2>3, <2>7, DeletesEnrolled
    <3> QED
      BY <1>0, <2>1, <2>2, <2>7, <3>1 DEF DeleteCommit, RemoveUser
  <2>8. ASSUME NEW s \in Tenants, NEW x \in UserIds, SetUserActive(s, x)
        PROVE users'[Tenant(w)][uid[w]] # None
    <3>1. users[s][x] \in UserRow
      BY <1>0, <2>8 DEF SetUserActive, UserExists
    <3>2. [users[s][x] EXCEPT !.is_active = ~@] \in UserRow
      BY <3>1 DEF UserRow
    <3>3. PICK row \in UserRow : users' = [users EXCEPT ![s][x] = row]
      BY <2>8, <3>2 DEF SetUserActive
    <3> QED
      BY <1>0, <2>1, <2>2, <3>3, NoneAssumption
  <2> QED
    BY <2>1, <2>4, <2>5, <2>6, <2>7, <2>8, StoreSteps
<1> QED
  BY <1>1, <1>2, WaitingBegins

LEMMA OneTenantStep ==
    ASSUME Authority, Accounted, [Next]_vars
    PROVE  OneTenant'
<1> USE DEF Authority
<1>0. /\ users \in [Tenants -> [UserIds -> UserRow \cup {None}]]
      /\ memberships \in [Tenants -> [UserIds -> Role \cup {None}]]
  BY DEF TypeOK, DataTypeOK
<1>1. ASSUME \A t \in Tenants, u \in UserIds : Holds(t, u)' => Holds(t, u)
      PROVE  OneTenant'
  BY <1>1 DEF OneTenant, Accounted
<1>2. CASE StoreUntouched
  BY <1>1, <1>2 DEF StoreUntouched, Holds
<1>3. ASSUME NEW w \in Workers, InsertUser(w) PROVE OneTenant'
  <2>1. /\ Tenant(w) \in Tenants /\ uid[w] \in UserIds
        /\ \A t \in Tenants : ~Holds(t, uid[w])
    BY <1>3 DEF InsertUser, Shape, WorkerShape, Ids, IsCreating, Holds
  <2>2. \A t \in Tenants, u \in UserIds :
            t # Tenant(w) \/ u # uid[w] => (Holds(t, u)' <=> Holds(t, u))
    BY <1>0, <1>3, <2>1 DEF InsertUser, AddUser, Holds
  <2> QED
    BY <2>1, <2>2 DEF OneTenant, Accounted
<1>4. ASSUME NEW w \in Workers, AssignRole(w) PROVE OneTenant'
  <2>1. Tenant(w) \in Tenants /\ uid[w] \in UserIds /\ Holds(Tenant(w), uid[w])
    BY <1>4 DEF AssignRole, Shape, WorkerShape, Accounted, RowsWait, Waits, UserExists, Holds
  <2> QED
    BY <1>0, <1>1, <1>4, <2>1 DEF AssignRole, UpsertMembership, Holds
<1>5. ASSUME NEW w \in Workers, DeleteCommit(w) PROVE OneTenant'
  BY <1>0, <1>1, <1>5 DEF DeleteCommit, RemoveUser, Holds
<1>6. ASSUME NEW s \in Tenants, NEW x \in UserIds, SetUserActive(s, x) PROVE OneTenant'
  BY <1>0, <1>1, <1>6 DEF SetUserActive, UserExists, Holds
<1> QED
  BY <1>2, <1>3, <1>4, <1>5, <1>6, StoreSteps

LEMMA AccountedInit == Init => Accounted
<1> SUFFICES ASSUME Init PROVE Accounted
  OBVIOUS
<1>1. PICK done \in SUBSET Provisioned : InitStore(done)
  BY DEF Init
<1>2. PICK owner \in [done -> UserIds], email \in [done -> Emails],
           password \in [done -> Passwords] :
        /\ \A s, t \in done : owner[s] = owner[t] => s = t
        /\ users = OwnerRows(done, owner, email, password)
        /\ memberships = OwnerMemberships(done, owner)
  BY <1>1 DEF InitStore
<1>3. \A t \in Tenants, u \in UserIds : Holds(t, u) => t \in done /\ u = owner[t]
  BY <1>2 DEF Holds, OwnerRows, OwnerMemberships
<1> QED
  BY <1>2, <1>3 DEF Init, Accounted, OneTenant, RowsWait, TargetsEnrolled, Waits, Served

LEMMA AccountedHolds == Spec => [](Authority /\ Accounted)
<1>1. Authority /\ Accounted /\ [Next]_vars => Accounted'
  BY TargetsStep, RowsWaitStep, OneTenantStep DEF Accounted
<1> QED
  BY <1>1, AccountedInit, AuthorityHolds, PTL DEF Spec
-----------------------------------------------------------------------------
(* The API implements the abstract accounts.  Both have the same roles.    *)
LEMMA SameRoles == A!Role = Role /\ \A r : A!Privileged(r) <=> Privileged(r)
  BY DEF A!Role, Role, A!Privileged, Privileged, A!RoleSatisfies, RoleSatisfies,
         A!ROLE_LEVEL, ROLE_LEVEL

(* One account changes and the others do not.                              *)
LEMMA OneAccount ==
    ASSUME NEW t \in Tenants, NEW u \in UserIds, NEW account,
           AccountOf(t, u)' = account,
           \A s \in Tenants, v \in UserIds :
                s # t \/ v # u => AccountOf(s, v)' = AccountOf(s, v)
    PROVE  AbstractAccounts' = [AbstractAccounts EXCEPT ![t][u] = account]
  BY DEF AbstractAccounts

LEMMA SameAccounts ==
    ASSUME \A s \in Tenants, v \in UserIds : AccountOf(s, v)' = AccountOf(s, v)
    PROVE  AbstractAccounts' = AbstractAccounts
  BY DEF AbstractAccounts

(* A token issued is a session given.                                      *)
LEMMA OneSession ==
    ASSUME NEW t, NEW u, NEW r, tokens' = tokens \cup {NewToken(u, t, r)}
    PROVE  AbstractSessions' = AbstractSessions \cup {A!SessionOf(t, u, r)}
<1> DEFINE session(k) == [tenant |-> k.tenant, sub |-> k.sub, role |-> k.role]
<1>1. session(NewToken(u, t, r)) = A!SessionOf(t, u, r)
  BY DEF NewToken, A!SessionOf
<1>2. AbstractSessions' = {session(k) : k \in tokens'}
  BY DEF AbstractSessions
<1>3. AbstractSessions = {session(k) : k \in tokens}
  BY DEF AbstractSessions
<1> HIDE DEF session
<1> QED
  BY <1>1, <1>2, <1>3

(* What an account is, by the rows there are.                              *)
LEMMA AccountStates ==
    ASSUME NEW t \in Tenants, NEW u \in UserIds
    PROVE  /\ ~Holds(t, u) => AccountOf(t, u) = A!NoAccount
           /\ users[t][u] # None /\ memberships[t][u] = None =>
                AccountOf(t, u) = A!Pending(users[t][u].email)
           /\ users[t][u] # None /\ memberships[t][u] # None =>
                AccountOf(t, u) = A!Enrolled(users[t][u].email, memberships[t][u])
           /\ users[t][u] = None /\ memberships[t][u] # None =>
                AccountOf(t, u) = A!Closed(memberships[t][u])
<1>1. ~Holds(t, u) => AccountOf(t, u) = A!NoAccount
  BY DEF Holds, AccountOf, A!NoAccount
<1>2. users[t][u] # None /\ memberships[t][u] = None =>
        AccountOf(t, u) = A!Pending(users[t][u].email)
  BY DEF AccountOf, A!Pending
<1>3. users[t][u] # None /\ memberships[t][u] # None =>
        AccountOf(t, u) = A!Enrolled(users[t][u].email, memberships[t][u])
  BY DEF AccountOf, A!Enrolled
<1>4. users[t][u] = None /\ memberships[t][u] # None =>
        AccountOf(t, u) = A!Closed(memberships[t][u])
  BY DEF AccountOf, A!Closed
<1> QED
  BY <1>1, <1>2, <1>3, <1>4

(* A request that writes past its guard carries a privileged session.      *)
LEMMA WritersAuthorised ==
    ASSUME Authority, NEW w \in Workers, PastGuard(w), Served(w, {"create", "delete"})
    PROVE  A!Authorised(Tenant(w))
<1>1. /\ req[w].token \in tokens /\ req[w].token.tenant = Tenant(w)
      /\ Privileged(req[w].token.role)
  BY DEF Authority, Guarded
<1>2. [tenant |-> req[w].token.tenant, sub |-> req[w].token.sub, role |-> req[w].token.role]
        \in AbstractSessions
  BY <1>1 DEF AbstractSessions
<1> QED
  BY <1>1, <1>2, SameRoles DEF A!Authorised, AbstractSessions

(* A new row under a free address opens an account.                        *)
LEMMA RowOpens ==
    ASSUME users \in [Tenants -> [UserIds -> UserRow \cup {None}]],
           NEW t \in Tenants, NEW u \in UserIds, NEW row \in UserRow,
           \A s \in Tenants : ~Holds(s, u),
           ~EmailTaken(t, row.email),
           users' = [users EXCEPT ![t][u] = row],
           memberships' = memberships, tokens' = tokens
    PROVE  A!Open(t, u, row.email)
<1>1. \A s \in Tenants : AbstractAccounts[s][u].state = "none"
  BY AccountStates DEF AbstractAccounts, A!NoAccount
<1>2. \A v \in UserIds : AbstractAccounts[t][v].email # row.email
  <2> SUFFICES ASSUME NEW v \in UserIds
               PROVE  AccountOf(t, v).email # row.email
    BY DEF AbstractAccounts
  <2>1. CASE users[t][v] = None
    BY <2>1, NoneAssumption DEF AccountOf, UserRow
  <2>2. CASE users[t][v] # None
    <3>1. users[t][v].email # row.email
      BY <2>2 DEF EmailTaken, UsersWithEmail, UserExists
    <3> QED
      BY <2>2, <3>1 DEF AccountOf
  <2> QED
    BY <2>1, <2>2
<1>3. AbstractAccounts' = [AbstractAccounts EXCEPT ![t][u] = A!Pending(row.email)]
  <2>1. /\ users'[t][u] = row /\ row # None /\ memberships'[t][u] = None
        /\ \A s \in Tenants, v \in UserIds : s # t \/ v # u => users'[s][v] = users[s][v]
    BY NoneAssumption DEF Holds
  <2>2. AccountOf(t, u)' = A!Pending(row.email)
    BY <2>1 DEF AccountOf, A!Pending
  <2>3. \A s \in Tenants, v \in UserIds :
            s # t \/ v # u => AccountOf(s, v)' = AccountOf(s, v)
    BY <2>1 DEF AccountOf
  <2> QED
    BY <2>2, <2>3, OneAccount
<1>4. AbstractSessions' = AbstractSessions
  BY DEF AbstractSessions
<1> QED
  BY <1>1, <1>2, <1>3, <1>4 DEF A!Open, AbstractAccounts, AbstractSessions

(* The insert of a creation opens an account.                              *)
LEMMA InsertOpens ==
    ASSUME Authority, NEW w \in Workers, InsertUser(w)
    PROVE  \E t \in Tenants, u \in UserIds, e \in Emails : A!Open(t, u, e)
<1> USE DEF Authority
<1>1. /\ Tenant(w) \in Tenants /\ uid[w] \in UserIds
      /\ EmailOf(w) \in Emails /\ req[w].password \in Passwords
  BY DEF InsertUser, Shape, WorkerShape, RequestShape, EmailOf, Creating, HasCredentials
<1>2. NewUser(EmailOf(w), req[w].password) \in UserRow
  BY <1>1, DigestAssumption DEF NewUser, UserRow
<1>3. PICK t \in Tenants, u \in UserIds, row \in UserRow :
        t = Tenant(w) /\ u = uid[w] /\ row = NewUser(EmailOf(w), req[w].password)
  BY <1>1, <1>2
<1>4. row.email = EmailOf(w)
  BY <1>3 DEF NewUser
<1>5. /\ users' = [users EXCEPT ![t][u] = row]
      /\ memberships' = memberships /\ tokens' = tokens
  BY <1>3 DEF InsertUser, AddUser
<1>6. \A s \in Tenants : ~Holds(s, u)
  BY <1>3 DEF InsertUser, Ids, IsCreating, Holds
<1>7. ~EmailTaken(t, row.email)
  BY <1>3, <1>4 DEF InsertUser, UniqueViolated
<1>8. A!Open(t, u, row.email)
  BY <1>5, <1>6, <1>7, RowOpens DEF TypeOK, DataTypeOK
<1> QED
  BY <1>8 DEF UserRow

(* A first membership enrols an account that was opened.                   *)
LEMMA MembershipEnrols ==
    ASSUME memberships \in [Tenants -> [UserIds -> Role \cup {None}]],
           NEW t \in Tenants, NEW u \in UserIds, NEW r \in Role,
           users[t][u] # None, memberships[t][u] = None,
           users' = users, memberships' = [memberships EXCEPT ![t][u] = r]
    PROVE  /\ AbstractAccounts[t][u].state = "pending"
           /\ AbstractAccounts' = [AbstractAccounts EXCEPT ![t][u] = A!Enrolled(@.email, r)]
<1>1. AccountOf(t, u) = A!Pending(users[t][u].email)
  BY AccountStates
<1>2. /\ memberships'[t][u] = r
      /\ \A s \in Tenants, v \in UserIds :
            s # t \/ v # u => memberships'[s][v] = memberships[s][v]
  OBVIOUS
<1>3. AccountOf(t, u)' = A!Enrolled(users[t][u].email, r)
  BY <1>2, NoneAssumption DEF AccountOf, A!Enrolled
<1>4. \A s \in Tenants, v \in UserIds :
        s # t \/ v # u => AccountOf(s, v)' = AccountOf(s, v)
  BY <1>2 DEF AccountOf
<1>5. AbstractAccounts' =
        [AbstractAccounts EXCEPT ![t][u] = A!Enrolled(users[t][u].email, r)]
  BY <1>3, <1>4, OneAccount
<1>6. AbstractAccounts[t][u] = A!Pending(users[t][u].email)
  BY <1>1 DEF AbstractAccounts
<1> QED
  BY <1>5, <1>6 DEF A!Pending

(* The second commit of a creation enrols the account it opened.           *)
LEMMA AssignEnrols ==
    ASSUME Authority, Accounted, NEW w \in Workers, AssignRole(w)
    PROVE  \E t \in Tenants, u \in UserIds :
                A!Register(t, u) \/ \E r \in Role : A!Grant(t, u, r)
<1> USE DEF Authority
<1>1. /\ pc[w] = "assign_role" /\ Tenant(w) \in Tenants /\ uid[w] \in UserIds
      /\ req[w].kind \in Creating /\ RoleGranted(w) \in Role
  BY DEF AssignRole, Shape, WorkerShape
<1>2. PICK t \in Tenants, u \in UserIds, r \in Role :
            t = Tenant(w) /\ u = uid[w] /\ r = RoleGranted(w)
  BY <1>1
<1>3. users[t][u] # None /\ memberships[t][u] = None
  BY <1>1, <1>2 DEF Accounted, RowsWait, Waits, UserExists, Ids, IsCreating
<1>4. users' = users /\ memberships' = [memberships EXCEPT ![t][u] = r]
  BY <1>2 DEF AssignRole, UpsertMembership
<1>5. /\ AbstractAccounts[t][u].state = "pending"
      /\ AbstractAccounts' = [AbstractAccounts EXCEPT ![t][u] = A!Enrolled(@.email, r)]
  <2>1. memberships \in [Tenants -> [UserIds -> Role \cup {None}]]
    BY DEF TypeOK, DataTypeOK
  <2> QED
    BY ONLY <1>3, <1>4, <2>1, MembershipEnrols
<1>6. CASE req[w].kind = "register"
  <2>1. r = "MEMBER" /\ tokens' = tokens \cup {NewToken(u, t, "MEMBER")}
    BY <1>2, <1>6 DEF AssignRole, RoleGranted
  <2>2. AbstractSessions' = AbstractSessions \cup {A!SessionOf(t, u, "MEMBER")}
    BY <2>1, OneSession
  <2>3. A!Register(t, u)
    BY <1>5, <2>1, <2>2 DEF A!Register, AbstractAccounts, AbstractSessions
  <2> QED
    BY <2>3
<1>7. CASE req[w].kind = "create"
  <2>1. AbstractSessions' = AbstractSessions
    BY <1>7 DEF AssignRole, AbstractSessions
  <2>2. A!Authorised(t)
    BY <1>1, <1>2, <1>7, WritersAuthorised DEF PastGuard, Served
  <2>3. A!Grant(t, u, r)
    BY <1>5, <2>1, <2>2 DEF A!Grant, AbstractAccounts, AbstractSessions
  <2> QED
    BY <2>3
<1> QED
  BY <1>1, <1>6, <1>7 DEF Creating

(* Login gives a session to an account that is enrolled, or was.           *)
LEMMA LoginSignsIn ==
    ASSUME Authority, NEW w \in Workers, GetMembership(w)
    PROVE  \E t \in Tenants, u \in UserIds : A!SignIn(t, u)
<1> USE DEF Authority
<1>1. Tenant(w) \in Tenants /\ uid[w] \in UserIds
  BY DEF GetMembership, Shape, WorkerShape
<1>2. PICK t \in Tenants, u \in UserIds : t = Tenant(w) /\ u = uid[w]
  BY <1>1
<1>3. memberships[t][u] # None /\ dataVars' = dataVars
      /\ tokens' = tokens \cup {NewToken(u, t, memberships[t][u])}
  BY <1>2 DEF GetMembership
<1>4. AccountOf(t, u).state \in {"enrolled", "closed"} /\ AccountOf(t, u).role = memberships[t][u]
  BY <1>3, AccountStates DEF A!Enrolled, A!Closed
<1>5. AbstractSessions' = AbstractSessions \cup {A!SessionOf(t, u, AccountOf(t, u).role)}
  BY <1>3, <1>4, OneSession
<1>6. AbstractAccounts' = AbstractAccounts
  BY <1>3, SameAccounts DEF dataVars, AccountOf
<1>7. AbstractAccounts[t][u] = AccountOf(t, u)
  BY DEF AbstractAccounts
<1>8. A!SignIn(t, u)
  BY <1>4, <1>5, <1>6, <1>7 DEF A!SignIn, AbstractAccounts, AbstractSessions
<1> QED
  BY <1>8

(* A delete closes an enrolled account, or finds it closed.                *)
LEMMA DeleteCloses ==
    ASSUME Authority, Accounted, NEW w \in Workers, DeleteCommit(w)
    PROVE  \/ UNCHANGED <<AbstractAccounts, AbstractSessions>>
           \/ \E t \in Tenants, u \in UserIds : A!Close(t, u)
<1> USE DEF Authority
<1>0. users \in [Tenants -> [UserIds -> UserRow \cup {None}]]
  BY DEF TypeOK, DataTypeOK
<1>1. /\ pc[w] = "delete_commit" /\ req[w].kind = "delete"
      /\ Tenant(w) \in Tenants /\ req[w].target \in UserIds
  BY DEF DeleteCommit, Shape, WorkerShape, RequestShape
<1>2. PICK t \in Tenants, u \in UserIds : t = Tenant(w) /\ u = req[w].target
  BY <1>1
<1>3. /\ users'[t][u] = None /\ memberships' = memberships /\ tokens' = tokens
      /\ \A s \in Tenants, v \in UserIds : s # t \/ v # u => users'[s][v] = users[s][v]
  BY <1>0, <1>2 DEF DeleteCommit, RemoveUser
<1>4. AbstractSessions' = AbstractSessions
  BY <1>3 DEF AbstractSessions
<1>5. \A s \in Tenants, v \in UserIds :
        s # t \/ v # u => AccountOf(s, v)' = AccountOf(s, v)
  BY <1>3 DEF AccountOf
<1>6. CASE users[t][u] = None
  <2>1. AccountOf(t, u)' = AccountOf(t, u)
    BY <1>3, <1>6 DEF AccountOf
  <2> QED
    BY <1>4, <1>5, <2>1, SameAccounts
<1>7. CASE users[t][u] # None
  <2>1. memberships[t][u] # None
    BY <1>2, <1>7, DeletesEnrolled
  <2>2. AccountOf(t, u) = A!Enrolled(users[t][u].email, memberships[t][u])
    BY <1>7, <2>1, AccountStates
  <2>3. AccountOf(t, u)' = A!Closed(memberships[t][u])
    BY <1>3, <2>1 DEF AccountOf, A!Closed
  <2>4. AbstractAccounts' = [AbstractAccounts EXCEPT ![t][u] = A!Closed(memberships[t][u])]
    BY <1>5, <2>3, OneAccount
  <2>5. AbstractAccounts[t][u] = A!Enrolled(users[t][u].email, memberships[t][u])
    BY <2>2 DEF AbstractAccounts
  <2>6. /\ AbstractAccounts' = [AbstractAccounts EXCEPT ![t][u] = A!Closed(@.role)]
        /\ AbstractAccounts[t][u].state = "enrolled"
    BY <2>4, <2>5 DEF A!Enrolled
  <2>7. A!Authorised(t)
    BY <1>1, <1>2, WritersAuthorised DEF PastGuard, Served
  <2>8. A!Close(t, u)
    BY <1>4, <2>6, <2>7 DEF A!Close, AbstractAccounts, AbstractSessions
  <2> QED
    BY <2>8
<1> QED
  BY <1>6, <1>7

(* is_active is not part of an account.                                    *)
LEMMA EditsInvisible ==
    ASSUME Authority, NEW s \in Tenants, NEW x \in UserIds, SetUserActive(s, x)
    PROVE  UNCHANGED <<AbstractAccounts, AbstractSessions>>
<1> USE DEF Authority
<1>0. users \in [Tenants -> [UserIds -> UserRow \cup {None}]]
  BY DEF TypeOK, DataTypeOK
<1>1. users[s][x] \in UserRow
  BY <1>0 DEF SetUserActive, UserExists
<1>2. PICK row : /\ row = [users[s][x] EXCEPT !.is_active = ~@]
                 /\ users' = [users EXCEPT ![s][x] = row]
  BY DEF SetUserActive
<1>3. row \in UserRow /\ row.email = users[s][x].email
  BY <1>1, <1>2 DEF UserRow
<1>4. \A t \in Tenants, u \in UserIds :
        /\ users'[t][u] = None <=> users[t][u] = None
        /\ users[t][u] # None => users'[t][u].email = users[t][u].email
  BY <1>0, <1>1, <1>2, <1>3, NoneAssumption
<1>5. memberships' = memberships /\ tokens' = tokens
  BY DEF SetUserActive
<1>6. \A t \in Tenants, u \in UserIds : AccountOf(t, u)' = AccountOf(t, u)
  BY <1>4, <1>5 DEF AccountOf
<1> QED
  BY <1>5, <1>6, SameAccounts DEF AbstractSessions
-----------------------------------------------------------------------------
LEMMA AbstractTyped ==
    ASSUME DataTypeOK
    PROVE  AbstractAccounts \in [Tenants -> [UserIds -> A!Account]]
<1> SUFFICES ASSUME NEW t \in Tenants, NEW u \in UserIds PROVE AccountOf(t, u) \in A!Account
  BY DEF AbstractAccounts
<1>1. users[t][u] # None => users[t][u].email \in Emails
  BY DEF DataTypeOK, UserRow
<1>2. memberships[t][u] \in Role \cup {None}
  BY DEF DataTypeOK
<1> QED
  BY <1>1, <1>2, SameRoles DEF AccountOf, A!Account

LEMMA AbstractHome ==
    ASSUME OneTenant
    PROVE  A!OneHome
<1>1. ASSUME NEW t \in Tenants, NEW u \in UserIds, AbstractAccounts[t][u].state # "none"
      PROVE  Holds(t, u)
  BY <1>1, AccountStates DEF AbstractAccounts, A!NoAccount
<1> QED
  BY <1>1 DEF OneTenant, A!OneHome, AbstractAccounts

LEMMA AbstractInit == Init => A!Init
<1> SUFFICES ASSUME Init PROVE A!Init
  OBVIOUS
<1>1. PICK done \in SUBSET Provisioned : InitStore(done)
  BY DEF Init
<1>2. PICK owner \in [done -> UserIds], email \in [done -> Emails],
           password \in [done -> Passwords] :
        /\ users = OwnerRows(done, owner, email, password)
        /\ memberships = OwnerMemberships(done, owner)
  BY <1>1 DEF InitStore
<1>3. \A t \in done : NewUser(email[t], password[t]) # None /\ NewUser(email[t], password[t]).email = email[t]
  <2>1. \A t \in done : NewUser(email[t], password[t]) \in UserRow
    BY DigestAssumption DEF NewUser, UserRow
  <2> QED
    BY <2>1, NoneAssumption DEF NewUser
<1>4. ASSUME NEW t \in Tenants, t \notin done
      PROVE  AbstractAccounts[t] = [u \in UserIds |-> A!NoAccount]
  <2>1. \A u \in UserIds : ~Holds(t, u)
    BY <1>2, <1>4 DEF Holds, OwnerRows, OwnerMemberships
  <2> QED
    BY <2>1, AccountStates DEF AbstractAccounts
<1>5. ASSUME NEW t \in Tenants, t \in done
      PROVE  \E u \in UserIds, e \in Emails : A!Founded(t, u, e)
  <2>1. \A u \in UserIds : u # owner[t] => AccountOf(t, u) = A!NoAccount
    <3>1. \A u \in UserIds : u # owner[t] => ~Holds(t, u)
      BY <1>2, <1>5 DEF Holds, OwnerRows, OwnerMemberships
    <3> QED
      BY <3>1, AccountStates
  <2>2. AccountOf(t, owner[t]) = A!Enrolled(email[t], "OWNER")
    <3>1. /\ users[t][owner[t]] # None /\ users[t][owner[t]].email = email[t]
          /\ memberships[t][owner[t]] = "OWNER" /\ memberships[t][owner[t]] # None
      BY <1>2, <1>3, <1>5, NoneAssumption DEF OwnerRows, OwnerMemberships, Role
    <3> QED
      BY <1>5, <3>1, AccountStates
  <2>3. AbstractAccounts[t] = [v \in UserIds |->
            IF v = owner[t] THEN A!Enrolled(email[t], "OWNER") ELSE A!NoAccount]
    BY <2>1, <2>2 DEF AbstractAccounts
  <2> QED
    BY <1>5, <2>3 DEF A!Founded, AbstractAccounts
<1>6. AbstractAccounts \in [Tenants -> [UserIds -> A!Account]] /\ AbstractSessions = {}
  BY TypeInit, AbstractTyped DEF TypeOK, AbstractSessions, Init
<1>7. A!OneHome
  BY AccountedInit, AbstractHome DEF Accounted
<1> QED
  BY <1>4, <1>5, <1>6, <1>7 DEF A!Init, AbstractAccounts, AbstractSessions

(* Every step of the API is one of the abstract accounts, or invisible.    *)
LEMMA AbstractStep ==
    ASSUME Authority, Accounted, [Next]_vars
    PROVE  [A!Next]_(A!vars)
<1> USE DEF A!vars
<1>1. CASE UNCHANGED <<AbstractAccounts, AbstractSessions>>
  BY <1>1 DEF AbstractAccounts, AbstractSessions
<1>2. ASSUME NEW w \in Workers, InsertUser(w) PROVE A!Next
  BY <1>2, InsertOpens DEF A!Next
<1>3. ASSUME NEW w \in Workers, AssignRole(w) PROVE A!Next
  BY <1>3, AssignEnrols, SameRoles DEF A!Next
<1>4. ASSUME NEW w \in Workers, GetMembership(w) PROVE A!Next
  BY <1>4, LoginSignsIn DEF A!Next
<1>5. ASSUME NEW w \in Workers, DeleteCommit(w)
      PROVE  A!Next \/ UNCHANGED <<AbstractAccounts, AbstractSessions>>
  BY <1>5, DeleteCloses DEF A!Next
<1>6. ASSUME StoreUntouched, tokens' = tokens
      PROVE  UNCHANGED <<AbstractAccounts, AbstractSessions>>
  <2>1. \A t \in Tenants, u \in UserIds : AccountOf(t, u)' = AccountOf(t, u)
    BY <1>6 DEF StoreUntouched, AccountOf
  <2> QED
    BY <1>6, <2>1, SameAccounts DEF AbstractSessions
<1> QED
  BY <1>1, <1>2, <1>3, <1>4, <1>5, <1>6, EditsInvisible, StoreSteps, TokenSteps

(* Every behaviour of the API is one of the abstract accounts: whatever    *)
(* interleaves, fails or dies, an account is opened under a free address,  *)
(* enrolled once, keeps its role and is closed for good, and only a        *)
(* privileged session of the same tenant grants a role or closes one.      *)
THEOREM AccountsImplemented == Spec => ImplementsAccounts
<1>1. Authority /\ Accounted /\ [Next]_vars => [A!Next]_(A!vars)
  BY AbstractStep
<1> QED
  BY <1>1, AbstractInit, AccountedHolds, PTL DEF Spec, ImplementsAccounts, A!Spec
-----------------------------------------------------------------------------
(* What holds of the abstract accounts holds of whatever implements them.  *)
AA == INSTANCE AccountsProofs WITH accounts <- AbstractAccounts, sessions <- AbstractSessions

LEMMA SameAbstraction ==
    /\ A!Init <=> AA!Init
    /\ [A!Next]_(A!vars) <=> [AA!Next]_(AA!vars)
<1>1. A!Init <=> AA!Init
  BY DEF A!Init, AA!Init, A!Account, AA!Account, A!Founded, AA!Founded, A!OneHome, AA!OneHome,
         A!NoAccount, AA!NoAccount, A!Enrolled, AA!Enrolled, A!Role, AA!Role
<1>2. A!Next <=> AA!Next
  BY DEF A!Next, AA!Next, A!Open, AA!Open, A!Register, AA!Register, A!Grant, AA!Grant,
         A!Appoint, AA!Appoint, A!SignIn, AA!SignIn, A!Close, AA!Close, A!Authorised, AA!Authorised,
         A!SessionOf, AA!SessionOf, A!Pending, AA!Pending, A!Enrolled, AA!Enrolled, A!Closed, AA!Closed,
         A!Role, AA!Role, A!Privileged, AA!Privileged, A!RoleSatisfies, AA!RoleSatisfies,
         A!ROLE_LEVEL, AA!ROLE_LEVEL
<1> QED
  BY <1>1, <1>2 DEF A!vars, AA!vars

LEMMA Promised ==
    /\ ImplementsAccounts => [](AA!TypeOK /\ AA!OneHome /\ AA!SessionsTrue
                                   /\ AA!AddressesUnique /\ AA!OwnersFirst)
    /\ ImplementsAccounts => AA!AccountsLast
BY SameAbstraction, AA!AccountsKeepPromises, AA!AccountsGoOn, PTL
   DEF ImplementsAccounts, A!Spec, AA!Spec

(* An account of the abstraction, by its rows.                             *)
LEMMA AccountRows ==
    ASSUME NEW t \in Tenants, NEW u \in UserIds
    PROVE  /\ AbstractAccounts[t][u].role = memberships[t][u]
           /\ AA!Live(AbstractAccounts[t][u]) <=> users[t][u] # None
           /\ AA!Held(AbstractAccounts[t][u]) <=> memberships[t][u] # None
           /\ users[t][u] # None => AbstractAccounts[t][u].email = users[t][u].email
BY DEF AbstractAccounts, AccountOf, AA!Live, AA!Held

LEMMA PrivilegesTraced == AA!OwnersFirst => PrivilegeFromOwner
<1>1. \A r : AA!Privileged(r) <=> Privileged(r)
  BY DEF AA!Role, Role, AA!Privileged, Privileged, AA!RoleSatisfies, RoleSatisfies,
         AA!ROLE_LEVEL, ROLE_LEVEL
<1>2. \A r : Privileged(r) => r # None
  BY NoneAssumption DEF Privileged
<1>3. "OWNER" # None
  BY NoneAssumption DEF Role
<1> QED
  BY <1>1, <1>2, <1>3, AccountRows DEF AA!OwnersFirst, PrivilegeFromOwner

LEMMA AddressesTraced == AA!AddressesUnique => UniqueEmail
BY AccountRows DEF AA!AddressesUnique, UniqueEmail, UserExists

(* What may become of an account, in terms of its rows.                    *)
LEMMA RowsContinue ==
    ASSUME NEW t \in Tenants, NEW u \in UserIds, memberships[t][u] # None,
           AA!Continues(AbstractAccounts[t][u], AbstractAccounts'[t][u])
    PROVE  /\ memberships'[t][u] = memberships[t][u]
           /\ users[t][u] = None => users'[t][u] = None
<1>1. /\ AbstractAccounts'[t][u].role = memberships'[t][u]
      /\ users'[t][u] = None => ~AA!Live(AbstractAccounts'[t][u])
      /\ users'[t][u] # None => AA!Live(AbstractAccounts'[t][u])
  BY DEF AbstractAccounts, AccountOf, AA!Live
<1>2. \/ AbstractAccounts[t][u].state = "enrolled" /\ users[t][u] # None
      \/ AbstractAccounts[t][u].state = "closed"
  BY DEF AbstractAccounts, AccountOf
<1>3. AbstractAccounts[t][u].role = memberships[t][u]
  BY AccountRows
<1>4. users[t][u] = None => ~AA!Live(AbstractAccounts[t][u])
  BY AccountRows
<1> QED
  BY <1>1, <1>2, <1>3, <1>4 DEF AA!Continues, AA!Closed

(* However requests race, fail or die, and operators edit rows, a tenant   *)
(* in which anybody was ever given a privilege has had an owner: no MEMBER *)
(* gets at POST /users.                                                    *)
THEOREM PrivilegesFromOwners == Spec => []PrivilegeFromOwner
BY AccountsImplemented, Promised, PrivilegesTraced, PTL
=============================================================================
