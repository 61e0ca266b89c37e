---------------------------- MODULE SystemProofs ----------------------------
(* Theorems about API and commands together on one store.  The parts keep  *)
(* their invariants when the other part steps, because creators of both    *)
(* draw their own identifiers and a command seeds an owner only where      *)
(* nobody has a privilege.                                                 *)
EXTENDS System, EnrolmentProofs

PP == INSTANCE OutcomeProofs

LEMMA Assumed ==
    /\ PP!DigestAssumption /\ PP!CanonicalAssumption /\ PP!NoneAssumption
    /\ PP!JobsAssumption /\ PP!NoJobAssumption
BY DigestAssumption, CanonicalAssumption, NoneAssumption, JobsAssumption, NoJobAssumption
   DEF Role, PP!Role, UserRow, PP!UserRow, P!Commands, PP!Commands

(* The steps the system takes, and those the theorems on the commands      *)
(* speak of, are the same.                                                 *)
LEMMA BridgeStart == ASSUME NEW s PROVE P!Start(s) <=> PP!Start(s)
BY DEF P!Start, PP!Start, P!At, PP!At, P!Job, PP!Job, P!schemaVars, PP!schemaVars, P!dataVars,
       PP!dataVars, P!Cardinality, PP!Cardinality, P!IdLeft, PP!IdLeft, P!WillDraw,
       PP!WillDraw, P!Creates, PP!Creates

LEMMA BridgeBuild == ASSUME NEW s PROVE P!Build(s) <=> PP!Build(s)
BY DEF P!Build, PP!Build, P!At, PP!At, P!Goto, PP!Goto, P!schemaVars, PP!schemaVars,
       P!dataVars, PP!dataVars, P!InspectRegistry, PP!InspectRegistry, P!ReadRegistryVersion,
       PP!ReadRegistryVersion, P!RegistryConflicts, PP!RegistryConflicts, P!CreateRegistryTable,
       PP!CreateRegistryTable, P!StampRegistry, PP!StampRegistry, P!AtRegistryTable,
       PP!AtRegistryTable, P!RegistryTable, PP!RegistryTable, P!RegistryTables,
       PP!RegistryTables, P!HasTenants, PP!HasTenants, P!Built, PP!Built, P!Creates, PP!Creates

LEMMA BridgeRegister == ASSUME NEW s PROVE P!Register(s) <=> PP!Register(s)
BY DEF P!Register, PP!Register, P!At, PP!At, P!Goto, PP!Goto, P!schemaVars, PP!schemaVars,
       P!dataVars, PP!dataVars, P!FindsSlug, PP!FindsSlug, P!CheckSlug, PP!CheckSlug,
       P!SlugConflicts, PP!SlugConflicts, P!InsertTenant, PP!InsertTenant, P!Registered,
       PP!Registered, P!SlugTaken, PP!SlugTaken, P!Slug, PP!Slug

LEMMA BridgeMigrate == ASSUME NEW s PROVE P!Migrate(s) <=> PP!Migrate(s)
BY DEF P!Migrate, PP!Migrate, P!At, PP!At, P!Goto, PP!Goto, P!schemaVars, PP!schemaVars,
       P!dataVars, PP!dataVars, P!NoRegistry, PP!NoRegistry, P!ReadSlugs, PP!ReadSlugs,
       P!NextSlug, PP!NextSlug, P!AllMigrated, PP!AllMigrated, P!HasTenants, PP!HasTenants,
       P!TenantActive, PP!TenantActive

LEMMA BridgeUpgrade == ASSUME NEW s PROVE P!Upgrade(s) <=> PP!Upgrade(s)
BY DEF P!Upgrade, PP!Upgrade, P!At, PP!At, P!Goto, PP!Goto, P!schemaVars, PP!schemaVars,
       P!dataVars, PP!dataVars, P!ReadVersion, PP!ReadVersion, P!TableConflicts,
       PP!TableConflicts, P!CreateTable, PP!CreateTable, P!Stamp, PP!Stamp, P!Upgraded,
       PP!Upgraded, P!Creates, PP!Creates, P!Slug, PP!Slug, P!AtTable, PP!AtTable,
       P!TableExists, PP!TableExists, P!TableOf, PP!TableOf, P!AddTable, PP!AddTable

LEMMA BridgeSeed == ASSUME NEW s PROVE P!Seed(s) <=> PP!Seed(s)
BY DEF P!Seed, PP!Seed, P!At, PP!At, P!Goto, PP!Goto, P!schemaVars, PP!schemaVars, P!dataVars,
       PP!dataVars, P!OwnerConflicts, PP!OwnerConflicts, P!CreateOwner, PP!CreateOwner,
       P!AssignOwner, PP!AssignOwner, P!UniqueViolated, PP!UniqueViolated, P!EmailTaken,
       PP!EmailTaken, P!UsersWithEmail, PP!UsersWithEmail, P!UserExists, PP!UserExists,
       P!GenerateId, PP!GenerateId, P!AddUser, PP!AddUser, P!NewUser, PP!NewUser,
       P!UpsertMembership, PP!UpsertMembership, P!Slug, PP!Slug

LEMMA BridgeExit == ASSUME NEW s PROVE (P!Exit(s) <=> PP!Exit(s)) /\ (P!Fail(s) <=> PP!Fail(s))
BY DEF P!Exit, PP!Exit, P!Fail, PP!Fail, P!NoJob, PP!NoJob, P!Job, PP!Job, P!Goto, PP!Goto,
       P!schemaVars, PP!schemaVars, P!dataVars, PP!dataVars

LEMMA CommandSteps ==
    ASSUME P!Next
    PROVE  \E s \in Scripts : PP!ScriptStep(s)
BY NoVisitorAssumption, BridgeStart, BridgeBuild, BridgeRegister, BridgeMigrate, BridgeUpgrade,
   BridgeSeed, BridgeExit
   DEF P!Next, P!Visit, P!Run, PP!Run, PP!ScriptStep

LEMMA CommandTypes == P!TypeOK <=> PP!TypeOK
BY DEF P!TypeOK, PP!TypeOK, P!DataTypeOK, PP!DataTypeOK, P!Script, PP!Script, P!ScriptPC,
       PP!ScriptPC, P!TableOf, PP!TableOf, P!CreateSteps, PP!CreateSteps, P!Commands,
       PP!Commands, P!UserRow, PP!UserRow, P!TableNames, PP!TableNames, P!Role, PP!Role,
       P!RegistryTables, PP!RegistryTables

LEMMA CommandStepTyped ==
    ASSUME PP!TypeOK, PP!Placed, NEW s \in Scripts, PP!ScriptStep(s)
    PROVE  PP!TypeOK' /\ PP!Placed'
<1>1. PP!Next
  BY DEF PP!Next, PP!ScriptStep
<1> QED
  BY <1>1, Assumed, PP!TypeStep, PP!PlacedStep
-----------------------------------------------------------------------------
(* Tenants without an owner: those not registered, and those a script is   *)
(* seeding, one script each.                                               *)
Unprivileged(t) == \A u \in UserIds : ~Privileged(memberships[t][u])
Seeders ==
    /\ \A t \in Tenants : registry[t] = "absent" => Unprivileged(t)
    /\ \A s \in Scripts : PP!Seeds(s) =>
            registry[script[s].slug] # "absent" /\ Unprivileged(script[s].slug)
    /\ \A r, s \in Scripts :
            PP!Seeds(r) /\ PP!Seeds(s) /\ script[r].slug = script[s].slug => r = s

(* The owner a script has made has its row, no membership, and an          *)
(* identifier no creator in the API and no other script has.               *)
Awaits(s) == script[s].pc = "assign_owner"
OwnersWait ==
    /\ \A s \in Scripts : Awaits(s) =>
            /\ script[s].owner \in drawn
            /\ users[script[s].slug][script[s].owner] # None
            /\ \A t \in Tenants : memberships[t][script[s].owner] = None
            /\ \A w \in Workers : IsCreating(w) => uid[w] # script[s].owner
    /\ \A r, s \in Scripts : r # s /\ Awaits(r) /\ Awaits(s) => script[r].owner # script[s].owner

Commanded == PP!TypeOK /\ PP!Placed /\ Seeders /\ OwnersWait
Whole == Authority /\ Accounted /\ Commanded

LEMMA SeederTypes ==
    ASSUME PP!TypeOK, PP!Placed, NEW s \in Scripts
    PROVE  /\ PP!Seeds(s) => script[s].slug \in Tenants
           /\ Awaits(s) => script[s].owner \in UserIds /\ PP!Seeds(s)
<1>1. /\ script[s] \in PP!Script /\ PP!Held(s) /\ PP!PlacedAt(script[s].pc, script[s].job)
  BY PP!TypeParts, Assumed DEF PP!Placed
<1>2. PP!Seeds(s) => script[s].slug \in Tenants
  BY <1>1 DEF PP!Seeds, PP!Held, PP!Script, PP!Slug
<1>3. Awaits(s) => script[s].owner \in UserIds
  BY <1>1 DEF Awaits, PP!Held, PP!Script
<1>4. Awaits(s) => PP!Seeds(s)
  BY <1>1 DEF Awaits, PP!Seeds, PP!SeedSteps, PP!PlacedAt, PP!CreateSteps, PP!Creates
<1> QED
  BY <1>2, <1>3, <1>4
-----------------------------------------------------------------------------
(* Steps of the API.                                                       *)
LEMMA ApiKeepsItsOwn ==
    ASSUME Authority, Accounted, [Next]_vars
    PROVE  Authority' /\ Accounted'
<1>1. TypeOK' /\ Shape'
  BY TypeStep, ShapeStep DEF Authority
<1>2. Ids' /\ TokenBacked' /\ TokensPresented' /\ Guarded'
  BY IdsStep, BackedStep, PresentedStep, GuardedStep DEF Authority
<1>3. Accounted'
  BY TargetsStep, RowsWaitStep, OneTenantStep DEF Accounted
<1> QED
  BY <1>1, <1>2, <1>3 DEF Authority

(* Without a privileged member nobody gets past the guard of a creation,   *)
(* and registering makes a MEMBER.                                         *)
LEMMA ApiUnprivileged ==
    ASSUME Authority, [Next]_vars, NEW t \in Tenants, Unprivileged(t)
    PROVE  Unprivileged(t)'
<1> USE DEF Authority
<1>0. memberships \in [Tenants -> [UserIds -> Role \cup {None}]]
  BY DEF TypeOK, DataTypeOK
<1>1. CASE UNCHANGED memberships
  BY <1>1 DEF Unprivileged
<1>2. ASSUME NEW w \in Workers, AssignRole(w) PROVE Unprivileged(t)'
  <2>1. /\ memberships' = [memberships EXCEPT ![Tenant(w)][uid[w]] = RoleGranted(w)]
        /\ pc[w] = "assign_role" /\ req[w].kind \in Creating
        /\ Tenant(w) \in Tenants /\ uid[w] \in UserIds
    BY <1>2 DEF AssignRole, UpsertMembership, Shape, WorkerShape
  <2>2. ASSUME Tenant(w) = t PROVE ~Privileged(RoleGranted(w))
    <3>1. CASE req[w].kind = "create"
      <4>1. /\ req[w].token \in tokens /\ req[w].token.tenant = t
            /\ Privileged(req[w].token.role)
        BY <2>1, <2>2, <3>1 DEF Guarded, PastGuard, Served
      <4>2. /\ memberships[t][req[w].token.sub] = req[w].token.role
            /\ req[w].token.sub \in UserIds
        BY <4>1 DEF TokenBacked, TypeOK, Token
      <4> QED
        BY <4>1, <4>2 DEF Unprivileged
    <3>2. CASE req[w].kind = "register"
      BY <3>2, RoleLevels DEF RoleGranted, Privileged, RoleSatisfies
    <3> QED
      BY <2>1, <3>1, <3>2 DEF Creating
  <2>3. \A u \in UserIds : memberships'[t][u] =
            IF Tenant(w) = t /\ u = uid[w] THEN RoleGranted(w) ELSE memberships[t][u]
    BY <1>0, <2>1
  <2> QED
    BY <2>2, <2>3 DEF Unprivileged
<1> QED
  BY <1>1, <1>2, StoreSteps DEF StoreUntouched, InsertUser, DeleteCommit, SetUserActive

(* Nothing the API does touches the owner a script has made.               *)
LEMMA ApiLeavesOwner ==
    ASSUME Whole, [Next]_vars, NEW s \in Scripts, Awaits(s),
           script[s].slug \in Tenants, script[s].owner \in UserIds
    PROVE  /\ users'[script[s].slug][script[s].owner] # None
           /\ \A t \in Tenants : memberships'[t][script[s].owner] = None
<1> USE DEF Whole, Authority
<1>0. /\ users \in [Tenants -> [UserIds -> UserRow \cup {None}]]
      /\ memberships \in [Tenants -> [UserIds -> Role \cup {None}]]
  BY DEF TypeOK, DataTypeOK
<1>1. PICK t \in Tenants, o \in UserIds : t = script[s].slug /\ o = script[s].owner
  OBVIOUS
<1>2. /\ users[t][o] # None /\ \A v \in Tenants : memberships[v][o] = None
      /\ \A w \in Workers : IsCreating(w) => uid[w] # o
  BY <1>1 DEF Commanded, OwnersWait
<1>3. CASE StoreUntouched
  BY <1>1, <1>2, <1>3 DEF StoreUntouched
<1>4. ASSUME NEW w \in Workers, InsertUser(w) \/ AssignRole(w)
      PROVE  users'[t][o] = users[t][o] /\ \A v \in Tenants : memberships'[v][o] = memberships[v][o]
  <2>1. uid[w] # o
    BY <1>2, <1>4 DEF InsertUser, AssignRole, IsCreating
  <2> QED
    BY <1>0, <1>4, <2>1 DEF InsertUser, AddUser, AssignRole, UpsertMembership
<1>5. ASSUME NEW w \in Workers, DeleteCommit(w)
      PROVE  users'[t][o] = users[t][o] /\ memberships' = memberships
  <2>1. ~(Tenant(w) = t /\ req[w].target = o)
    BY <1>2, <1>5, DeletesEnrolled
  <2> QED
    BY <1>0, <1>5, <2>1 DEF DeleteCommit, RemoveUser
<1>6. ASSUME NEW v \in Tenants, NEW x \in UserIds, SetUserActive(v, x)
      PROVE  users'[t][o] # None /\ memberships' = memberships
  <2>1. users[v][x] \in UserRow
    BY <1>0, <1>6 DEF SetUserActive, UserExists
  <2>2. [users[v][x] EXCEPT !.is_active = ~@] \in UserRow
    BY <2>1 DEF UserRow
  <2>3. PICK row \in UserRow : users' = [users EXCEPT ![v][x] = row]
    BY <1>6, <2>2 DEF SetUserActive
  <2>4. users'[t][o] # None
    BY <1>0, <1>2, <2>3, NoneAssumption
  <2> QED
    BY <1>6, <2>4 DEF SetUserActive
<1> QED
  BY <1>1, <1>2, <1>3, <1>4, <1>5, <1>6, StoreSteps

(* Identifiers drawn stay drawn, and a creator comes by its own by drawing *)
(* one.                                                                    *)
LEMMA CreatorsStay ==
    ASSUME Authority, [Next]_vars
    PROVE  /\ drawn \subseteq drawn'
           /\ \A w \in Workers : IsCreating(w)' =>
                (IsCreating(w) /\ uid'[w] = uid[w]) \/ uid'[w] \notin drawn
<1> USE DEF IsCreating
<1>0. /\ pc \in [Workers -> PC] /\ uid \in [Workers -> UserIds \cup {None}]
  BY DEF Authority, TypeOK
<1>1. CASE UNCHANGED vars
  BY <1>1 DEF vars, dataVars, workerVars
<1>2. ASSUME NEW v \in Workers, NEW w \in Workers, IsCreating(w)',
             \/ Receive(v) \/ JustReplies(v) \/ JustMoves(v) \/ InsertUser(v) \/ AssignRole(v)
             \/ ListMembers(v) \/ FetchUser(v) \/ RenderList(v) \/ DeleteCommit(v)
      PROVE  drawn' = drawn /\ IsCreating(w) /\ uid'[w] = uid[w]
  BY <1>0, <1>2
     DEF Receive, JustReplies, JustMoves, InsertUser, AssignRole, ListMembers, FetchUser,
         RenderList, DeleteCommit, Goto, Reply, dataVars
<1>3. ASSUME NEW v \in Workers, NEW w \in Workers, IsCreating(w)',
             FindUser(v) \/ GetMembership(v) \/ Finish(v)
      PROVE  IsCreating(w) /\ uid'[w] = uid[w]
  BY <1>0, <1>3 DEF FindUser, GetMembership, Finish, Goto, Reply
<1>4. ASSUME NEW v \in Workers, NEW w \in Workers, IsCreating(w)', CheckEmail(v)
      PROVE  (IsCreating(w) /\ uid'[w] = uid[w]) \/ uid'[w] \notin drawn
  BY <1>0, <1>4 DEF CheckEmail, GenerateId, Goto
<1>5. CASE Environment
  BY <1>5 DEF Environment, Crash, Tick, SetTenantActive, SetUserActive, dataVars, workerVars
<1>6. ASSUME NEW v \in Workers,
             \/ Receive(v) \/ JustReplies(v) \/ JustMoves(v) \/ InsertUser(v) \/ AssignRole(v)
             \/ ListMembers(v) \/ FetchUser(v) \/ RenderList(v) \/ DeleteCommit(v)
             \/ FindUser(v) \/ GetMembership(v) \/ Finish(v) \/ CheckEmail(v)
      PROVE  drawn \subseteq drawn'
  BY <1>6
     DEF Receive, JustReplies, JustMoves, InsertUser, AssignRole, ListMembers, FetchUser,
         RenderList, DeleteCommit, FindUser, GetMembership, Finish, CheckEmail, GenerateId,
         dataVars
<1> QED
  BY <1>1, <1>2, <1>3, <1>4, <1>5, <1>6, Replies, Moves
     DEF Next, Serve, Guard, Enrol, Login, List, Delete

LEMMA ApiKeepsCommanded ==
    ASSUME Whole, [Next]_vars, UNCHANGED scriptVars
    PROVE  Commanded'
<1> USE DEF Whole, Authority
<1>0. script' = script /\ registrySchema' = registrySchema /\ stamped' = stamped
  BY DEF scriptVars
<1>1. PP!TypeOK' /\ PP!Placed'
  <2>1. PP!DataTypeOK'
    BY ApiKeepsItsOwn
       DEF TypeOK, DataTypeOK, PP!DataTypeOK, TableNames, PP!TableNames, UserRow, PP!UserRow,
           Role, PP!Role
  <2> QED
    BY <1>0, <2>1 DEF Commanded, PP!TypeOK, PP!Placed
<1>2. ASSUME NEW s \in Scripts
      PROVE  /\ PP!Seeds(s)' <=> PP!Seeds(s)
             /\ Awaits(s)' <=> Awaits(s)
             /\ PP!Seeds(s) => script[s].slug \in Tenants
             /\ Awaits(s) => script[s].owner \in UserIds /\ PP!Seeds(s)
  BY <1>0, <1>2, SeederTypes DEF Commanded, PP!Seeds, PP!Creates, Awaits
<1>3. Seeders'
  <2>1. \A t \in Tenants : registry'[t] # "absent" <=> registry[t] # "absent"
    BY SchemaStays
  <2>2. \A t \in Tenants : Unprivileged(t) => Unprivileged(t)'
    BY ApiUnprivileged
  <2> QED
    BY <1>0, <1>2, <2>1, <2>2 DEF Commanded, Seeders
<1>4. OwnersWait'
  <2>1. ASSUME NEW s \in Scripts, Awaits(s)
        PROVE  /\ script[s].owner \in drawn'
               /\ users'[script[s].slug][script[s].owner] # None
               /\ \A t \in Tenants : memberships'[t][script[s].owner] = None
    BY <1>2, <2>1, ApiLeavesOwner, CreatorsStay DEF Commanded, OwnersWait
  <2>2. ASSUME NEW s \in Scripts, Awaits(s), NEW w \in Workers, IsCreating(w)'
        PROVE  uid'[w] # script[s].owner
    BY <1>2, <2>2, CreatorsStay DEF Commanded, OwnersWait
  <2> QED
    BY <1>0, <1>2, <2>1, <2>2 DEF Commanded, OwnersWait
<1> QED
  BY <1>1, <1>3, <1>4 DEF Commanded
-----------------------------------------------------------------------------
(* Steps of the commands.  What the API has in flight stays as it is.      *)
LEMMA ApiUndisturbed ==
    ASSUME Authority, PP!TypeOK', UNCHANGED apiVars
    PROVE  TypeOK' /\ Shape' /\ TokensPresented' /\ Guarded'
<1>1. /\ now' = now /\ tokens' = tokens /\ pc' = pc /\ req' = req /\ uid' = uid
      /\ members' = members /\ unfetched' = unfetched /\ listed' = listed /\ status' = status
  BY DEF apiVars, workerVars
<1>2. DataTypeOK'
  BY DEF PP!TypeOK, DataTypeOK, PP!DataTypeOK, TableNames, PP!TableNames, UserRow, PP!UserRow,
         Role, PP!Role
<1>3. TypeOK'
  BY <1>1, <1>2 DEF Authority, TypeOK
<1>4. Shape' /\ TokensPresented' /\ Guarded'
  BY <1>1
     DEF Authority, Shape, WorkerShape, RequestShape, Tenant, HasCredentials, RoleGranted,
         TokensPresented, Guarded, PastGuard, Served
<1> QED
  BY <1>3, <1>4

(* What the two steps that seed an owner do to the store.                  *)
LEMMA CreateOwnerEffect ==
    ASSUME Whole, NEW s \in Scripts, PP!CreateOwner(s)
    PROVE  \E t \in Tenants, o \in UserIds, row \in UserRow :
              /\ t = script[s].slug /\ PP!Seeds(s) /\ o \notin drawn
              /\ ~EmailTaken(t, row.email)
              /\ users' = [users EXCEPT ![t][o] = row] /\ drawn' = drawn \cup {o}
              /\ memberships' = memberships /\ registry' = registry
              /\ script'[s].slug = t /\ script'[s].owner = o
<1>1. PP!TypeOK /\ PP!Placed
  BY DEF Whole, Commanded
<1>2. /\ PP!Seeds(s) /\ script[s].slug \in Tenants
      /\ script[s].email \in Emails /\ script[s].password \in Passwords
  BY <1>1, PP!CreatorHas, Assumed DEF PP!Slug
<1>3. PICK o \in UserIds :
        /\ PP!GenerateId(o)
        /\ PP!AddUser(script[s].slug, o, PP!NewUser(script[s].email, script[s].password))
        /\ UNCHANGED <<registry, memberships>>
        /\ script'[s].owner = o /\ script'[s].slug = script[s].slug
  BY <1>1, PP!CreateOwnerRecord, Assumed DEF PP!Slug
<1>4. PP!NewUser(script[s].email, script[s].password) \in UserRow
  BY <1>2, DigestAssumption DEF PP!NewUser, UserRow
<1>5. PICK t \in Tenants, row \in UserRow :
        /\ t = script[s].slug /\ row = PP!NewUser(script[s].email, script[s].password)
  BY <1>2, <1>4
<1>6. row.email = script[s].email
  BY <1>5 DEF PP!NewUser
<1>7. ~EmailTaken(t, row.email)
  BY <1>5, <1>6
     DEF PP!CreateOwner, PP!UniqueViolated, PP!EmailTaken, PP!UsersWithEmail, PP!UserExists,
         PP!Slug, EmailTaken, UsersWithEmail, UserExists
<1> QED
  BY <1>2, <1>3, <1>5, <1>7 DEF PP!GenerateId, PP!AddUser

LEMMA AssignOwnerEffect ==
    ASSUME Whole, NEW s \in Scripts, PP!AssignOwner(s)
    PROVE  \E t \in Tenants, o \in UserIds :
              /\ t = script[s].slug /\ o = script[s].owner
              /\ PP!Seeds(s) /\ Awaits(s)
              /\ memberships' = [memberships EXCEPT ![t][o] = "OWNER"]
              /\ users' = users /\ drawn' = drawn /\ registry' = registry
              /\ script'[s].pc = "exit 0"
<1>1. PP!TypeOK /\ PP!Placed
  BY DEF Whole, Commanded
<1>2. script'[s].pc = "exit 0"
  BY <1>1, PP!AssignOwnerEffect, Assumed
<1>3. /\ Awaits(s) /\ users' = users /\ drawn' = drawn /\ registry' = registry
      /\ memberships' = [memberships EXCEPT ![script[s].slug][script[s].owner] = "OWNER"]
  BY DEF PP!AssignOwner, PP!At, PP!UpsertMembership, PP!Slug, Awaits
<1> QED
  BY <1>1, <1>2, <1>3, SeederTypes

(* A script step as the others see it: it begins to seed only by           *)
(* registering its tenant, and to wait only by creating the owner.         *)
LEMMA ScriptFrame ==
    ASSUME Whole, NEW s \in Scripts, PP!ScriptStep(s)
    PROVE  /\ \A r \in Scripts : r # s => script'[r] = script[r]
           /\ PP!Seeds(s)' => /\ script'[s].slug = script[s].slug
                              /\ PP!Seeds(s) \/ PP!InsertTenant(s)
           /\ Awaits(s)' => PP!CreateOwner(s)
           /\ PP!InsertTenant(s) =>
                  /\ script[s].slug \in Tenants /\ registry[script[s].slug] = "absent"
                  /\ registry'[script[s].slug] # "absent"
           /\ \A t \in Tenants : registry[t] # "absent" => registry'[t] # "absent"
           /\ ~PP!CreateOwner(s) /\ ~PP!AssignOwner(s) =>
                  UNCHANGED <<users, memberships, drawn>>
<1>1. PP!TypeOK /\ PP!Placed
  BY DEF Whole, Commanded
<1>2. \A r \in Scripts : r # s => script'[r] = script[r]
  BY <1>1, PP!OneScriptMoves, Assumed
<1>3. PP!Seeds(s)' => script'[s].slug = script[s].slug /\ (PP!Seeds(s) \/ PP!InsertTenant(s))
  BY <1>1, PP!SeedsBegin, Assumed
<1>4. Awaits(s)' => PP!CreateOwner(s)
  BY <1>1, PP!AssignmentBegins, Assumed DEF Awaits
<1>5. PP!InsertTenant(s) =>
        /\ script[s].slug \in Tenants /\ registry[script[s].slug] = "absent"
        /\ registry'[script[s].slug] # "absent"
  <2> SUFFICES ASSUME PP!InsertTenant(s)
               PROVE  /\ script[s].slug \in Tenants /\ registry[script[s].slug] = "absent"
                      /\ registry'[script[s].slug] # "absent"
    OBVIOUS
  <2>1. script[s].slug \in Tenants /\ registry[script[s].slug] = "absent"
    BY <1>1, PP!InsertTenantEffect, Assumed DEF PP!Slug, PP!Registered
  <2>2. registry' = [registry EXCEPT ![script[s].slug] = "active"]
    BY DEF PP!InsertTenant, PP!Slug
  <2> QED
    BY <2>1, <2>2 DEF Whole, Authority, TypeOK, DataTypeOK
<1>6. \A t \in Tenants : registry[t] # "absent" => registry'[t] # "absent"
  <2>1. PP!Next
    BY DEF PP!Next, PP!ScriptStep
  <2> QED
    BY <1>1, <2>1, PP!RegisteredStays, Assumed DEF PP!Registered
<1>7. ~PP!CreateOwner(s) /\ ~PP!AssignOwner(s) => UNCHANGED <<users, memberships, drawn>>
  BY <1>1, PP!MembershipsStep, PP!OtherUsersStep, Assumed
<1> QED
  BY <1>2, <1>3, <1>4, <1>5, <1>6, <1>7

LEMMA SeedersStep ==
    ASSUME Whole, NEW s \in Scripts, PP!ScriptStep(s),
           \A t \in Tenants : Unprivileged(t) =>
               Unprivileged(t)' \/ (PP!AssignOwner(s) /\ t = script[s].slug)
    PROVE  Seeders'
<1>0. /\ \A r \in Scripts : r # s => script'[r] = script[r] /\ (PP!Seeds(r)' <=> PP!Seeds(r))
      /\ \A r \in Scripts : PP!Seeds(r) => script[r].slug \in Tenants
  BY ScriptFrame, SeederTypes DEF Whole, Commanded, PP!Seeds, PP!Creates
<1>1. PP!AssignOwner(s) => PP!Seeds(s) /\ ~PP!Seeds(s)'
  BY AssignOwnerEffect
     DEF PP!Seeds, PP!SeedSteps, PP!Slugged
<1>2. /\ PP!Seeds(s)' =>
            /\ script'[s].slug = script[s].slug
            /\ PP!Seeds(s) \/ (script[s].slug \in Tenants /\ registry[script[s].slug] = "absent"
                                 /\ registry'[script[s].slug] # "absent")
      /\ \A t \in Tenants : registry[t] # "absent" => registry'[t] # "absent"
  BY ScriptFrame
<1>3. Seeders
  BY DEF Whole, Commanded
<1>4. ASSUME NEW t \in Tenants, registry'[t] = "absent" PROVE Unprivileged(t)'
  BY <1>1, <1>2, <1>3, <1>4 DEF Seeders
<1>5. ASSUME NEW r \in Scripts, PP!Seeds(r)'
      PROVE  registry'[script'[r].slug] # "absent" /\ Unprivileged(script[r].slug)'
             /\ script'[r].slug = script[r].slug
  <2>1. CASE r = s
    BY <1>0, <1>1, <1>2, <1>3, <1>5, <2>1 DEF Seeders
  <2>2. CASE r # s
    BY <1>0, <1>1, <1>2, <1>3, <1>5, <2>2 DEF Seeders
  <2> QED
    BY <2>1, <2>2
<1>6. ASSUME NEW r \in Scripts, NEW q \in Scripts, PP!Seeds(r)', PP!Seeds(q)',
             script'[r].slug = script'[q].slug
      PROVE  r = q
  BY <1>0, <1>2, <1>3, <1>5, <1>6 DEF Seeders
<1> QED
  BY <1>4, <1>5, <1>6 DEF Seeders, Unprivileged

(* Creating an owner, as InsertUser by a creator of its own.               *)
LEMMA CreateOwnerStep ==
    ASSUME Whole, NEW s \in Scripts, PP!ScriptStep(s), PP!CreateOwner(s), UNCHANGED apiVars
    PROVE  Ids' /\ TokenBacked' /\ Accounted' /\ Seeders' /\ OwnersWait' /\ A!Next
<1> USE DEF Whole, Authority
<1>0. /\ users \in [Tenants -> [UserIds -> UserRow \cup {None}]]
      /\ pc' = pc /\ req' = req /\ uid' = uid /\ tokens' = tokens
  BY DEF TypeOK, DataTypeOK, apiVars, workerVars
<1>1. PICK t \in Tenants, o \in UserIds, row \in UserRow :
        /\ t = script[s].slug /\ PP!Seeds(s) /\ o \notin drawn
        /\ ~EmailTaken(t, row.email)
        /\ users' = [users EXCEPT ![t][o] = row] /\ drawn' = drawn \cup {o}
        /\ memberships' = memberships /\ registry' = registry
        /\ script'[s].slug = t /\ script'[s].owner = o
  BY CreateOwnerEffect
<1>2. \A v \in Tenants : ~Holds(v, o)
  BY <1>1 DEF Ids, Holds
<1>3. /\ users'[t][o] = row /\ row # None
      /\ \A v \in Tenants, u \in UserIds : v # t \/ u # o => users'[v][u] = users[v][u]
  BY <1>0, <1>1, NoneAssumption
<1>4. Ids'
  <2>1. \A w \in Workers : IsCreating(w) => uid[w] \in UserIds /\ uid[w] # o
    BY <1>1 DEF Ids, IsCreating, Shape, WorkerShape
  <2> QED
    BY <1>0, <1>1, <1>3, <2>1 DEF Ids, IsCreating
<1>5. TokenBacked'
  BY <1>0, <1>1 DEF TokenBacked
<1>6. OneTenant'
  BY <1>1, <1>2, <1>3 DEF Accounted, OneTenant, Holds
<1>7. RowsWait'
  <2>1. \A w \in Workers : Waits(w) => Tenant(w) \in Tenants /\ uid[w] \in UserIds
    BY DEF Waits, Shape, WorkerShape
  <2> QED
    BY <1>0, <1>3, <2>1 DEF Accounted, RowsWait, Waits, UserExists, Tenant
<1>8. TargetsEnrolled'
  BY <1>0, <1>1 DEF Accounted, TargetsEnrolled, Served
<1>9. Seeders'
  BY <1>1, SeedersStep DEF Unprivileged
<1>10. OwnersWait'
  <2>1. \A r \in Scripts : r # s => script'[r] = script[r]
    BY ScriptFrame
  <2>2. ASSUME NEW r \in Scripts, r # s, Awaits(r)'
        PROVE  /\ Awaits(r) /\ script[r].slug \in Tenants /\ script[r].owner \in UserIds
               /\ script[r].owner \in drawn
    BY <2>1, <2>2, SeederTypes DEF Commanded, OwnersWait, Awaits
  <2>3. ASSUME NEW r \in Scripts, Awaits(r)'
        PROVE  /\ script'[r].owner \in drawn'
               /\ users'[script'[r].slug][script'[r].owner] # None
               /\ \A v \in Tenants : memberships'[v][script'[r].owner] = None
               /\ \A w \in Workers : IsCreating(w)' => uid'[w] # script'[r].owner
    <3>1. CASE r = s
      <4>1. \A w \in Workers : IsCreating(w) => uid[w] # o
        BY <1>1 DEF Ids
      <4> QED
        BY <1>0, <1>1, <1>2, <1>3, <3>1, <4>1 DEF Holds, IsCreating
    <3>2. CASE r # s
      BY <1>0, <1>1, <1>3, <2>1, <2>2, <2>3, <3>2 DEF Commanded, OwnersWait, IsCreating
    <3> QED
      BY <3>1, <3>2
  <2>4. ASSUME NEW q \in Scripts, NEW r \in Scripts, q # r, Awaits(q)', Awaits(r)'
        PROVE  script'[q].owner # script'[r].owner
    BY <1>1, <2>1, <2>2, <2>4 DEF Commanded, OwnersWait
  <2> QED
    BY <2>3, <2>4 DEF OwnersWait, Awaits
<1>11. A!Next
  <2>1. A!Open(t, o, row.email)
    BY <1>0, <1>1, <1>2, RowOpens
  <2> QED
    BY <2>1 DEF A!Next, UserRow
<1> QED
  BY <1>4, <1>5, <1>6, <1>7, <1>8, <1>9, <1>10, <1>11 DEF Accounted

(* Making the owner one, as AssignRole by a creator of its own.            *)
LEMMA AssignOwnerStep ==
    ASSUME Whole, NEW s \in Scripts, PP!ScriptStep(s), PP!AssignOwner(s), UNCHANGED apiVars
    PROVE  Ids' /\ TokenBacked' /\ Accounted' /\ Seeders' /\ OwnersWait' /\ A!Next
<1> USE DEF Whole, Authority
<1>0. /\ memberships \in [Tenants -> [UserIds -> Role \cup {None}]]
      /\ pc' = pc /\ req' = req /\ uid' = uid /\ tokens' = tokens
  BY DEF TypeOK, DataTypeOK, apiVars, workerVars
<1>1. PICK t \in Tenants, o \in UserIds :
        /\ t = script[s].slug /\ o = script[s].owner
        /\ PP!Seeds(s) /\ Awaits(s)
        /\ memberships' = [memberships EXCEPT ![t][o] = "OWNER"]
        /\ users' = users /\ drawn' = drawn /\ registry' = registry
        /\ script'[s].pc = "exit 0"
  BY AssignOwnerEffect
<1>2. /\ o \in drawn /\ users[t][o] # None /\ \A v \in Tenants : memberships[v][o] = None
      /\ \A w \in Workers : IsCreating(w) => uid[w] # o
  BY <1>1 DEF Commanded, OwnersWait
<1>3. /\ memberships'[t][o] = "OWNER"
      /\ \A v \in Tenants, u \in UserIds : v # t \/ u # o => memberships'[v][u] = memberships[v][u]
  BY <1>0, <1>1
<1>4. Ids'
  <2>1. \A w \in Workers : IsCreating(w) => uid[w] \in UserIds /\ uid[w] # o
    BY <1>2 DEF IsCreating, Shape, WorkerShape
  <2>2. ASSUME NEW v \in Tenants, NEW u \in UserIds
        PROVE  users'[v][u] # None \/ memberships'[v][u] # None => u \in drawn'
    <3>1. users[v][u] # None \/ memberships[v][u] # None => u \in drawn
      BY DEF Ids
    <3>2. CASE v = t /\ u = o
      BY <1>1, <1>2, <3>2
    <3>3. CASE ~(v = t /\ u = o)
      BY <1>1, <1>3, <3>1, <3>3
    <3> QED
      BY <3>2, <3>3
  <2>3. \A w \in Workers : IsCreating(w) => \A v \in Tenants : memberships'[v][uid[w]] = None
    BY <1>3, <2>1 DEF Ids
  <2> QED
    BY <1>0, <1>1, <2>2, <2>3 DEF Ids, IsCreating
<1>5. TokenBacked'
  <2>1. \A k \in tokens : k.sub \in UserIds /\ k.tenant \in Tenants /\ k.role # None
    BY NoneAssumption DEF TypeOK, Token
  <2> QED
    BY <1>0, <1>2, <1>3, <2>1 DEF TokenBacked
<1>6. OneTenant'
  <2>1. \A v \in Tenants, u \in UserIds : Holds(v, u)' => Holds(v, u)
    BY <1>1, <1>2, <1>3 DEF Holds
  <2> QED
    BY <2>1 DEF Accounted, OneTenant
<1>7. RowsWait'
  BY <1>0, <1>1 DEF Accounted, RowsWait, Waits, UserExists, Tenant
<1>8. TargetsEnrolled'
  <2>1. \A v \in Tenants, u \in UserIds : memberships[v][u] # None => memberships'[v][u] # None
    BY <1>2, <1>3
  <2>2. \A w \in Workers : Served(w, {"delete"}) => req[w].target \in UserIds
    BY DEF Served, Shape, WorkerShape, RequestShape
  <2> QED
    BY <1>0, <2>1, <2>2 DEF Accounted, TargetsEnrolled, Served
<1>9. Seeders'
  <2>1. \A v \in Tenants : Unprivileged(v) => Unprivileged(v)' \/ v = t
    BY <1>3 DEF Unprivileged
  <2> QED
    BY <1>1, <2>1, SeedersStep
<1>10. OwnersWait'
  <2>1. \A r \in Scripts : r # s => script'[r] = script[r]
    BY ScriptFrame
  <2>2. ASSUME NEW r \in Scripts, Awaits(r)'
        PROVE  /\ r # s /\ Awaits(r) /\ script'[r] = script[r]
               /\ script[r].slug \in Tenants /\ script[r].owner \in UserIds
    BY <1>1, <2>1, <2>2, SeederTypes DEF Commanded, Awaits
  <2>3. ASSUME NEW r \in Scripts, Awaits(r)'
        PROVE  /\ script'[r].owner \in drawn'
               /\ users'[script'[r].slug][script'[r].owner] # None
               /\ \A v \in Tenants : memberships'[v][script'[r].owner] = None
               /\ \A w \in Workers : IsCreating(w)' => uid'[w] # script'[r].owner
    <3>1. script[r].owner # o
      BY <1>1, <2>2, <2>3 DEF Commanded, OwnersWait
    <3>2. \A v \in Tenants : memberships'[v][script[r].owner] = memberships[v][script[r].owner]
      BY <1>3, <2>2, <2>3, <3>1
    <3>3. /\ script[r].owner \in drawn /\ users[script[r].slug][script[r].owner] # None
          /\ \A v \in Tenants : memberships[v][script[r].owner] = None
          /\ \A w \in Workers : IsCreating(w) => uid[w] # script[r].owner
      BY <2>2, <2>3 DEF Commanded, OwnersWait
    <3> QED
      BY <1>0, <1>1, <2>2, <2>3, <3>2, <3>3 DEF IsCreating
  <2>4. ASSUME NEW q \in Scripts, NEW r \in Scripts, q # r, Awaits(q)', Awaits(r)'
        PROVE  script'[q].owner # script'[r].owner
    BY <2>2, <2>4 DEF Commanded, OwnersWait
  <2> QED
    BY <2>3, <2>4 DEF OwnersWait, Awaits
<1>11. A!Next
  <2>1. /\ AbstractAccounts[t][o].state = "pending"
        /\ AbstractAccounts' = [AbstractAccounts EXCEPT ![t][o] = A!Enrolled(@.email, "OWNER")]
    <3>1. PICK r \in Role : r = "OWNER"
      BY DEF Role
    <3>2. users' = users /\ memberships' = [memberships EXCEPT ![t][o] = r]
      BY <1>1, <3>1
    <3>3. /\ AbstractAccounts[t][o].state = "pending"
          /\ AbstractAccounts' = [AbstractAccounts EXCEPT ![t][o] = A!Enrolled(@.email, r)]
      <4>1. memberships \in [Tenants -> [UserIds -> Role \cup {None}]]
        BY <1>0
      <4>2. users[t][o] # None /\ memberships[t][o] = None
        BY <1>2
      <4> QED
        BY ONLY <3>2, <4>1, <4>2, MembershipEnrols
    <3> QED
      BY <3>1, <3>3
  <2>2. Unprivileged(t)
    BY <1>1 DEF Commanded, Seeders
  <2>3. \A v \in UserIds : ~A!Privileged(AbstractAccounts[t][v].role)
    BY <2>2, SameRoles DEF Unprivileged, AbstractAccounts, AccountOf
  <2>4. AbstractSessions' = AbstractSessions
    BY <1>0 DEF AbstractSessions
  <2>5. A!Appoint(t, o)
    BY <2>1, <2>3, <2>4 DEF A!Appoint, AbstractAccounts, AbstractSessions
  <2> QED
    BY <2>5 DEF A!Next
<1> QED
  BY <1>4, <1>5, <1>6, <1>7, <1>8, <1>9, <1>10, <1>11 DEF Accounted

(* The other steps write no users and no memberships.                      *)
LEMMA OtherCommandStep ==
    ASSUME Whole, NEW s \in Scripts, PP!ScriptStep(s), ~PP!CreateOwner(s), ~PP!AssignOwner(s),
           UNCHANGED apiVars
    PROVE  /\ Ids' /\ TokenBacked' /\ Accounted' /\ Seeders' /\ OwnersWait'
           /\ UNCHANGED <<AbstractAccounts, AbstractSessions>>
<1> USE DEF Whole, Authority
<1>1. /\ users' = users /\ memberships' = memberships /\ drawn' = drawn
      /\ pc' = pc /\ req' = req /\ uid' = uid /\ tokens' = tokens
  BY ScriptFrame DEF apiVars, workerVars
<1>2. Ids' /\ TokenBacked'
  BY <1>1 DEF Ids, TokenBacked, IsCreating
<1>3. Accounted'
  BY <1>1
     DEF Accounted, OneTenant, Holds, RowsWait, Waits, UserExists, Tenant, TargetsEnrolled, Served
<1>4. Seeders'
  BY <1>1, SeedersStep DEF Unprivileged
<1>5. OwnersWait'
  <2>1. \A r \in Scripts : Awaits(r)' => Awaits(r) /\ script'[r] = script[r]
    BY ScriptFrame DEF Awaits
  <2> QED
    BY <1>1, <2>1 DEF Commanded, OwnersWait, IsCreating
<1>6. UNCHANGED <<AbstractAccounts, AbstractSessions>>
  <2>1. \A t \in Tenants, u \in UserIds : AccountOf(t, u)' = AccountOf(t, u)
    BY <1>1 DEF AccountOf
  <2> QED
    BY <1>1, <2>1, SameAccounts DEF AbstractSessions
<1> QED
  BY <1>2, <1>3, <1>4, <1>5, <1>6
-----------------------------------------------------------------------------
(* A step of the system is one of the API or one of a command.             *)
LEMMA SystemSteps ==
    ASSUME [SystemNext]_systemVars
    PROVE  \/ [Next]_vars /\ UNCHANGED scriptVars
           \/ \E s \in Scripts : PP!ScriptStep(s) /\ UNCHANGED apiVars
BY CommandSteps DEF SystemNext, systemVars, apiVars, vars

LEMMA WholeStep ==
    ASSUME Whole, [SystemNext]_systemVars
    PROVE  Whole' /\ [A!Next]_(A!vars)
<1>1. CASE [Next]_vars /\ UNCHANGED scriptVars
  BY <1>1, ApiKeepsItsOwn, ApiKeepsCommanded, AbstractStep DEF Whole
<1>2. ASSUME NEW s \in Scripts, PP!ScriptStep(s), UNCHANGED apiVars
      PROVE  Whole' /\ [A!Next]_(A!vars)
  <2>1. PP!TypeOK' /\ PP!Placed'
    BY <1>2, CommandStepTyped DEF Whole, Commanded
  <2>2. TypeOK' /\ Shape' /\ TokensPresented' /\ Guarded'
    BY <1>2, <2>1, ApiUndisturbed DEF Whole
  <2>3. Ids' /\ TokenBacked' /\ Accounted' /\ Seeders' /\ OwnersWait'
    BY <1>2, CreateOwnerStep, AssignOwnerStep, OtherCommandStep
  <2>4. A!Next \/ UNCHANGED <<AbstractAccounts, AbstractSessions>>
    BY <1>2, CreateOwnerStep, AssignOwnerStep, OtherCommandStep
  <2>5. [A!Next]_(A!vars)
    BY <2>4 DEF A!vars, AbstractAccounts, AbstractSessions
  <2> QED
    BY <2>1, <2>2, <2>3, <2>5 DEF Whole, Authority, Commanded
<1> QED
  BY <1>1, <1>2, SystemSteps

LEMMA WholeInit == SystemInit => Whole
<1> SUFFICES ASSUME SystemInit PROVE Whole
  OBVIOUS
<1>1. Authority
  BY TypeInit, IdsInit
     DEF SystemInit, Init, Authority, TokenBacked, TokensPresented, Guarded, PastGuard, Served
<1>2. Accounted
  BY AccountedInit DEF SystemInit
<1>3. \A s \in Scripts : script[s] = P!NoJob
  BY DEF SystemInit, P!ScriptInit
<1>4. \A s \in Scripts : ~PP!Seeds(s) /\ ~Awaits(s)
  BY <1>3 DEF P!NoJob, P!Job, PP!Seeds, PP!SeedSteps, PP!Slugged, Awaits
<1>5. PP!Placed
  BY <1>3 DEF P!NoJob, P!Job, PP!Placed, PP!PlacedAt, PP!Slugged, PP!CreateSteps
<1>6. PP!TypeOK
  <2>1. PP!DataTypeOK
    BY <1>1
       DEF Authority, TypeOK, DataTypeOK, PP!DataTypeOK, TableNames, PP!TableNames, UserRow,
           PP!UserRow, Role, PP!Role
  <2>2. registrySchema \subseteq PP!RegistryTables \cup {"stamp"} /\ stamped \subseteq Tenants
    BY DEF SystemInit, P!ScriptInit, P!RegistryTables, PP!RegistryTables
  <2>3. script \in [Scripts -> PP!Script]
    <3>1. P!NoJob \in PP!Script
      BY DEF P!NoJob, P!Job, PP!Script, PP!ScriptPC
    <3> QED
      BY <3>1 DEF SystemInit, P!ScriptInit
  <2>4. \A s \in Scripts : PP!Held(s)
    BY <1>3, NoJobAssumption
       DEF P!NoJob, P!Job, P!Commands, PP!Held, PP!Slugged, PP!CreateSteps, PP!Creates
  <2> QED
    BY <2>1, <2>2, <2>3, <2>4, PP!TypeParts, Assumed
<1>7. \A t \in Tenants : registry[t] = "absent" => Unprivileged(t)
  <2>1. PICK done \in SUBSET Provisioned : InitStore(done)
    BY DEF SystemInit, Init
  <2>2. \A t \in Tenants : registry[t] = "absent" => t \notin done
    BY <2>1 DEF InitStore
  <2>3. \A t \in Tenants, u \in UserIds : t \notin done => memberships[t][u] = None
    BY <2>1 DEF InitStore, OwnerMemberships
  <2> QED
    BY <2>2, <2>3, NoneAssumption DEF Unprivileged, Privileged
<1> QED
  BY <1>1, <1>2, <1>4, <1>5, <1>6, <1>7 DEF Whole, Commanded, Seeders, OwnersWait

LEMMA WholeHolds == SystemSpec => []Whole
  BY WholeInit, WholeStep, PTL DEF SystemSpec

(* A token states the role its subject holds in its tenant, although the   *)
(* commands give roles beside the API.                                     *)
THEOREM SystemTokensBacked == SystemSpec => []TokenBacked
<1>1. Whole => TokenBacked
  BY DEF Whole, Authority
<1> QED
  BY <1>1, WholeHolds, PTL

(* Type correctness of the deployed system, however many requests and      *)
(* commands run at once.                                                   *)
THEOREM SystemTyped == SystemSpec => []SystemTypeOK
<1>1. Whole => SystemTypeOK
  BY CommandTypes DEF Whole, Authority, Commanded, SystemTypeOK
<1> QED
  BY <1>1, WholeHolds, PTL

(* API and commands together behave as the abstract accounts: a command    *)
(* opens the owner's account beside those the API opens, and appoints it   *)
(* only while nobody in the tenant has a privilege.                        *)
THEOREM SystemImplementsAccounts == SystemSpec => ImplementsAccounts
<1>1. Whole /\ [SystemNext]_systemVars => [A!Next]_(A!vars)
  BY WholeStep
<1>2. SystemInit => A!Init
  BY AbstractInit DEF SystemInit
<1> QED
  BY <1>1, <1>2, WholeHolds, PTL DEF SystemSpec, ImplementsAccounts, A!Spec
-----------------------------------------------------------------------------
(* What the abstract accounts promise, of API and commands together.       *)

(* Whoever has a privilege has it from an owner, in a tenant whose owner a *)
(* command is still about to seed as in any other.                         *)
THEOREM SystemPrivilegesFromOwners == SystemSpec => []PrivilegeFromOwner
BY SystemImplementsAccounts, Promised, PrivilegesTraced, PTL

(* No live users of a tenant share an address, the owner a command creates *)
(* among them.                                                             *)
THEOREM SystemEmailsUnique == SystemSpec => []UniqueEmail
BY SystemImplementsAccounts, Promised, AddressesTraced, PTL

(* Neither API nor commands change a role once given or bring a deleted    *)
(* user back.                                                              *)
THEOREM SystemRolesForGood == SystemSpec => RolesForGood
<1> DEFINE Go == \A t \in Tenants, u \in UserIds :
                    AA!Continues(AbstractAccounts[t][u], AbstractAccounts'[t][u])
           Keep == \A t \in Tenants, u \in UserIds : memberships[t][u] # None =>
                    /\ memberships'[t][u] = memberships[t][u]
                    /\ ~UserExists(t, u) => ~UserExists(t, u)'
<1>1. [Go]_(AA!vars) => [Keep]_systemVars
  <2>1. ASSUME UNCHANGED AA!vars PROVE Go
    BY <2>1 DEF AA!vars, AA!Continues, AA!Live
  <2>2. Go => Keep
    BY RowsContinue DEF UserExists
  <2> QED
    BY <2>1, <2>2
<1> QED
  BY <1>1, SystemImplementsAccounts, Promised, PTL DEF RolesForGood, AA!AccountsLast

(* The guards of the API admit members of the tenant only, whatever the    *)
(* commands do to it meanwhile.                                            *)
THEOREM SystemGuardsAdmitMembers == SystemSpec => []AuthorisedMember
<1>1. Whole => AuthorisedMember
  BY GuardedAreMembers DEF Whole, Authority
<1> QED
  BY <1>1, WholeHolds, PTL

(* A list is true of the tenant the commands change beside it: they touch  *)
(* no row the list has read.                                               *)
THEOREM SystemListsFaithful == SystemSpec => []ListFaithful
<1> DEFINE Keep == \A t \in Tenants, u \in UserIds : memberships[t][u] # None =>
                    /\ memberships'[t][u] = memberships[t][u]
                    /\ ~UserExists(t, u) => ~UserExists(t, u)'
<1>1. SystemInit => Listing
  BY DEF SystemInit, Init, Listing, Reading, Served
<1>2. ASSUME Whole, Listing, [SystemNext]_systemVars, [Keep]_systemVars PROVE Listing'
  <2>1. CASE [Next]_vars
    BY <1>2, <2>1, ListingStep DEF Whole, Authority
  <2>2. CASE UNCHANGED apiVars
    <3>1. UNCHANGED <<pc, req, status, members, unfetched, listed>>
      BY <2>2 DEF apiVars, workerVars
    <3>2. Keep
      BY <1>2 DEF systemVars, vars, dataVars, UserExists
    <3> SUFFICES ASSUME NEW w \in Workers, Reading(w) PROVE ListSound(w)'
      BY <1>2, <3>1 DEF Listing, Reading, Served
    <3>3. ListSound(w) /\ Tenant(w)' = Tenant(w)
      BY <1>2, <3>1 DEF Listing, Tenant
    <3>4. ASSUME NEW row \in members[w]
          PROVE  /\ memberships'[Tenant(w)][row[1]] = row[2]
                 /\ UserExists(Tenant(w), row[1])' => UserExists(Tenant(w), row[1])
      <4>1. row[1] \in UserIds /\ row[2] \in Role
        BY <1>2 DEF Whole, Authority, TypeOK
      <4>2. PICK t \in Tenants, u \in UserIds : t = Tenant(w) /\ u = row[1]
        BY <3>3, <4>1 DEF ListSound
      <4>3. memberships[t][u] = row[2] /\ row[2] # None
        BY <3>3, <4>1, <4>2, NoneAssumption DEF ListSound
      <4>4. memberships'[t][u] = row[2] /\ (~UserExists(t, u) => ~UserExists(t, u)')
        BY <3>2, <4>3
      <4>5. UserExists(t, u)' => UserExists(Tenant(w), row[1])
        BY <4>2, <4>4
      <4> QED
        BY <3>1, <4>2, <4>4, <4>5 DEF UserExists, Tenant
    <3> QED
      BY <3>1, <3>3, <3>4 DEF ListSound, Tenant, UserExists
  <2> QED
    BY <1>2, <2>1, <2>2, SystemSteps
<1>3. Listing => ListFaithful
  BY DEF Listing, ListFaithful, Reading, ListSound
<1> QED
  BY <1>1, <1>2, <1>3, WholeHolds, SystemRolesForGood, PTL DEF SystemSpec, RolesForGood
-----------------------------------------------------------------------------
(* Tenants nobody can manage.                                              *)
LEMMA SeedingSeen ==
    /\ \A t : P!Seeding(t) <=> \E s \in Scripts : PP!Seeds(s) /\ script[s].slug = t
    /\ \A t : P!Registered(t) <=> registry[t] # "absent"
BY DEF P!Seeding, P!Creates, P!Slug, P!TableOf, P!Registered, PP!Seeds, PP!SeedSteps, PP!Slugged,
       PP!Creates

LEMMA ApiLockedOut ==
    ASSUME Whole, [Next]_vars, UNCHANGED scriptVars, NEW t \in Tenants, LockedOut(t)
    PROVE  LockedOut(t)'
<1>1. Leaderless(t)'
  BY LeaderlessStep DEF Whole, LockedOut
<1>2. P!Registered(t)'
  BY SchemaStays DEF Whole, Authority, LockedOut, P!Registered
<1>3. ~P!Seeding(t)'
  BY DEF LockedOut, P!Seeding, P!Creates, P!Slug, scriptVars
<1> QED
  BY <1>1, <1>2, <1>3 DEF LockedOut

LEMMA CommandLockedOut ==
    ASSUME Whole, NEW s \in Scripts, PP!ScriptStep(s), UNCHANGED apiVars,
           NEW t \in Tenants, LockedOut(t)
    PROVE  LockedOut(t)'
<1> USE DEF Whole, Authority
<1>0. registry[t] # "absent" /\ \A r \in Scripts : ~(PP!Seeds(r) /\ script[r].slug = t)
  BY SeedingSeen DEF LockedOut
<1>1. P!Registered(t)'
  BY <1>0, ScriptFrame DEF P!Registered
<1>2. ASSUME NEW r \in Scripts, PP!Seeds(r)', script'[r].slug = t PROVE FALSE
  <2>1. CASE r = s
    BY <1>0, <1>2, <2>1, ScriptFrame
  <2>2. CASE r # s
    BY <1>0, <1>2, <2>2, ScriptFrame DEF PP!Seeds, PP!Creates
  <2> QED
    BY <2>1, <2>2
<1>3. ~P!Seeding(t)'
  BY <1>2 DEF P!Seeding, P!Creates, P!Slug, P!TableOf, PP!Seeds, PP!SeedSteps, PP!Slugged, PP!Creates
<1>4. ~CreationUnderWay(t)'
  BY DEF LockedOut, Leaderless, CreationUnderWay, Served, Tenant, apiVars, workerVars
<1>5. ASSUME NEW u \in UserIds PROVE UserExists(t, u)' => ~Privileged(memberships'[t][u])
  <2>0. UserExists(t, u) => ~Privileged(memberships[t][u])
    BY DEF LockedOut, Leaderless
  <2>1. CASE PP!CreateOwner(s)
    <3>1. PICK v \in Tenants, o \in UserIds, row \in UserRow :
            /\ v = script[s].slug /\ PP!Seeds(s)
            /\ users' = [users EXCEPT ![v][o] = row] /\ memberships' = memberships
      BY <2>1, CreateOwnerEffect
    <3>2. v # t
      BY <1>0, <3>1
    <3>3. users'[t][u] = users[t][u]
      BY <3>1, <3>2 DEF TypeOK, DataTypeOK
    <3> QED
      BY <2>0, <3>1, <3>3 DEF UserExists
  <2>2. CASE PP!AssignOwner(s)
    <3>1. PICK v \in Tenants, o \in UserIds :
            /\ v = script[s].slug /\ PP!Seeds(s)
            /\ memberships' = [memberships EXCEPT ![v][o] = "OWNER"] /\ users' = users
      BY <2>2, AssignOwnerEffect
    <3>2. v # t
      BY <1>0, <3>1
    <3>3. memberships'[t][u] = memberships[t][u]
      BY <3>1, <3>2 DEF TypeOK, DataTypeOK
    <3> QED
      BY <2>0, <3>1, <3>3 DEF UserExists
  <2>3. CASE ~PP!CreateOwner(s) /\ ~PP!AssignOwner(s)
    BY <2>0, <2>3, ScriptFrame DEF UserExists
  <2> QED
    BY <2>1, <2>2, <2>3
<1> QED
  BY <1>1, <1>3, <1>4, <1>5 DEF LockedOut, Leaderless

(* A tenant without anybody to manage it, and without a creator about to   *)
(* seed an owner, stays so: nothing anybody sends and no command repairs   *)
(* it.                                                                     *)
THEOREM LockedOutStays == SystemSpec => LockedOutForGood
<1>1. Whole /\ [SystemNext]_systemVars => \A t \in Tenants : LockedOut(t) => LockedOut(t)'
  BY ApiLockedOut, CommandLockedOut, SystemSteps
<1> QED
  BY <1>1, WholeHolds, PTL DEF SystemSpec, LockedOutForGood

(* Without an owner nobody was ever privileged, so no creation got past    *)
(* its guard either.                                                       *)
LEMMA OwnerlessUnprivileged ==
    ASSUME PrivilegeFromOwner, NEW t \in Tenants, P!Owners(t) = {}
    PROVE  Unprivileged(t)
BY DEF PrivilegeFromOwner, P!Owners, Unprivileged

LEMMA AbandonedIsLockedOut ==
    ASSUME Whole, PrivilegeFromOwner, NEW t \in Tenants, P!Abandoned(t)
    PROVE  LockedOut(t)
<1> USE DEF Whole, Authority
<1>1. Unprivileged(t)
  BY OwnerlessUnprivileged DEF P!Abandoned
<1>2. ASSUME NEW w \in Workers, Served(w, {"create"}), Tenant(w) = t,
             pc[w] \in {"check_email", "insert_user", "assign_role"}
      PROVE  FALSE
  <2>1. /\ req[w].token \in tokens /\ req[w].token.tenant = t
        /\ Privileged(req[w].token.role)
    BY <1>2 DEF Guarded, PastGuard, Served
  <2>2. /\ memberships[t][req[w].token.sub] = req[w].token.role
        /\ req[w].token.sub \in UserIds
    BY <2>1 DEF TokenBacked, TypeOK, Token
  <2> QED
    BY <1>1, <2>1, <2>2 DEF Unprivileged
<1>3. Leaderless(t)
  BY <1>1, <1>2 DEF Leaderless, CreationUnderWay, Unprivileged
<1> QED
  BY <1>3 DEF LockedOut, P!Abandoned

(* What a dead create_tenant leaves nobody can manage, even if others have *)
(* registered there: being early makes nobody its owner.                   *)
THEOREM AbandonedAreLockedOut == SystemSpec => []AbandonedLockedOut
<1>1. Whole /\ PrivilegeFromOwner => AbandonedLockedOut
  BY AbandonedIsLockedOut DEF AbandonedLockedOut
<1> QED
  BY <1>1, WholeHolds, SystemPrivilegesFromOwners, PTL

LEMMA AbandonedSeen == \A t : P!Abandoned(t) <=> PP!Abandoned(t)
BY SeedingSeen, PP!SeedingIsSeeds, Assumed
   DEF P!Abandoned, PP!Abandoned, P!Owners, PP!Owners, P!Registered, PP!Registered, PP!Slug

(* No command gives an abandoned tenant an owner, and no request does,     *)
(* which the commands alone could not tell.                                *)
THEOREM SystemAbandonedStays == SystemSpec => P!AbandonedForGood
<1>1. ASSUME Whole, PrivilegeFromOwner, [SystemNext]_systemVars, NEW t \in Tenants, P!Abandoned(t)
      PROVE  P!Abandoned(t)'
  <2>1. CASE [Next]_vars /\ UNCHANGED scriptVars
    <3>1. LockedOut(t)'
      BY <1>1, <2>1, ApiLockedOut, AbandonedIsLockedOut
    <3>2. Unprivileged(t)'
      BY <1>1, <2>1, ApiUnprivileged, OwnerlessUnprivileged DEF Whole, P!Abandoned
    <3>3. P!Owners(t)' = {}
      BY <3>2, RoleLevels DEF P!Owners, Unprivileged, Privileged, RoleSatisfies, Role
    <3> QED
      BY <3>1, <3>3 DEF P!Abandoned, LockedOut
  <2>2. ASSUME NEW s \in Scripts, PP!ScriptStep(s) PROVE P!Abandoned(t)'
    <3>1. [PP!Next]_(PP!vars)
      BY <2>2 DEF PP!Next, PP!ScriptStep
    <3>2. PP!Abandoned(t)'
      BY <1>1, <3>1, AbandonedSeen, PP!AbandonedStep, Assumed DEF Whole, Commanded
    <3> QED
      BY <3>2
         DEF P!Abandoned, PP!Abandoned, P!Owners, PP!Owners, P!Registered, PP!Registered,
             P!Seeding, PP!Seeding, P!Creates, PP!Creates, P!Slug, PP!Slug, P!TableOf, PP!TableOf
  <2> QED
    BY <1>1, <2>1, <2>2, SystemSteps
<1>2. Whole /\ PrivilegeFromOwner /\ [SystemNext]_systemVars
        => [\A t \in Tenants : P!Abandoned(t) => P!Abandoned(t)']_(P!vars)
  BY <1>1
<1> QED
  BY <1>2, WholeHolds, SystemPrivilegesFromOwners, PTL DEF SystemSpec, P!AbandonedForGood
-----------------------------------------------------------------------------
(* What the commands guarantee of the schema, the API leaves alone.        *)
Migrated == PP!UpgradeProgress /\ PP!StampMeansTables /\ PP!UsersFirst

LEMMA MigratedInit == SystemInit => Migrated
<1> SUFFICES ASSUME SystemInit PROVE Migrated
  OBVIOUS
<1>1. \A s \in Scripts : script[s].pc = "idle"
  BY DEF SystemInit, P!ScriptInit, P!NoJob, P!Job
<1>2. PICK done \in SUBSET Provisioned : InitStore(done)
  BY DEF SystemInit, Init
<1>3. PICK migrated \in [Provisioned -> {{}, {"users"}}] : tables = InitTables(done, migrated)
  BY <1>2 DEF InitStore
<1>4. \A t \in Tenants : tables[t] # {} => "users" \in tables[t]
  BY <1>3 DEF InitTables, TableNames
<1>5. stamped = {t \in Tenants : tables[t] = PP!TableNames}
  BY DEF SystemInit, P!ScriptInit, P!TableNames, PP!TableNames
<1> QED
  BY <1>1, <1>4, <1>5 DEF Migrated, PP!UpgradeProgress, PP!StampMeansTables, PP!UsersFirst, PP!At

LEMMA MigratedStep ==
    ASSUME Whole, Migrated, [SystemNext]_systemVars
    PROVE  /\ Migrated'
           /\ \A t \in Tenants : PP!HalfMigrated(t) => PP!HalfMigrated(t)'
           /\ PP!Unversioned => PP!Unversioned'
<1>1. CASE [Next]_vars /\ UNCHANGED scriptVars
  <2>1. UNCHANGED <<tables, registrySchema, stamped, script>>
    BY <1>1, SchemaStays DEF Whole, Authority, scriptVars
  <2> QED
    BY <2>1
       DEF Migrated, PP!UpgradeProgress, PP!StampMeansTables, PP!UsersFirst, PP!HalfMigrated,
           PP!Upgrading, PP!Unversioned, PP!HasTenants, PP!At, PP!Slug
<1>2. ASSUME NEW s \in Scripts, PP!ScriptStep(s)
      PROVE  /\ Migrated'
             /\ \A t \in Tenants : PP!HalfMigrated(t) => PP!HalfMigrated(t)'
             /\ PP!Unversioned => PP!Unversioned'
  <2>1. [PP!Next]_(PP!vars) /\ PP!TypeOK
    BY <1>2 DEF PP!Next, PP!ScriptStep, Whole, Commanded
  <2> QED
    BY <2>1, PP!StampStep, PP!HalfMigratedNext, PP!RegistryStep, Assumed DEF Migrated
<1> QED
  BY <1>1, <1>2, SystemSteps

LEMMA MigratedHolds == SystemSpec => [](Whole /\ Migrated)
BY MigratedInit, MigratedStep, WholeHolds, PTL DEF SystemSpec

(* A recorded version means tables for the API too, which serves a tenant  *)
(* from its registration on.                                               *)
THEOREM SystemStampsMeanTables == SystemSpec => []P!StampMeansTables
<1>1. Migrated => P!StampMeansTables
  BY DEF Migrated, P!StampMeansTables, PP!StampMeansTables, P!TableNames, PP!TableNames
<1> QED
  BY <1>1, MigratedHolds, PTL

(* Nothing the API does completes an upgrade or a registry left half done. *)
THEOREM SystemHalfMigratedStays ==
    SystemSpec => P!HalfMigratedForGood /\ P!UnversionedForGood
<1>1. Whole /\ Migrated /\ [SystemNext]_systemVars
        => /\ [\A t \in Tenants : P!HalfMigrated(t) => P!HalfMigrated(t)']_(P!vars)
           /\ [P!Unversioned => P!Unversioned']_(P!vars)
  BY MigratedStep
     DEF P!HalfMigrated, PP!HalfMigrated, P!Upgrading, PP!Upgrading, P!Unversioned,
         PP!Unversioned, P!HasTenants, PP!HasTenants, P!At, PP!At, P!Slug, PP!Slug
<1> QED
  BY <1>1, MigratedHolds, PTL DEF SystemSpec, P!HalfMigratedForGood, P!UnversionedForGood
=============================================================================
