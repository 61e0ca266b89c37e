------------------------- MODULE ProvisioningProofs -------------------------
(* Proofs about the operator's scripts, for any number of scripts, tenants *)
(* and identifiers, killed at any step.                                    *)
EXTENDS ProvisioningProperties, TLAPS

(* Where in its work a script has a tenant in hand, and what else it has.  *)
Slugged == {"read_version", "create_users", "create_memberships", "stamp"}
Held(s) ==
    /\ script[s].pc \in Slugged => Slug(s) # None
    /\ Creates(s) => Slug(s) # None /\ script[s].email # None /\ script[s].password # None
    /\ script[s].pc \in CreateSteps => Creates(s)
    /\ script[s].pc = "assign_owner" => script[s].owner # None

(* The type invariant, with the map from steps to tables worked out.       *)
LEMMA TypeParts ==
    TypeOK <=> /\ DataTypeOK /\ stamped \subseteq Tenants
               /\ registrySchema \subseteq RegistryTables \cup {"stamp"}
               /\ script \in [Scripts -> Script]
               /\ \A s \in Scripts : Held(s)
BY DEF TypeOK, Held, Slugged, TableOf, Slug, Creates

LEMMA TypeFromParts ==
    ASSUME DataTypeOK', stamped' \subseteq Tenants,
           registrySchema' \subseteq RegistryTables \cup {"stamp"},
           script' \in [Scripts -> Script], \A s \in Scripts : Held(s)'
    PROVE  TypeOK'
BY DEF TypeOK, Held, Slugged, TableOf, Slug, Creates

LEMMA Tables ==
    /\ DOMAIN TableOf = {"create_users", "create_memberships"}
    /\ TableOf["create_users"] = "users"
    /\ TableOf["create_memberships"] = "memberships"
BY DEF TableOf

(* A step that only moves one script changes nothing else of any script.   *)
LEMMA GotoEffect ==
    ASSUME NEW s \in Scripts, NEW step \in ScriptPC,
           script \in [Scripts -> Script], Goto(s, step)
    PROVE  /\ script' \in [Scripts -> Script]
           /\ script'[s].pc = step /\ script'[s].job = script[s].job
           /\ script'[s].slug = script[s].slug /\ script'[s].owner = script[s].owner
           /\ script'[s].email = script[s].email
           /\ script'[s].password = script[s].password
           /\ script'[s].slugs = script[s].slugs /\ script'[s].left = script[s].left
           /\ \A r \in Scripts : r # s => script'[r] = script[r]
<1> DEFINE new == [script[s] EXCEPT !.pc = step]
<1>1. script[s] \in Script
  OBVIOUS
<1>2. new \in Script
  BY <1>1 DEF Script
<1>3. /\ new.pc = step /\ new.job = script[s].job
      /\ new.slug = script[s].slug /\ new.owner = script[s].owner
      /\ new.email = script[s].email /\ new.password = script[s].password
      /\ new.slugs = script[s].slugs /\ new.left = script[s].left
  BY <1>1 DEF Script
<1>4. script' = [script EXCEPT ![s] = new]
  BY DEF Goto
<1> HIDE DEF new
<1>5. script'[s] = new /\ \A r \in Scripts : r # s => script'[r] = script[r]
  BY <1>4
<1> QED
  BY <1>2, <1>3, <1>4, <1>5

(* Whoever moves from a step with a tenant in hand still has it.           *)
LEMMA GotoTyped ==
    ASSUME NEW s \in Scripts, NEW step \in ScriptPC, TypeOK, Goto(s, step),
           step \in Slugged => Slug(s) # None,
           step \in CreateSteps => Creates(s),
           step # "assign_owner"
    PROVE  /\ script' \in [Scripts -> Script]
           /\ \A r \in Scripts : Held(r)'
BY TypeParts, GotoEffect DEF Held, Slug, Creates

LEMMA JobTyped ==
    \A step \in ScriptPC, job \in Commands \cup {None}, t \in Tenants \cup {None},
       e \in Emails \cup {None}, p \in Passwords \cup {None} :
        /\ Job(step, job, t, e, p) \in Script
        /\ Job(step, job, t, e, p).pc = step /\ Job(step, job, t, e, p).job = job
        /\ Job(step, job, t, e, p).slug = t /\ Job(step, job, t, e, p).email = e
        /\ Job(step, job, t, e, p).password = p
BY DEF Job, Script

LEMMA Steps ==
    /\ Slugged \cup CreateSteps \subseteq ScriptPC
    /\ {"idle", "read_registry_version", "create_tenants", "stamp_registry",
        "read_slugs", "next_slug", "exit 0", "exit 1"} \subseteq ScriptPC
BY DEF Slugged, CreateSteps, ScriptPC, TableOf

(* A script that takes up another record of the right shape.               *)
LEMMA ReplaceTyped ==
    ASSUME NEW s \in Scripts, NEW new \in Script, TypeOK,
           script' = [script EXCEPT ![s] = new],
           new.pc \in Slugged => new.slug # None,
           new.job = "create" => new.slug # None /\ new.email # None /\ new.password # None,
           new.pc \in CreateSteps => new.job = "create",
           new.pc = "assign_owner" => new.owner # None
    PROVE  /\ script' \in [Scripts -> Script]
           /\ \A r \in Scripts : Held(r)'
BY TypeParts DEF Held, Slug, Creates

LEMMA StartTyped ==
    ASSUME NEW s \in Scripts, TypeOK, Start(s)
    PROVE  TypeOK'
<1>1. DataTypeOK' /\ UNCHANGED schemaVars
  BY TypeParts DEF Start, dataVars, DataTypeOK
<1>2. ASSUME NEW step \in ScriptPC, NEW job \in Commands, NEW t \in Tenants \cup {None},
             NEW e \in Emails \cup {None}, NEW p \in Passwords \cup {None},
             script' = [script EXCEPT ![s] = Job(step, job, t, e, p)],
             step \in Slugged \/ job = "create" => t # None,
             job = "create" => e # None /\ p # None,
             step \in CreateSteps => job = "create", step # "assign_owner"
      PROVE  TypeOK'
  <2>1. PICK new : new = Job(step, job, t, e, p)
    OBVIOUS
  <2>2. /\ new \in Script /\ new.pc = step /\ new.job = job /\ new.slug = t
        /\ new.email = e /\ new.password = p
    BY <2>1, JobTyped
  <2>3. script' = [script EXCEPT ![s] = new]
    BY <1>2, <2>1
  <2> QED
    BY <1>1, <1>2, <2>2, <2>3, TypeParts, TypeFromParts, ReplaceTyped DEF schemaVars
<1>3. /\ "create" \in Commands /\ "migrate" \in Commands
      /\ "upgrade" \in Commands /\ "registry" \in Commands
  BY DEF Commands
<1>4. ASSUME NEW t \in Tenants, NEW e \in Emails, NEW p \in Passwords,
             script' = [script EXCEPT ![s] = Job("inspect_registry", "create", t, e, p)]
      PROVE  TypeOK'
  BY <1>2, <1>3, <1>4, Steps, NoneAssumption DEF CreateSteps
<1>5. ASSUME script' = [script EXCEPT ![s] = Job("read_slugs", "migrate", None, None, None)]
      PROVE  TypeOK'
  BY <1>2, <1>3, <1>5, Steps DEF CreateSteps, Slugged
<1>6. ASSUME NEW t \in Tenants,
             script' = [script EXCEPT ![s] = Job("read_version", "upgrade", t, None, None)]
      PROVE  TypeOK'
  BY <1>2, <1>3, <1>6, Steps, NoneAssumption DEF CreateSteps, Slugged
<1>7. ASSUME script' = [script EXCEPT ![s] =
                            Job("read_registry_version", "registry", None, None, None)]
      PROVE  TypeOK'
  BY <1>2, <1>3, <1>7, Steps DEF CreateSteps, Slugged
<1> QED
  BY <1>4, <1>5, <1>6, <1>7 DEF Start

(* Steps that only move a script and touch at most the registry, a table   *)
(* or a version stamp.                                                     *)
LEMMA MovesTyped ==
    ASSUME NEW s \in Scripts, TypeOK,
           Build(s) \/ NoRegistry(s) \/ FindsSlug(s) \/ CheckSlug(s) \/ SlugConflicts(s) \/ InsertTenant(s)
           \/ AllMigrated(s) \/ ReadVersion(s) \/ TableConflicts(s) \/ CreateTable(s)
           \/ Stamp(s) \/ OwnerConflicts(s) \/ Fail(s)
    PROVE  TypeOK'
<1>1. \E step \in ScriptPC :
        /\ Goto(s, step) /\ step # "assign_owner"
        /\ step \in Slugged => Slug(s) # None
        /\ step \in CreateSteps => Creates(s)
  BY TypeParts, Tables, Steps
     DEF Held, Slugged, CreateSteps, At, AtTable, AtRegistryTable, RegistryTable, Upgraded, Built, Creates, Slug, Build,
         InspectRegistry, ReadRegistryVersion, RegistryConflicts, CreateRegistryTable,
         StampRegistry, NoRegistry, FindsSlug, CheckSlug,
         SlugConflicts, InsertTenant, AllMigrated, ReadVersion, TableConflicts,
         CreateTable, Stamp, OwnerConflicts, Fail
<1>2. DataTypeOK' /\ stamped' \subseteq Tenants /\ registrySchema' \subseteq RegistryTables \cup {"stamp"}
  <2> USE TypeParts DEF schemaVars
  <2>1. script[s].slug \in Tenants \cup {None}
    BY DEF Script
  <2>2. CASE UNCHANGED <<dataVars, schemaVars>>
    BY <2>2 DEF dataVars, DataTypeOK
  <2>6. CASE CreateRegistryTable(s) \/ StampRegistry(s)
    BY <2>6 DEF CreateRegistryTable, StampRegistry, RegistryTable, RegistryTables, dataVars, DataTypeOK
  <2>3. CASE InsertTenant(s)
    BY <2>1, <2>3 DEF InsertTenant, DataTypeOK, Slug
  <2>4. CASE CreateTable(s)
    BY <2>1, <2>4, Tables DEF CreateTable, AddTable, AtTable, DataTypeOK, Slug, TableNames
  <2>5. CASE Stamp(s)
    <3>1. Slug(s) \in Tenants
      BY <2>1, <2>5 DEF Stamp, Held, Slug, Slugged, At
    <3> QED
      BY <2>5, <3>1 DEF Stamp, dataVars, DataTypeOK
  <2> QED
    BY <2>2, <2>3, <2>4, <2>5, <2>6
       DEF Build, InspectRegistry, ReadRegistryVersion, RegistryConflicts, NoRegistry,
           FindsSlug, CheckSlug, SlugConflicts, AllMigrated, ReadVersion,
           TableConflicts, OwnerConflicts, Fail
<1> QED
  BY <1>1, <1>2, TypeFromParts, GotoTyped

LEMMA RecordsTyped ==
    ASSUME NEW s \in Scripts, TypeOK,
           ReadSlugs(s) \/ NextSlug(s) \/ CreateOwner(s) \/ Exit(s)
    PROVE  TypeOK'
<1>1. script[s] \in Script
  BY TypeParts
<1>2. CASE ReadSlugs(s)
  <2>1. PICK new : new = [script[s] EXCEPT !.pc = "next_slug",
                             !.slugs = {t \in Tenants : TenantActive(t)},
                             !.left = {t \in Tenants : TenantActive(t)}]
    OBVIOUS
  <2>2. new \in Script /\ new.pc = "next_slug" /\ new.job = script[s].job
        /\ new.email = script[s].email /\ new.password = script[s].password
        /\ new.slug = script[s].slug
    BY <1>1, <2>1 DEF Script, ScriptPC
  <2>3. script' = [script EXCEPT ![s] = new] /\ UNCHANGED <<dataVars, schemaVars>>
    BY <1>2, <2>1 DEF ReadSlugs
  <2>4. new.pc \notin Slugged \cup CreateSteps
    BY <2>2 DEF Slugged, CreateSteps
  <2> QED
    BY <2>2, <2>3, <2>4, TypeParts, TypeFromParts, ReplaceTyped
       DEF dataVars, schemaVars, DataTypeOK, Held, Creates, Slug
<1>3. CASE NextSlug(s)
  <2>1. PICK t \in script[s].left :
          script' = [script EXCEPT ![s].pc = "read_version",
                                   ![s].slug = t, ![s].left = @ \ {t}]
    BY <1>3 DEF NextSlug
  <2>2. t \in Tenants /\ t # None
    BY <1>1, <2>1, NoneAssumption DEF Script
  <2>3. PICK new : new = [script[s] EXCEPT !.pc = "read_version", !.slug = t,
                                           !.left = @ \ {t}]
    OBVIOUS
  <2>4. new \in Script /\ new.pc = "read_version" /\ new.slug = t
        /\ new.job = script[s].job /\ new.email = script[s].email
        /\ new.password = script[s].password
    BY <1>1, <2>2, <2>3 DEF Script, ScriptPC
  <2>6. new.pc \notin CreateSteps
    BY <2>4 DEF CreateSteps
  <2>5. script' = [script EXCEPT ![s] = new] /\ UNCHANGED <<dataVars, schemaVars>>
    BY <1>3, <2>1, <2>3 DEF NextSlug
  <2> QED
    BY <2>2, <2>4, <2>5, <2>6, TypeParts, TypeFromParts, ReplaceTyped
       DEF dataVars, schemaVars, DataTypeOK, Held, Creates, Slug
<1>4. CASE CreateOwner(s)
  <2>1. PICK u \in UserIds :
          /\ GenerateId(u)
          /\ AddUser(Slug(s), u, NewUser(script[s].email, script[s].password))
          /\ script' = [script EXCEPT ![s].pc = "assign_owner", ![s].owner = u]
    BY <1>4 DEF CreateOwner
  <2>2. PICK new : new = [script[s] EXCEPT !.pc = "assign_owner", !.owner = u]
    OBVIOUS
  <2>3. /\ new \in Script /\ new.pc = "assign_owner" /\ new.owner = u
        /\ new.slug = script[s].slug /\ new.job = script[s].job
        /\ new.email = script[s].email /\ new.password = script[s].password
    BY <1>1, <2>2, Steps DEF Script, CreateSteps
  <2>4. script' = [script EXCEPT ![s] = new]
    BY <2>1, <2>2
  <2>5. Held(s)
    BY TypeParts
  <2>6. new.owner # None /\ new.slug # None /\ new.email # None /\ new.password # None
    BY <1>4, <2>3, <2>5, NoneAssumption DEF CreateOwner, Held, At, CreateSteps, Slug, Creates
  <2>7. script[s].email \in Emails /\ script[s].password \in Passwords
    BY <1>1, <2>3, <2>6 DEF Script
  <2>8. NewUser(script[s].email, script[s].password) \in UserRow
    BY <2>7, DigestAssumption DEF NewUser, UserRow
  <2>9. DataTypeOK' /\ UNCHANGED schemaVars
    BY <1>4, <2>1, <2>8, TypeParts DEF CreateOwner, AddUser, GenerateId, DataTypeOK
  <2> QED
    BY <1>4, <2>3, <2>4, <2>5, <2>6, <2>9, TypeParts, TypeFromParts, ReplaceTyped
       DEF schemaVars, CreateOwner, Held, At, CreateSteps, Creates, Slug
<1>5. CASE Exit(s)
  <2>1. PICK new : new = NoJob
    OBVIOUS
  <2>2. new \in Script /\ new.pc = "idle" /\ new.job = None
    <3>1. "idle" \in ScriptPC
      BY DEF ScriptPC
    <3> QED
      BY <2>1, <3>1, JobTyped DEF NoJob
  <2>3. new.pc \notin Slugged \cup CreateSteps /\ new.job # "create"
    BY <2>2, NoJobAssumption DEF Slugged, CreateSteps, Commands
  <2>4. script' = [script EXCEPT ![s] = new] /\ UNCHANGED <<dataVars, schemaVars>>
    BY <1>5, <2>1 DEF Exit
  <2> QED
    BY <2>2, <2>3, <2>4, TypeParts, TypeFromParts, ReplaceTyped
       DEF dataVars, schemaVars, DataTypeOK
<1> QED
  BY <1>2, <1>3, <1>4, <1>5

LEMMA AssignTyped ==
    ASSUME NEW s \in Scripts, TypeOK, AssignOwner(s)
    PROVE  TypeOK'
<1>1. "exit 0" \in ScriptPC /\ "exit 0" \notin Slugged \cup CreateSteps
  BY DEF ScriptPC, Slugged, CreateSteps
<1>2. script[s].owner \in UserIds
  BY TypeParts DEF AssignOwner, Held, At, Script
<1>3. DataTypeOK' /\ UNCHANGED schemaVars
  BY <1>2, TypeParts DEF AssignOwner, UpsertMembership, DataTypeOK, Role
<1> QED
  BY <1>1, <1>3, TypeParts, TypeFromParts, GotoTyped DEF AssignOwner, schemaVars

LEMMA VisitTyped ==
    ASSUME NEW t \in Tenants, TypeOK, Visit(t)
    PROVE  TypeOK'
<1>1. PICK u \in UserIds, e \in Emails, p \in Passwords :
        /\ Canonical[e] # None /\ GenerateId(u)
        /\ AddUser(t, u, NewUser(Canonical[e], p))
        /\ UpsertMembership(t, u, "MEMBER") \/ UNCHANGED memberships
  BY DEF Visit
<1>2. NewUser(Canonical[e], p) \in UserRow
  BY <1>1, CanonicalAssumption, DigestAssumption DEF NewUser, UserRow
<1>3. users' \in [Tenants -> [UserIds -> UserRow \cup {None}]]
  BY <1>1, <1>2, TypeParts DEF DataTypeOK, AddUser
<1>4. memberships' \in [Tenants -> [UserIds -> Role \cup {None}]]
  <2>1. "MEMBER" \in Role
    BY DEF Role
  <2>2. memberships \in [Tenants -> [UserIds -> Role \cup {None}]]
    BY TypeParts DEF DataTypeOK
  <2>3. CASE UpsertMembership(t, u, "MEMBER")
    BY <2>1, <2>2, <2>3 DEF UpsertMembership
  <2> QED
    BY <1>1, <2>2, <2>3
<1>5. DataTypeOK' /\ UNCHANGED scriptVars
  BY <1>1, <1>3, <1>4, TypeParts DEF Visit, DataTypeOK, GenerateId
<1> QED
  BY <1>5 DEF TypeOK, scriptVars, schemaVars

LEMMA TypeStep == TypeOK /\ [Next]_vars => TypeOK'
<1> SUFFICES ASSUME TypeOK, [Next]_vars PROVE TypeOK'
  OBVIOUS
<1>1. CASE UNCHANGED vars
  BY <1>1 DEF TypeOK, DataTypeOK, vars, dataVars, scriptVars, schemaVars
<1>2. CASE Next
  BY <1>2, StartTyped, MovesTyped, RecordsTyped, AssignTyped, VisitTyped
     DEF Next, Run, Build, Register, Migrate, Upgrade, Seed
<1> QED
  BY <1>1, <1>2

(* Type correctness of the scripts and the store they write.               *)
THEOREM ScriptsTyped == Spec => []TypeOK
<1>1. Init => TypeOK
  <2> SUFFICES ASSUME Init PROVE TypeOK
    OBVIOUS
  <2>1. DataTypeOK /\ stamped \subseteq Tenants
    BY DEF Init, ScriptInit, DataTypeOK
  <2>2. PICK new : new = NoJob
    OBVIOUS
  <2>3. "idle" \in ScriptPC
    BY DEF ScriptPC
  <2>4. new \in Script /\ new.pc = "idle" /\ new.job = None
    BY <2>2, <2>3, JobTyped DEF NoJob
  <2>5. script = [s \in Scripts |-> new]
    BY <2>2 DEF Init, ScriptInit
  <2> QED
    BY <2>1, <2>4, <2>5, TypeParts, NoJobAssumption
       DEF Init, ScriptInit, Held, Slugged, CreateSteps, Commands, Slug, Creates
<1> QED
  BY <1>1, TypeStep, PTL DEF Spec
-----------------------------------------------------------------------------
(* Within an upgrade the tables of the commits before the present one      *)
(* exist: what makes "a stamp means tables" inductive.                     *)
UpgradeProgress ==
    \A s \in Scripts :
        /\ At(s, "create_memberships") => "users" \in tables[Slug(s)]
        /\ At(s, "stamp") => tables[Slug(s)] = TableNames

InUpgrade == {"create_memberships", "stamp"}

(* Every other step leaves tables and stamps alone and enters no upgrade.  *)
LEMMA OutsideUpgrade ==
    ASSUME TypeOK, NEW s \in Scripts,
           Start(s) \/ Build(s) \/ Register(s) \/ Migrate(s) \/ ReadVersion(s)
           \/ TableConflicts(s) \/ Seed(s) \/ Exit(s) \/ Fail(s)
    PROVE  /\ UNCHANGED <<tables, stamped>>
           /\ \A r \in Scripts : script'[r] = script[r] \/ script'[r].pc \notin InUpgrade
<1> USE TypeParts
<1>1. ASSUME NEW step \in ScriptPC \ InUpgrade, Goto(s, step)
      PROVE  \A r \in Scripts : script'[r] = script[r] \/ script'[r].pc \notin InUpgrade
  BY <1>1, GotoEffect
<1>2. ASSUME NEW new \in Script, new.pc \notin InUpgrade, script' = [script EXCEPT ![s] = new]
      PROVE  \A r \in Scripts : script'[r] = script[r] \/ script'[r].pc \notin InUpgrade
  BY <1>2
<1>3. script[s] \in Script
  OBVIOUS
<1>4. CASE Build(s) \/ NoRegistry(s) \/ FindsSlug(s) \/ CheckSlug(s) \/ SlugConflicts(s) \/ InsertTenant(s)
           \/ AllMigrated(s) \/ ReadVersion(s) \/ TableConflicts(s)
           \/ OwnerConflicts(s) \/ AssignOwner(s) \/ Fail(s)
  <2>1. \E step \in ScriptPC \ InUpgrade : Goto(s, step)
    BY <1>4 DEF Build, InspectRegistry, ReadRegistryVersion, RegistryConflicts, CreateRegistryTable,
                StampRegistry, NoRegistry, FindsSlug, CheckSlug, SlugConflicts,
                InsertTenant, AllMigrated, ReadVersion, TableConflicts, OwnerConflicts,
                AssignOwner, Fail, Built, Upgraded, ScriptPC, CreateSteps, InUpgrade, TableOf
  <2> QED
    BY <1>1, <1>4, <2>1
       DEF Build, InspectRegistry, ReadRegistryVersion, RegistryConflicts, CreateRegistryTable,
           StampRegistry, NoRegistry, FindsSlug, CheckSlug, SlugConflicts, InsertTenant,
           AllMigrated, ReadVersion, TableConflicts, OwnerConflicts, AssignOwner, Fail,
           dataVars, schemaVars
<1>5. CASE Start(s) \/ Exit(s) \/ ReadSlugs(s) \/ NextSlug(s) \/ CreateOwner(s)
  <2>1. /\ UNCHANGED <<tables, stamped>>
        /\ \A r \in Scripts : r # s => script'[r] = script[r]
    BY <1>5 DEF Start, Exit, ReadSlugs, NextSlug, CreateOwner, dataVars, schemaVars
  <2>2. script'[s].pc \in {"inspect_registry", "read_slugs", "read_registry_version", "idle",
                           "next_slug", "read_version", "assign_owner"}
    <3>1. CASE Start(s) \/ Exit(s)
      <4>1. \/ script'[s] = NoJob
            \/ script'[s] = Job("read_slugs", "migrate", None, None, None)
            \/ script'[s] = Job("read_registry_version", "registry", None, None, None)
            \/ \E t \in Tenants : script'[s] = Job("read_version", "upgrade", t, None, None)
            \/ \E t \in Tenants, e \in Emails, p \in Passwords :
                    script'[s] = Job("inspect_registry", "create", t, e, p)
        BY <3>1 DEF Start, Exit
      <4>2. /\ NoJob.pc = "idle"
            /\ Job("read_slugs", "migrate", None, None, None).pc = "read_slugs"
            /\ Job("read_registry_version", "registry", None, None, None).pc =
                  "read_registry_version"
            /\ \A t \in Tenants : Job("read_version", "upgrade", t, None, None).pc = "read_version"
            /\ \A t \in Tenants, e \in Emails, p \in Passwords :
                  Job("inspect_registry", "create", t, e, p).pc = "inspect_registry"
        BY DEF NoJob, Job
      <4> QED
        BY <4>1, <4>2
    <3>2. CASE ReadSlugs(s)
      BY <1>3, <3>2 DEF ReadSlugs, Script
    <3>3. CASE NextSlug(s)
      <4>1. PICK t \in script[s].left :
              script' = [script EXCEPT ![s] =
                  [script[s] EXCEPT !.pc = "read_version", !.slug = t, !.left = @ \ {t}]]
        BY <3>3 DEF NextSlug
      <4> QED
        BY <1>3, <4>1 DEF Script
    <3>4. CASE CreateOwner(s)
      BY <1>3, <3>4 DEF CreateOwner, Script
    <3> QED
      BY <1>5, <3>1, <3>2, <3>3, <3>4
  <2> QED
    BY <2>1, <2>2 DEF InUpgrade
<1> QED
  BY <1>4, <1>5 DEF Register, Migrate, Seed

LEMMA StampStep ==
    TypeOK /\ UpgradeProgress /\ StampMeansTables /\ [Next]_vars
        => UpgradeProgress' /\ StampMeansTables'
<1> SUFFICES ASSUME TypeOK, UpgradeProgress, StampMeansTables, [Next]_vars
             PROVE  UpgradeProgress' /\ StampMeansTables'
  OBVIOUS
<1> USE TypeParts
<1>1. ASSUME UNCHANGED <<tables, stamped>>,
             \A r \in Scripts : script'[r] = script[r] \/ script'[r].pc \notin InUpgrade
      PROVE  UpgradeProgress' /\ StampMeansTables'
  BY <1>1 DEF UpgradeProgress, StampMeansTables, At, Slug, InUpgrade
<1>2. ASSUME NEW s \in Scripts, CreateTable(s) PROVE UpgradeProgress' /\ StampMeansTables'
  <2>1. Slug(s) \in Tenants
    BY <1>2, Tables DEF CreateTable, AtTable, Held, Slugged, Slug, Script
  <2>2. PICK table \in TableNames :
          tables' = [tables EXCEPT ![Slug(s)] = @ \cup {table}]
          /\ table = TableOf[script[s].pc]
    BY <1>2, Tables DEF CreateTable, AddTable, AtTable, TableNames
  <2>3. \A t \in Tenants : tables[t] \subseteq tables'[t] /\ tables'[t] \subseteq TableNames
    BY <2>1, <2>2 DEF DataTypeOK
  <2>4. /\ \A r \in Scripts : r # s => script'[r] = script[r]
        /\ script'[s].slug = script[s].slug
        /\ script[s].pc = "create_users" => script'[s].pc = "create_memberships"
        /\ script[s].pc = "create_memberships" => script'[s].pc = "stamp"
    <3>1. PICK step \in ScriptPC :
            /\ Goto(s, step)
            /\ step = IF At(s, "create_users") THEN "create_memberships" ELSE "stamp"
      BY <1>2 DEF CreateTable, ScriptPC, TableOf
    <3> QED
      BY <3>1, GotoEffect DEF At
  <2>5. table \in tables'[Slug(s)]
    BY <2>1, <2>2 DEF DataTypeOK
  <2>6. script[s].pc = "create_users" \/ script[s].pc = "create_memberships"
    BY <1>2, Tables DEF CreateTable, AtTable
  <2>7. StampMeansTables'
    BY <1>2, <2>3 DEF CreateTable, StampMeansTables, schemaVars
  <2>8. ASSUME NEW r \in Scripts, r # s
        PROVE  /\ At(r, "create_memberships")' => "users" \in tables'[Slug(r)']
               /\ At(r, "stamp")' => tables'[Slug(r)'] = TableNames
    <3>1. script[r].pc \in Slugged => Slug(r) \in Tenants
      BY DEF Held, Slug, Script
    <3>2. script'[r] = script[r]
      BY <2>4, <2>8
    <3>3. ASSUME script[r].pc = "create_memberships" PROVE "users" \in tables'[Slug(r)]
      BY <2>3, <3>1, <3>3 DEF UpgradeProgress, At, Slugged
    <3>4. ASSUME script[r].pc = "stamp" PROVE tables'[Slug(r)] = TableNames
      BY <2>3, <3>1, <3>4 DEF UpgradeProgress, At, Slugged
    <3> QED
      BY <3>2, <3>3, <3>4 DEF At, Slug
  <2>9. /\ At(s, "create_memberships")' => "users" \in tables'[Slug(s)']
        /\ At(s, "stamp")' => tables'[Slug(s)'] = TableNames
    <3>1. CASE script[s].pc = "create_users"
      BY <2>2, <2>4, <2>5, <3>1, Tables DEF At, Slug
    <3>2. CASE script[s].pc = "create_memberships"
      <4>1. "users" \in tables[Slug(s)] /\ table = "memberships"
        BY <2>2, <3>2, Tables DEF UpgradeProgress, At
      <4>2. "users" \in tables'[Slug(s)] /\ "memberships" \in tables'[Slug(s)]
        BY <2>1, <2>3, <2>5, <4>1
      <4>3. tables'[Slug(s)] = TableNames
        BY <2>1, <2>3, <4>2 DEF TableNames
      <4> QED
        BY <2>4, <3>2, <4>3 DEF At, Slug
    <3> QED
      BY <2>6, <3>1, <3>2
  <2> QED
    BY <2>7, <2>8, <2>9 DEF UpgradeProgress
<1>3. ASSUME NEW s \in Scripts, Stamp(s) PROVE UpgradeProgress' /\ StampMeansTables'
  <2>1. PICK step \in ScriptPC \ InUpgrade : Goto(s, step)
    BY <1>3 DEF Stamp, Upgraded, ScriptPC, CreateSteps, InUpgrade, TableOf
  <2>2. \A r \in Scripts : script'[r] = script[r] \/ script'[r].pc \notin InUpgrade
    BY <2>1, GotoEffect
  <2>3. tables' = tables /\ stamped' = stamped \cup {Slug(s)}
    BY <1>3 DEF Stamp, dataVars
  <2> QED
    BY <1>3, <2>2, <2>3 DEF UpgradeProgress, StampMeansTables, Stamp, At, Slug, InUpgrade
<1>4. CASE (\E t \in Tenants : Visit(t)) \/ UNCHANGED vars
  BY <1>1, <1>4 DEF Visit, vars, dataVars, scriptVars, schemaVars
<1> QED
  BY <1>1, <1>2, <1>3, <1>4, OutsideUpgrade DEF Next, Run, Upgrade

(* However scripts race and wherever they are killed, a tenant database    *)
(* whose version is recorded has all its tables.                           *)
THEOREM StampsMeanTables == Spec => []StampMeansTables
<1>1. Init => UpgradeProgress /\ StampMeansTables
  BY DEF Init, ScriptInit, UpgradeProgress, StampMeansTables, TableNames, NoJob, Job, At
<1> QED
  BY <1>1, StampStep, ScriptsTyped, PTL DEF Spec
=============================================================================
