---------------------------- MODULE OutcomeProofs ----------------------------
(* Proofs of what a script that ended has done, of what no script ever     *)
(* repairs, and that a tenant has one owner, for any number of scripts,    *)
(* tenants and identifiers, killed at any step.                            *)
EXTENDS ProvisioningProofs

ScriptStep(s) == Start(s) \/ Run(s) \/ Fail(s)

(* The steps that only move their script on.                               *)
Moves(s) ==
    Build(s) \/ Register(s) \/ NoRegistry(s) \/ AllMigrated(s) \/ Upgrade(s)
    \/ OwnerConflicts(s) \/ AssignOwner(s) \/ Fail(s)

LEMMA MovesGoto ==
    ASSUME TypeOK, NEW s \in Scripts, Moves(s)
    PROVE  \E step \in ScriptPC : Goto(s, step)
<1>1. TypeOK
  OBVIOUS
<1> QED
  BY Steps, Tables
     DEF Moves, Build, InspectRegistry, ReadRegistryVersion, RegistryConflicts,
         CreateRegistryTable, StampRegistry, Register, FindsSlug, CheckSlug, SlugConflicts,
         InsertTenant, NoRegistry, AllMigrated, Upgrade, ReadVersion, TableConflicts,
         CreateTable, Stamp, OwnerConflicts, AssignOwner, Fail, Built, Upgraded,
         Slugged, CreateSteps

(* Every step of a script leaves the other scripts where they are.         *)
LEMMA OneScriptMoves ==
    ASSUME TypeOK, NEW s \in Scripts, ScriptStep(s)
    PROVE  \A r \in Scripts : r # s => script'[r] = script[r]
<1> USE TypeParts
<1>1. CASE Moves(s)
  BY <1>1, MovesGoto, GotoEffect
<1>2. CASE Start(s) \/ Exit(s) \/ ReadSlugs(s) \/ NextSlug(s) \/ CreateOwner(s)
  BY <1>2 DEF Start, Exit, ReadSlugs, NextSlug, CreateOwner
<1> QED
  BY <1>1, <1>2 DEF ScriptStep, Run, Moves, Migrate, Seed
-----------------------------------------------------------------------------
(* What a job has in its record when it comes to a step.                   *)
LEMMA StartRecord ==
    ASSUME TypeOK, NEW s \in Scripts, Start(s)
    PROVE  /\ UNCHANGED <<dataVars, schemaVars>>
           /\ \/ script'[s].pc = "inspect_registry" /\ script'[s].job = "create"
              \/ script'[s].pc = "read_slugs" /\ script'[s].job = "migrate"
              \/ script'[s].pc = "read_version" /\ script'[s].job = "upgrade"
              \/ script'[s].pc = "read_registry_version" /\ script'[s].job = "registry"
           /\ script'[s].slugs = {} /\ script'[s].left = {}
<1> USE TypeParts
<1>1. \A step, job, t, e, p :
        /\ Job(step, job, t, e, p).pc = step /\ Job(step, job, t, e, p).job = job
        /\ Job(step, job, t, e, p).slugs = {} /\ Job(step, job, t, e, p).left = {}
  BY DEF Job
<1>2. \/ script'[s] = Job("read_slugs", "migrate", None, None, None)
      \/ script'[s] = Job("read_registry_version", "registry", None, None, None)
      \/ \E t \in Tenants : script'[s] = Job("read_version", "upgrade", t, None, None)
      \/ \E t \in Tenants, e \in Emails, p \in Passwords :
              script'[s] = Job("inspect_registry", "create", t, e, p)
  BY DEF Start
<1> QED
  BY <1>1, <1>2 DEF Start

LEMMA ExitRecord ==
    ASSUME TypeOK, NEW s \in Scripts, Exit(s)
    PROVE  script'[s].pc = "idle" /\ script'[s].job = None /\ UNCHANGED <<dataVars, schemaVars>>
BY TypeParts DEF Exit, NoJob, Job

LEMMA ReadSlugsRecord ==
    ASSUME TypeOK, NEW s \in Scripts, ReadSlugs(s)
    PROVE  /\ UNCHANGED <<dataVars, schemaVars>>
           /\ script'[s].pc = "next_slug" /\ script'[s].job = script[s].job
           /\ script'[s].slugs = script'[s].left
<1>1. script[s] \in Script
  BY TypeParts
<1>2. script'[s] = [script[s] EXCEPT !.pc = "next_slug",
                                     !.slugs = {t \in Tenants : TenantActive(t)},
                                     !.left = {t \in Tenants : TenantActive(t)}]
  BY TypeParts DEF ReadSlugs
<1> QED
  BY <1>1, <1>2 DEF ReadSlugs, Script

LEMMA NextSlugRecord ==
    ASSUME TypeOK, NEW s \in Scripts, NextSlug(s)
    PROVE  /\ UNCHANGED <<dataVars, schemaVars>>
           /\ script'[s].pc = "read_version" /\ script'[s].job = script[s].job
           /\ script'[s].slugs = script[s].slugs
           /\ script[s].left \subseteq script'[s].left \cup {script'[s].slug}
<1>1. script[s] \in Script
  BY TypeParts
<1>2. PICK t \in script[s].left :
        script'[s] = [script[s] EXCEPT !.pc = "read_version", !.slug = t, !.left = @ \ {t}]
  BY TypeParts DEF NextSlug
<1> QED
  BY <1>1, <1>2 DEF NextSlug, Script

LEMMA CreateOwnerRecord ==
    ASSUME TypeOK, NEW s \in Scripts, CreateOwner(s)
    PROVE  \E u \in UserIds :
               /\ GenerateId(u)
               /\ AddUser(Slug(s), u, NewUser(script[s].email, script[s].password))
               /\ UNCHANGED <<registry, tables, memberships, schemaVars>>
               /\ script'[s].pc = "assign_owner" /\ script'[s].owner = u
               /\ script'[s].job = script[s].job /\ script'[s].slug = script[s].slug
               /\ script'[s].email = script[s].email
               /\ script'[s].slugs = script[s].slugs /\ script'[s].left = script[s].left
<1>1. script[s] \in Script
  BY TypeParts
<1>2. PICK u \in UserIds :
        /\ GenerateId(u)
        /\ AddUser(Slug(s), u, NewUser(script[s].email, script[s].password))
        /\ script' = [script EXCEPT ![s] = [script[s] EXCEPT !.pc = "assign_owner", !.owner = u]]
  BY DEF CreateOwner
<1>3. script'[s] = [script[s] EXCEPT !.pc = "assign_owner", !.owner = u]
  BY <1>2, TypeParts
<1>4. PICK new : new = [script[s] EXCEPT !.pc = "assign_owner", !.owner = u]
  OBVIOUS
<1>5. /\ new.pc = "assign_owner" /\ new.owner = u
      /\ new.job = script[s].job /\ new.slug = script[s].slug
      /\ new.email = script[s].email
      /\ new.slugs = script[s].slugs /\ new.left = script[s].left
  BY <1>1, <1>4 DEF Script
<1>6. script'[s] = new /\ UNCHANGED <<registry, tables, memberships, schemaVars>>
  BY <1>3, <1>4 DEF CreateOwner
<1> QED
  BY <1>2, <1>5, <1>6
-----------------------------------------------------------------------------
(* Which jobs come to which steps.                                         *)
PlacedAt(step, job) ==
    /\ step \in {"read_slugs", "next_slug"} => job = "migrate"
    /\ step \in Slugged => job \in {"create", "migrate", "upgrade"}
    /\ step \in {"read_registry_version", "stamp_registry"} => job = "registry"
    /\ step = "create_tenants" => job \in {"create", "registry"}
    /\ step \in CreateSteps => job = "create"

Placed == \A s \in Scripts : PlacedAt(script[s].pc, script[s].job)

LEMMA MovesPlaced ==
    ASSUME TypeOK, Placed, NEW s \in Scripts, Moves(s)
    PROVE  \E step \in ScriptPC : Goto(s, step) /\ PlacedAt(step, script[s].job)
<1>1. PlacedAt(script[s].pc, script[s].job)
  BY DEF Placed
<1>2. CASE Build(s) \/ Register(s) \/ NoRegistry(s) \/ AllMigrated(s)
  BY <1>1, <1>2, Steps
     DEF Build, InspectRegistry, ReadRegistryVersion, RegistryConflicts, CreateRegistryTable,
         StampRegistry, Register, FindsSlug, CheckSlug, SlugConflicts, InsertTenant,
         NoRegistry, AllMigrated, AtRegistryTable, Built, At, Creates, PlacedAt, Slugged,
         CreateSteps
<1>3. CASE Upgrade(s) \/ OwnerConflicts(s) \/ AssignOwner(s) \/ Fail(s)
  BY <1>1, <1>3, Steps, Tables
     DEF Upgrade, ReadVersion, TableConflicts, CreateTable, Stamp, OwnerConflicts,
         AssignOwner, Fail, AtTable, Upgraded, At, Creates, PlacedAt, Slugged, CreateSteps
<1> QED
  BY <1>2, <1>3 DEF Moves

LEMMA PlacedStep ==
    TypeOK /\ Placed /\ [Next]_vars => Placed'
<1> SUFFICES ASSUME TypeOK, Placed, [Next]_vars PROVE Placed'
  OBVIOUS
<1>1. ASSUME NEW s \in Scripts, ScriptStep(s) PROVE Placed'
  <2>1. PlacedAt(script[s].pc, script[s].job)
    BY DEF Placed
  <2>2. PlacedAt(script'[s].pc, script'[s].job)
    <3>1. CASE Moves(s)
      BY <3>1, MovesPlaced, GotoEffect, TypeParts
    <3>2. CASE Start(s)
      BY <3>2, StartRecord DEF PlacedAt, Slugged, CreateSteps
    <3>3. CASE Exit(s)
      BY <3>3, ExitRecord DEF PlacedAt, Slugged, CreateSteps
    <3>4. CASE ReadSlugs(s)
      BY <2>1, <3>4, ReadSlugsRecord DEF ReadSlugs, At, PlacedAt, Slugged, CreateSteps
    <3>5. CASE NextSlug(s)
      BY <2>1, <3>5, NextSlugRecord DEF NextSlug, At, PlacedAt, Slugged, CreateSteps
    <3>6. CASE CreateOwner(s)
      BY <2>1, <3>6, CreateOwnerRecord DEF CreateOwner, At, PlacedAt, Slugged, CreateSteps
    <3> QED
      BY <1>1, <3>1, <3>2, <3>3, <3>4, <3>5, <3>6 DEF ScriptStep, Run, Moves, Migrate, Seed
  <2> QED
    BY <1>1, <2>2, OneScriptMoves DEF Placed, PlacedAt
<1>2. CASE (\E t \in Tenants : Visit(t)) \/ UNCHANGED vars
  BY <1>2 DEF Visit, vars, scriptVars, Placed, PlacedAt
<1> QED
  BY <1>1, <1>2 DEF Next, ScriptStep
-----------------------------------------------------------------------------
(* The registry's version.                                                 *)

LEMMA RegistryStep ==
    ASSUME TypeOK, Unversioned, [Next]_vars
    PROVE  Unversioned'
<1> USE TypeParts
<1>1. ASSUME NEW s \in Scripts, ScriptStep(s)
      PROVE  HasTenants' /\ "stamp" \notin registrySchema' /\ script'[s].pc # "stamp_registry"
  <2>1. CASE CreateRegistryTable(s)
    <3>1. At(s, "create_all") \/ At(s, "create_others") \/ At(s, "create_last")
      BY <2>1 DEF CreateRegistryTable, AtRegistryTable, RegistryTable, Unversioned, HasTenants, At
    <3>2. Creates(s)
      BY <3>1 DEF Held, At, CreateSteps
    <3>3. Built(s) \in ScriptPC /\ Built(s) # "stamp_registry" /\ Goto(s, Built(s))
      BY <2>1, <3>1, <3>2, Steps DEF CreateRegistryTable, Built, At, CreateSteps
    <3>4. RegistryTable(s) # "stamp" /\ registrySchema' = registrySchema \cup {RegistryTable(s)}
      BY <2>1 DEF CreateRegistryTable, RegistryTable
    <3> QED
      BY <3>3, <3>4, GotoEffect DEF Unversioned, HasTenants
  <2>2. CASE Moves(s) /\ ~CreateRegistryTable(s)
    <3>1. \E step \in ScriptPC \ {"stamp_registry"} : Goto(s, step) /\ UNCHANGED registrySchema
      BY <2>2, Steps, Tables
         DEF Unversioned, Moves, Build, InspectRegistry, ReadRegistryVersion,
             RegistryConflicts, StampRegistry, Register, FindsSlug,
             CheckSlug, SlugConflicts, InsertTenant, NoRegistry, AllMigrated, Upgrade,
             ReadVersion, TableConflicts, CreateTable, Stamp, OwnerConflicts,
             AssignOwner, Fail, Upgraded, Slugged, CreateSteps, schemaVars
    <3> QED
      BY <3>1, GotoEffect DEF Unversioned, HasTenants
  <2>3. CASE Start(s) \/ Exit(s) \/ ReadSlugs(s) \/ NextSlug(s) \/ CreateOwner(s)
    BY <2>3, StartRecord, ExitRecord, ReadSlugsRecord, NextSlugRecord, CreateOwnerRecord
       DEF schemaVars, Unversioned, HasTenants
  <2> QED
    BY <1>1, <2>1, <2>2, <2>3 DEF ScriptStep, Run, Moves, Migrate, Seed
<1>2. CASE \E s \in Scripts : ScriptStep(s)
  BY <1>1, <1>2, OneScriptMoves DEF Unversioned, HasTenants, At
<1>3. CASE (\E t \in Tenants : Visit(t)) \/ UNCHANGED vars
  BY <1>3 DEF Visit, vars, scriptVars, schemaVars, Unversioned, HasTenants, At
<1> QED
  BY <1>2, <1>3 DEF Next, ScriptStep

(* A registry table without a version never gets one, whatever is run.     *)
THEOREM UnversionedStays == Spec => UnversionedForGood
<1>1. TypeOK /\ [Next]_vars => (Unversioned => Unversioned')
  BY RegistryStep
<1>2. TypeOK /\ [Next]_vars => [Unversioned => Unversioned']_vars
  BY <1>1
<1> QED
  BY <1>2, ScriptsTyped, PTL DEF Spec, UnversionedForGood
-----------------------------------------------------------------------------
(* Half-migrated databases: users is always the first table.               *)
UsersFirst == \A t \in Tenants : tables[t] # {} => "users" \in tables[t]

Upgrades == {"create_memberships", "stamp"}

LEMMA CreateTableEffect ==
    ASSUME TypeOK, NEW s \in Scripts, CreateTable(s)
    PROVE  /\ Slug(s) \in Tenants /\ UNCHANGED stamped
           /\ \A t \in Tenants : t # Slug(s) => tables'[t] = tables[t]
           /\ script'[s].slug = script[s].slug
           /\ \/ /\ At(s, "create_users") /\ "users" \notin tables[Slug(s)]
                 /\ tables'[Slug(s)] = tables[Slug(s)] \cup {"users"}
              \/ At(s, "create_memberships")
                 /\ tables'[Slug(s)] = tables[Slug(s)] \cup {"memberships"}
<1> USE TypeParts
<1>1. Slug(s) \in Tenants
  BY Tables DEF CreateTable, AtTable, Held, Slugged, Slug, Script
<1>2. script[s].pc = "create_users" \/ script[s].pc = "create_memberships"
  BY Tables DEF CreateTable, AtTable
<1>3. \E step \in ScriptPC : Goto(s, step)
  BY DEF CreateTable, ScriptPC, TableOf
<1> QED
  BY <1>1, <1>2, <1>3, GotoEffect, Tables
     DEF CreateTable, AddTable, TableExists, At, DataTypeOK, schemaVars

LEMMA HalfMigratedStep ==
    ASSUME TypeOK, UpgradeProgress, UsersFirst, NEW s \in Scripts, ScriptStep(s)
    PROVE  /\ UsersFirst'
           /\ \A t \in Tenants : HalfMigrated(t) => HalfMigrated(t)'
<1> USE TypeParts
<1>1. CASE CreateTable(s)
  <2>1. UsersFirst'
    BY <1>1, CreateTableEffect DEF UsersFirst, UpgradeProgress, DataTypeOK
  <2>2. ASSUME NEW t \in Tenants, HalfMigrated(t) PROVE t # Slug(s)
    BY <1>1, <2>2, CreateTableEffect DEF HalfMigrated, Upgrading, UsersFirst, At
  <2>3. ASSUME NEW t \in Tenants, HalfMigrated(t) PROVE HalfMigrated(t)'
    <3>1. tables'[t] = tables[t] /\ stamped' = stamped
      BY <1>1, <2>2, <2>3, CreateTableEffect
    <3>2. ~Upgrading(t)'
      BY <1>1, <2>2, <2>3, CreateTableEffect, OneScriptMoves
         DEF ScriptStep, Run, Upgrade, HalfMigrated, Upgrading, Slug
    <3> QED
      BY <2>3, <3>1, <3>2 DEF HalfMigrated
  <2> QED
    BY <2>1, <2>3
<1>2. CASE Stamp(s)
  <2>1. PICK step \in ScriptPC \ InUpgrade : Goto(s, step)
    BY <1>2 DEF Stamp, Upgraded, ScriptPC, CreateSteps, InUpgrade, TableOf
  <2>2. tables' = tables /\ stamped' = stamped \cup {Slug(s)}
    BY <1>2 DEF Stamp, dataVars
  <2>3. \A r \in Scripts : script'[r] = script[r] \/ script'[r].pc \notin InUpgrade
    BY <2>1, GotoEffect
  <2> QED
    BY <1>2, <2>2, <2>3 DEF Stamp, At, UsersFirst, HalfMigrated, Upgrading, Slug, InUpgrade
<1>3. CASE Start(s) \/ Build(s) \/ Register(s) \/ Migrate(s) \/ ReadVersion(s)
           \/ TableConflicts(s) \/ Seed(s) \/ Exit(s) \/ Fail(s)
  <2>1. /\ UNCHANGED <<tables, stamped>>
        /\ \A r \in Scripts : script'[r] = script[r] \/ script'[r].pc \notin InUpgrade
    BY <1>3, OutsideUpgrade
  <2> QED
    BY <2>1 DEF UsersFirst, HalfMigrated, Upgrading, Slug, InUpgrade
<1> QED
  BY <1>1, <1>2, <1>3 DEF ScriptStep, Run, Upgrade

LEMMA HalfMigratedNext ==
    TypeOK /\ UpgradeProgress /\ UsersFirst /\ [Next]_vars
        => UsersFirst' /\ \A t \in Tenants : HalfMigrated(t) => HalfMigrated(t)'
<1> SUFFICES ASSUME TypeOK, UpgradeProgress, UsersFirst, [Next]_vars
             PROVE  UsersFirst' /\ \A t \in Tenants : HalfMigrated(t) => HalfMigrated(t)'
  OBVIOUS
<1>1. CASE \E s \in Scripts : ScriptStep(s)
  BY <1>1, HalfMigratedStep
<1>2. CASE (\E t \in Tenants : Visit(t)) \/ UNCHANGED vars
  BY <1>2 DEF Visit, vars, dataVars, scriptVars, schemaVars, UsersFirst, HalfMigrated,
              Upgrading, Slug
<1> QED
  BY <1>1, <1>2 DEF Next, ScriptStep

(* An upgrade killed between its commits is never finished by another.     *)
THEOREM HalfMigratedStays == Spec => HalfMigratedForGood
<1>1. Init => UpgradeProgress /\ StampMeansTables /\ UsersFirst
  BY DEF Init, ScriptInit, UpgradeProgress, StampMeansTables, TableNames, NoJob, Job, At,
         UsersFirst
<1>2. TypeOK /\ UpgradeProgress /\ UsersFirst /\ [Next]_vars
        => [\A t \in Tenants : HalfMigrated(t) => HalfMigrated(t)']_vars
  BY HalfMigratedNext
<1>3. TypeOK /\ UpgradeProgress /\ StampMeansTables /\ UsersFirst /\ [Next]_vars
        => UpgradeProgress' /\ StampMeansTables' /\ UsersFirst'
  BY HalfMigratedNext, StampStep
<1> QED
  BY <1>1, <1>2, <1>3, ScriptsTyped, PTL DEF Spec, HalfMigratedForGood
-----------------------------------------------------------------------------
(* The seeding of the owner, from the registration on.                     *)
SeedSteps == Slugged \cup {"create_owner", "assign_owner"}
Seeds(s) == Creates(s) /\ script[s].pc \in SeedSteps

LEMMA SeedingIsSeeds == \A t : Seeding(t) <=> \E s \in Scripts : Seeds(s) /\ Slug(s) = t
BY DEF Seeding, Seeds, SeedSteps, Slugged, TableOf

(* Only InsertTenant makes a seeding script.                               *)
LEMMA SeedsBegin ==
    ASSUME TypeOK, Placed, NEW s \in Scripts, ScriptStep(s), Seeds(s)'
    PROVE  script'[s].slug = script[s].slug /\ (Seeds(s) \/ InsertTenant(s))
<1> USE TypeParts
<1>1. PlacedAt(script[s].pc, script[s].job)
  BY DEF Placed
<1>2. CASE InsertTenant(s)
  BY <1>2, MovesGoto, GotoEffect DEF Moves, Register
<1>3. CASE Moves(s) /\ ~InsertTenant(s)
  <2>1. PICK step \in ScriptPC :
          /\ Goto(s, step)
          /\ step \in SeedSteps => script[s].pc \in SeedSteps \/ ~Creates(s)
    BY <1>1, <1>3, Steps, Tables
       DEF PlacedAt, Creates, Moves, Build, InspectRegistry, ReadRegistryVersion, RegistryConflicts,
           CreateRegistryTable, StampRegistry, Register, FindsSlug, CheckSlug, SlugConflicts,
           NoRegistry, AllMigrated, Upgrade, ReadVersion, TableConflicts, CreateTable,
           Stamp, OwnerConflicts, AssignOwner, Fail, Built, Upgraded, AtTable, At,
           Slugged, CreateSteps, SeedSteps
  <2> QED
    BY <2>1, GotoEffect DEF Seeds, Creates
<1>4. CASE Start(s) \/ Exit(s) \/ ReadSlugs(s)
  BY <1>4, StartRecord, ExitRecord, ReadSlugsRecord DEF Seeds, SeedSteps, Slugged, Creates
<1>5. CASE NextSlug(s)
  BY <1>1, <1>5, NextSlugRecord DEF NextSlug, At, PlacedAt, Seeds, Creates
<1>6. CASE CreateOwner(s)
  BY <1>1, <1>6, CreateOwnerRecord
     DEF CreateOwner, At, PlacedAt, CreateSteps, Seeds, SeedSteps, Slug, Creates
<1> QED
  BY <1>3, <1>4, <1>5, <1>6, <1>2 DEF ScriptStep, Run, Moves, Migrate, Seed

(* A tenant is registered once, and nobody but its seeder adds an owner.   *)
LEMMA RegisteredStays ==
    ASSUME TypeOK, [Next]_vars
    PROVE  \A t \in Tenants : Registered(t) => Registered(t)'
<1>1. CASE \E s \in Scripts : InsertTenant(s)
  BY <1>1, TypeParts DEF InsertTenant, Registered, DataTypeOK
<1>2. CASE UNCHANGED registry
  BY <1>2 DEF Registered
<1> QED
  BY <1>1, <1>2
     DEF Next, Start, Run, Build, InspectRegistry, ReadRegistryVersion, RegistryConflicts,
         CreateRegistryTable, StampRegistry, Register, FindsSlug, CheckSlug, SlugConflicts,
         Migrate, NoRegistry, ReadSlugs, NextSlug, AllMigrated, Upgrade, ReadVersion,
         TableConflicts, CreateTable, Stamp, Seed, OwnerConflicts, CreateOwner,
         AssignOwner, Exit, Fail, Visit, vars, dataVars

LEMMA MembershipsStep ==
    ASSUME TypeOK, NEW s \in Scripts, ScriptStep(s), ~AssignOwner(s)
    PROVE  UNCHANGED memberships
BY DEF ScriptStep, Start, Run, Build, InspectRegistry, ReadRegistryVersion, RegistryConflicts,
       CreateRegistryTable, StampRegistry, Register, FindsSlug, CheckSlug, SlugConflicts,
       InsertTenant, Migrate, NoRegistry, ReadSlugs, NextSlug, AllMigrated, Upgrade,
       ReadVersion, TableConflicts, CreateTable, Stamp, Seed, OwnerConflicts, CreateOwner,
       Exit, Fail, dataVars

LEMMA AssignOwnerEffect ==
    ASSUME TypeOK, Placed, NEW s \in Scripts, AssignOwner(s)
    PROVE  /\ Seeds(s) /\ Slug(s) \in Tenants /\ script[s].owner \in UserIds
           /\ \A t \in Tenants : Owners(t)' = IF t = Slug(s) THEN Owners(t) \cup {script[s].owner}
                                                             ELSE Owners(t)
           /\ script'[s].pc = "exit 0" /\ script'[s].slug = script[s].slug
           /\ script'[s].owner = script[s].owner /\ script'[s].email = script[s].email
           /\ script'[s].job = script[s].job
           /\ UNCHANGED <<registry, tables, users, drawn, schemaVars>>
<1> USE TypeParts
<1>1. Seeds(s)
  BY DEF AssignOwner, At, Placed, PlacedAt, CreateSteps, Seeds, SeedSteps, Creates
<1>2. Slug(s) \in Tenants
  BY <1>1 DEF Seeds, Held, Slug, Script
<1>3. script[s].owner \in UserIds
  BY DEF AssignOwner, At, Held, Script
<1>4. memberships' = [memberships EXCEPT ![Slug(s)][script[s].owner] = "OWNER"]
  BY DEF AssignOwner, UpsertMembership
<1>5. "exit 0" \in ScriptPC
  BY Steps
<1>6. \A t \in Tenants, u \in UserIds :
        memberships'[t][u] = IF t = Slug(s) /\ u = script[s].owner
                             THEN "OWNER" ELSE memberships[t][u]
  BY <1>2, <1>3, <1>4 DEF DataTypeOK
<1>7. \A t \in Tenants : Owners(t)' = IF t = Slug(s) THEN Owners(t) \cup {script[s].owner}
                                                     ELSE Owners(t)
  BY <1>3, <1>6 DEF Owners
<1> QED
  BY <1>1, <1>2, <1>3, <1>5, <1>7, GotoEffect DEF AssignOwner, Slug

LEMMA VisitOwners ==
    ASSUME TypeOK, NEW v \in Tenants, Visit(v)
    PROVE  \A t \in Tenants : Owners(t)' \subseteq Owners(t)
<1>1. CASE UNCHANGED memberships
  BY <1>1 DEF Owners
<1>2. CASE \E u \in UserIds : UpsertMembership(v, u, "MEMBER")
  <2>1. PICK u \in UserIds : memberships' = [memberships EXCEPT ![v][u] = "MEMBER"]
    BY <1>2 DEF UpsertMembership
  <2>2. \A t \in Tenants, w \in UserIds :
          memberships'[t][w] = "MEMBER" \/ memberships'[t][w] = memberships[t][w]
    BY <2>1, TypeParts DEF DataTypeOK
  <2> QED
    BY <2>2 DEF Owners
<1> QED
  BY <1>1, <1>2 DEF Visit

LEMMA AbandonedStep ==
    ASSUME TypeOK, Placed, [Next]_vars
    PROVE  \A t \in Tenants : Abandoned(t) => Abandoned(t)'
<1> SUFFICES ASSUME NEW t \in Tenants, Abandoned(t) PROVE Abandoned(t)'
  OBVIOUS
<1>1. Registered(t)'
  BY RegisteredStays DEF Abandoned
<1>2. ASSUME NEW s \in Scripts, ScriptStep(s)
      PROVE  Owners(t)' = {} /\ ~Seeding(t)'
  <2>1. Owners(t)' = {}
    <3>1. CASE AssignOwner(s)
      BY <3>1, AssignOwnerEffect, SeedingIsSeeds DEF Abandoned
    <3>2. CASE ~AssignOwner(s)
      BY <1>2, <3>2, MembershipsStep DEF Abandoned, Owners
    <3> QED
      BY <3>1, <3>2
  <2>2. ASSUME NEW r \in Scripts, Seeds(r)', Slug(r)' = t PROVE FALSE
    <3>1. CASE r = s
      <4>1. script'[s].slug = script[s].slug /\ (Seeds(s) \/ InsertTenant(s))
        BY <1>2, <2>2, <3>1, SeedsBegin
      <4> QED
        BY <2>2, <3>1, <4>1, SeedingIsSeeds DEF InsertTenant, SlugTaken, Abandoned, Slug
    <3>2. CASE r # s
      BY <1>2, <2>2, <3>2, OneScriptMoves, SeedingIsSeeds
         DEF Abandoned, Seeds, Creates, Slug
    <3> QED
      BY <3>1, <3>2
  <2>3. ~Seeding(t)'
    BY <2>2 DEF Seeding, Seeds, SeedSteps, Slugged, TableOf, Slug, Creates
  <2> QED
    BY <2>1, <2>3
<1>3. CASE (\E v \in Tenants : Visit(v)) \/ UNCHANGED vars
  <2>1. Owners(t)' \subseteq Owners(t) /\ UNCHANGED script
    BY <1>3, VisitOwners DEF Visit, Owners, vars, dataVars, scriptVars
  <2> QED
    BY <1>1, <2>1 DEF Abandoned, Seeding, Slug, Creates
<1> QED
  BY <1>1, <1>2, <1>3 DEF Next, ScriptStep, Abandoned

LEMMA PlacedFirst == Init => Placed
BY DEF Init, ScriptInit, NoJob, Job, Placed, PlacedAt, Slugged, CreateSteps

(* A tenant whose creator is gone before it seeded an owner never gets one *)
(* by any script.                                                          *)
THEOREM AbandonedStays == Spec => AbandonedForGood
<1>1. TypeOK /\ Placed /\ [Next]_vars => [\A t \in Tenants : Abandoned(t) => Abandoned(t)']_vars
  BY AbandonedStep
<1> QED
  BY <1>1, PlacedFirst, PlacedStep, ScriptsTyped, PTL DEF Spec, AbandonedForGood
-----------------------------------------------------------------------------
(* At most one script ever seeds a tenant: registered before it, without   *)
(* an owner until it is done.                                              *)
OneSeeder ==
    /\ \A t \in Tenants : Owners(t) # {} => Registered(t)
    /\ \A s \in Scripts : Seeds(s) => Registered(Slug(s)) /\ Owners(Slug(s)) = {}
    /\ \A r, s \in Scripts : Seeds(r) /\ Seeds(s) /\ Slug(r) = Slug(s) => r = s

LEMMA SeedsHaveTenant ==
    ASSUME TypeOK, NEW s \in Scripts, Seeds(s)
    PROVE  Slug(s) \in Tenants
BY TypeParts DEF Seeds, Held, Slug, Script

LEMMA InsertTenantEffect ==
    ASSUME TypeOK, Placed, NEW s \in Scripts, InsertTenant(s)
    PROVE  /\ Slug(s) \in Tenants /\ ~Registered(Slug(s)) /\ Registered(Slug(s))'
           /\ Slug(s)' = Slug(s) /\ UNCHANGED memberships
<1>1. Slug(s) \in Tenants
  BY TypeParts DEF InsertTenant, At, Placed, PlacedAt, CreateSteps, Held, Creates, Slug, Script
<1>2. Slug(s)' = Slug(s)
  BY MovesGoto, GotoEffect, TypeParts DEF Moves, Register, Slug
<1>3. registry' = [registry EXCEPT ![Slug(s)] = "active"] /\ ~Registered(Slug(s))
      /\ UNCHANGED memberships
  BY DEF InsertTenant, SlugTaken
<1>4. registry'[Slug(s)] = "active"
  BY <1>1, <1>3, TypeParts DEF DataTypeOK
<1> QED
  BY <1>1, <1>2, <1>3, <1>4 DEF Registered

LEMMA OneSeederStep ==
    TypeOK /\ Placed /\ OneSeeder /\ OneOwner /\ [Next]_vars => OneSeeder' /\ OneOwner'
<1> SUFFICES ASSUME TypeOK, Placed, OneSeeder, OneOwner, [Next]_vars
             PROVE  OneSeeder' /\ OneOwner'
  OBVIOUS
<1>1. ASSUME NEW s \in Scripts, ScriptStep(s) PROVE OneSeeder' /\ OneOwner'
  <2>1. CASE AssignOwner(s)
    <3>1. Seeds(s) /\ Owners(Slug(s)) = {} /\ Registered(Slug(s))
      BY <2>1, AssignOwnerEffect DEF OneSeeder
    <3>2. ~Seeds(s)'
      BY <2>1, AssignOwnerEffect DEF Seeds, SeedSteps, Slugged
    <3>3. \A r \in Scripts : Seeds(r)' => r # s /\ Seeds(r) /\ Slug(r)' = Slug(r)
      BY <1>1, <3>2, OneScriptMoves DEF Seeds, Creates, Slug
    <3>4. \A r \in Scripts : Seeds(r)' => Slug(r) # Slug(s)
      BY <3>1, <3>3 DEF OneSeeder
    <3>5. \A r \in Scripts : Seeds(r)' => Slug(r) \in Tenants
      BY <3>3, SeedsHaveTenant
    <3>6. \A t \in Tenants : t # Slug(s) => Owners(t)' = Owners(t)
      BY <2>1, AssignOwnerEffect
    <3>7. /\ Slug(s) \in Tenants
          /\ \A t \in Tenants : t = Slug(s) => Owners(t)' = {script[s].owner}
      BY <2>1, <3>1, AssignOwnerEffect
    <3>8. \A t \in Tenants : Registered(t) => Registered(t)'
      BY RegisteredStays
    <3>9. \A r \in Scripts : Seeds(r)' => Registered(Slug(r))' /\ Owners(Slug(r))' = {}
      BY <3>3, <3>4, <3>5, <3>6, <3>8 DEF OneSeeder
    <3>10. OneOwner'
      <4> SUFFICES ASSUME NEW t \in Tenants, NEW u \in Owners(t)', NEW v \in Owners(t)'
                   PROVE  u = v
        BY DEF OneOwner
      <4> QED
        BY <3>6, <3>7 DEF OneOwner
    <3> QED
      BY <3>1, <3>3, <3>6, <3>8, <3>9, <3>10 DEF OneSeeder
  <2>2. CASE ~AssignOwner(s)
    <3>1. \A t : Owners(t)' = Owners(t)
      BY <1>1, <2>2, MembershipsStep DEF Owners
    <3>2. \A t \in Tenants : Registered(t) => Registered(t)'
      BY RegisteredStays
    <3>3. \A r \in Scripts : Seeds(r)' =>
            Slug(r)' = Slug(r) /\ (Seeds(r) \/ (r = s /\ InsertTenant(s)))
      <4> SUFFICES ASSUME NEW r \in Scripts, Seeds(r)'
                   PROVE  Slug(r)' = Slug(r) /\ (Seeds(r) \/ (r = s /\ InsertTenant(s)))
        OBVIOUS
      <4>1. CASE r = s
        BY <1>1, <4>1, SeedsBegin DEF Slug, Seeds, Creates
      <4>2. CASE r # s
        BY <1>1, <4>2, OneScriptMoves DEF Seeds, Creates, Slug
      <4> QED
        BY <4>1, <4>2
    <3>4. \A r \in Scripts : Seeds(r)' => Registered(Slug(r))' /\ Owners(Slug(r))' = {}
      BY <3>1, <3>2, <3>3, SeedsHaveTenant, InsertTenantEffect DEF OneSeeder
    <3>5. \A r, q \in Scripts : Seeds(r)' /\ Seeds(q)' /\ Slug(r) = Slug(q) => r = q
      BY <3>3, InsertTenantEffect DEF OneSeeder
    <3> QED
      BY <3>1, <3>2, <3>3, <3>4, <3>5 DEF OneSeeder, OneOwner
  <2> QED
    BY <2>1, <2>2
<1>2. CASE (\E t \in Tenants : Visit(t)) \/ UNCHANGED vars
  <2>1. \A t \in Tenants : Owners(t)' \subseteq Owners(t)
    BY <1>2, VisitOwners DEF vars, dataVars, Owners
  <2>2. UNCHANGED <<registry, script>>
    BY <1>2 DEF Visit, vars, dataVars, scriptVars
  <2> QED
    BY <2>1, <2>2, SeedsHaveTenant DEF OneSeeder, OneOwner, Seeds, Creates, Slug, Registered
<1> QED
  BY <1>1, <1>2 DEF Next, ScriptStep

(* Whatever scripts and visitors do at once, no tenant ever has two        *)
(* owners.                                                                 *)
THEOREM OwnersAreUnique == Spec => []OneOwner
<1>1. Init => OneSeeder /\ OneOwner
  BY NoneAssumption
     DEF Init, ScriptInit, NoJob, Job, OneSeeder, OneOwner, Owners, Seeds, Creates, Commands,
         NoJobAssumption, Role, SeedSteps, Slugged
<1> QED
  BY <1>1, OneSeederStep, PlacedFirst, PlacedStep, ScriptsTyped, PTL DEF Spec
-----------------------------------------------------------------------------
(* What each script has done by the step it has come to: what makes "exit  *)
(* 0 means done" inductive.                                                *)
SeededFor(x) ==
    /\ x.slug \in stamped /\ x.owner \in UserIds
    /\ UserExists(x.slug, x.owner) /\ users[x.slug][x.owner].email = x.email

DidBy(x) ==
    /\ x.pc \in {"create_owner", "assign_owner"} => x.slug \in stamped
    /\ x.pc = "assign_owner" => SeededFor(x)
    /\ x.pc = "exit 0" /\ x.job = "create"
           => SeededFor(x) /\ memberships[x.slug][x.owner] = "OWNER"
    /\ x.pc = "next_slug" => x.slugs \subseteq x.left \cup stamped
    /\ x.pc \in Slugged /\ x.job = "migrate" => x.slugs \subseteq x.left \cup {x.slug} \cup stamped
    /\ x.pc = "exit 0" /\ x.job = "migrate" => x.slugs \subseteq stamped
    /\ x.pc = "exit 0" /\ x.job = "upgrade" => x.slug \in stamped
    /\ x.pc = "stamp_registry" => "tenants" \in registrySchema
    /\ x.pc = "exit 0" /\ x.job = "registry" => {"tenants", "stamp"} \subseteq registrySchema

Did == \A s \in Scripts : DidBy(script[s])

(* What the store never loses to a script or a visitor.                    *)
Drawn == \A t \in Tenants, u \in UserIds : UserExists(t, u) => u \in drawn
Versioned == "stamp" \in registrySchema => "tenants" \in registrySchema

Keeps ==
    /\ stamped \subseteq stamped' /\ registrySchema \subseteq registrySchema'
    /\ \A t \in Tenants, u \in UserIds : UserExists(t, u) =>
           /\ users'[t][u] = users[t][u]
           /\ memberships[t][u] = "OWNER" => memberships'[t][u] = "OWNER"

LEMMA SchemaStep ==
    ASSUME TypeOK, Did, Versioned, [Next]_vars
    PROVE  stamped \subseteq stamped' /\ registrySchema \subseteq registrySchema' /\ Versioned'
<1>1. CASE \E s \in Scripts : CreateRegistryTable(s) \/ StampRegistry(s)
  BY <1>1 DEF CreateRegistryTable, StampRegistry, RegistryTable, At, Did, DidBy, Versioned
<1>2. CASE \E s \in Scripts : Stamp(s)
  BY <1>2 DEF Stamp, Versioned
<1>3. CASE UNCHANGED schemaVars
  BY <1>3 DEF schemaVars, Versioned
<1> QED
  BY <1>1, <1>2, <1>3
     DEF Next, Start, Run, Build, InspectRegistry, ReadRegistryVersion, RegistryConflicts,
         Register, FindsSlug, CheckSlug, SlugConflicts, InsertTenant, Migrate, NoRegistry,
         ReadSlugs, NextSlug, AllMigrated, Upgrade, ReadVersion, TableConflicts,
         CreateTable, Seed, OwnerConflicts, CreateOwner, AssignOwner, Exit, Fail, Visit,
         vars, scriptVars, schemaVars

LEMMA UsersStep ==
    ASSUME TypeOK, Drawn, NEW t \in Tenants, NEW u \in UserIds, NEW row \in UserRow,
           GenerateId(u), AddUser(t, u, row)
    PROVE  /\ Drawn' /\ users'[t][u] = row
           /\ \A v \in Tenants, w \in UserIds : UserExists(v, w) =>
                  users'[v][w] = users[v][w] /\ w # u
<1> USE TypeParts
<1>1. \A v \in Tenants, w \in UserIds :
        users'[v][w] = IF v = t /\ w = u THEN row ELSE users[v][w]
  BY DEF AddUser, DataTypeOK
<1> QED
  BY <1>1 DEF Drawn, GenerateId, UserExists

LEMMA OtherUsersStep ==
    ASSUME TypeOK, NEW s \in Scripts, ScriptStep(s), ~CreateOwner(s)
    PROVE  UNCHANGED <<users, drawn>>
BY DEF ScriptStep, Start, Run, Build, InspectRegistry, ReadRegistryVersion, RegistryConflicts,
       CreateRegistryTable, StampRegistry, Register, FindsSlug, CheckSlug, SlugConflicts,
       InsertTenant, Migrate, NoRegistry, ReadSlugs, NextSlug, AllMigrated, Upgrade,
       ReadVersion, TableConflicts, CreateTable, Stamp, Seed, OwnerConflicts, AssignOwner,
       Exit, Fail, dataVars

(* What the creator of an owner has in hand.                               *)
LEMMA CreatorHas ==
    ASSUME TypeOK, Placed, NEW s \in Scripts, CreateOwner(s)
    PROVE  /\ Seeds(s) /\ Slug(s) \in Tenants
           /\ script[s].email \in Emails /\ script[s].password \in Passwords
<1>1. At(s, "create_owner") /\ Creates(s)
  BY DEF CreateOwner, At, Placed, PlacedAt, CreateSteps, Creates
<1> QED
  BY <1>1, TypeParts DEF Seeds, SeedSteps, At, Held, Script, Slug

(* Only who has created an owner comes to assigning its role.              *)
LEMMA AssignmentBegins ==
    ASSUME TypeOK, NEW s \in Scripts, ScriptStep(s), script'[s].pc = "assign_owner"
    PROVE  CreateOwner(s)
<1>1. CASE Moves(s)
  <2>1. \E step \in ScriptPC : Goto(s, step) /\ step # "assign_owner"
    BY <1>1, Steps, Tables
       DEF Moves, Build, InspectRegistry, ReadRegistryVersion, RegistryConflicts,
           CreateRegistryTable, StampRegistry, Register, FindsSlug, CheckSlug, SlugConflicts,
           InsertTenant, NoRegistry, AllMigrated, Upgrade, ReadVersion, TableConflicts,
           CreateTable, Stamp, OwnerConflicts, AssignOwner, Fail, Built, Upgraded,
           Slugged, CreateSteps
  <2> QED
    BY <2>1, GotoEffect, TypeParts
<1>2. CASE Start(s) \/ Exit(s) \/ ReadSlugs(s) \/ NextSlug(s)
  BY <1>2, StartRecord, ExitRecord, ReadSlugsRecord, NextSlugRecord
<1> QED
  BY <1>1, <1>2 DEF ScriptStep, Run, Moves, Migrate, Seed

LEMMA OwnerCreated ==
    ASSUME TypeOK, Placed, Drawn, NEW s \in Scripts, CreateOwner(s)
    PROVE  /\ Drawn' /\ UNCHANGED <<memberships, schemaVars>>
           /\ \A v \in Tenants, w \in UserIds : UserExists(v, w) => users'[v][w] = users[v][w]
           /\ \E u \in UserIds :
                /\ script'[s].owner = u /\ UserExists(script[s].slug, u)'
                /\ users'[script[s].slug][u].email = script[s].email
           /\ script'[s].pc = "assign_owner" /\ script'[s].slug = script[s].slug
           /\ script'[s].job = script[s].job /\ script'[s].email = script[s].email
           /\ script[s].pc = "create_owner" /\ script[s].job = "create"
<1> USE TypeParts
<1>1. script[s].pc = "create_owner" /\ script[s].job = "create"
  BY DEF CreateOwner, At, Placed, PlacedAt, CreateSteps
<1>2. Slug(s) \in Tenants /\ script[s].email \in Emails /\ script[s].password \in Passwords
  BY <1>1 DEF Held, Creates, Slug, Script
<1>3. PICK u \in UserIds :
        /\ GenerateId(u)
        /\ AddUser(Slug(s), u, NewUser(script[s].email, script[s].password))
        /\ UNCHANGED <<registry, tables, memberships, schemaVars>>
        /\ script'[s].pc = "assign_owner" /\ script'[s].owner = u
        /\ script'[s].job = script[s].job /\ script'[s].slug = script[s].slug
        /\ script'[s].email = script[s].email
  BY CreateOwnerRecord
<1>4. PICK row : row = NewUser(script[s].email, script[s].password)
  OBVIOUS
<1>5. row \in UserRow /\ row.email = script[s].email
  BY <1>2, <1>4, DigestAssumption DEF NewUser, UserRow
<1>6. /\ Drawn' /\ users'[Slug(s)][u] = row
      /\ \A v \in Tenants, w \in UserIds : UserExists(v, w) => users'[v][w] = users[v][w]
  BY <1>2, <1>3, <1>4, <1>5, UsersStep
<1>7. row # None
  BY <1>5, NoneAssumption
<1> QED
  BY <1>1, <1>3, <1>5, <1>6, <1>7 DEF UserExists, Slug

LEMMA VisitKeeps ==
    ASSUME TypeOK, Drawn, NEW t \in Tenants, Visit(t)
    PROVE  Drawn' /\ Keeps /\ UNCHANGED <<script, schemaVars>>
<1> USE TypeParts
<1>1. PICK u \in UserIds, e \in Emails, p \in Passwords :
        /\ Canonical[e] # None /\ GenerateId(u)
        /\ AddUser(t, u, NewUser(Canonical[e], p))
        /\ UpsertMembership(t, u, "MEMBER") \/ UNCHANGED memberships
  BY DEF Visit
<1>2. NewUser(Canonical[e], p) \in UserRow
  BY <1>1, CanonicalAssumption, DigestAssumption DEF NewUser, UserRow
<1>3. Drawn' /\ \A v \in Tenants, w \in UserIds : UserExists(v, w) =>
                    users'[v][w] = users[v][w] /\ w # u
  BY <1>1, <1>2, UsersStep
<1>4. \A v \in Tenants, w \in UserIds : w # u => memberships'[v][w] = memberships[v][w]
  BY <1>1 DEF UpsertMembership, DataTypeOK
<1> QED
  BY <1>3, <1>4 DEF Visit, Keeps, scriptVars, schemaVars

LEMMA NextKeeps ==
    ASSUME TypeOK, Placed, Did, Versioned, Drawn, NEW s \in Scripts, ScriptStep(s)
    PROVE  Keeps /\ Drawn' /\ Versioned'
<1> USE TypeParts
<1>1. stamped \subseteq stamped' /\ registrySchema \subseteq registrySchema' /\ Versioned'
  BY SchemaStep DEF Next, ScriptStep
<1>2. CASE CreateOwner(s)
  BY <1>1, <1>2, OwnerCreated DEF Keeps
<1>3. CASE AssignOwner(s)
  <2>1. \A t \in Tenants : Owners(t) \subseteq Owners(t)'
    BY <1>3, AssignOwnerEffect
  <2>2. UNCHANGED <<users, drawn>>
    BY <1>3 DEF AssignOwner
  <2> QED
    BY <1>1, <2>1, <2>2 DEF Keeps, Drawn, Owners, UserExists
<1>4. CASE ~CreateOwner(s) /\ ~AssignOwner(s)
  BY <1>1, <1>4, OtherUsersStep, MembershipsStep DEF Keeps, Drawn, UserExists
<1> QED
  BY <1>2, <1>3, <1>4

LEMMA DidKept ==
    ASSUME TypeOK, TypeOK', Placed, Did, Keeps, NEW r \in Scripts, script'[r] = script[r]
    PROVE  DidBy(script[r])'
<1> USE TypeParts
<1>1. script[r] \in Script /\ DidBy(script[r]) /\ PlacedAt(script[r].pc, script[r].job)
  BY DEF Did, Placed
<1>2. SeededFor(script[r]) /\ script[r].slug \in Tenants
        => SeededFor(script[r])'
           /\ (memberships[script[r].slug][script[r].owner] = "OWNER"
                => memberships'[script[r].slug][script[r].owner] = "OWNER")
  BY DEF SeededFor, Keeps, UserExists
<1>3. SeededFor(script[r]) => script[r].slug \in Tenants
  BY DEF SeededFor
<1>4. {"tenants", "stamp"} \subseteq registrySchema => {"tenants", "stamp"} \subseteq registrySchema'
  BY DEF Keeps
<1> QED
  BY <1>1, <1>2, <1>3, <1>4 DEF DidBy, Keeps

(* An upgrade that is over leaves the tenant in hand stamped.              *)
LEMMA UpgradedDid ==
    ASSUME TypeOK, Placed, Did, NEW s \in Scripts, Goto(s, Upgraded(s)),
           script[s].pc \in Slugged, script[s].slug \in stamped', stamped \subseteq stamped'
    PROVE  DidBy(script[s])'
<1> USE TypeParts
<1>1. script[s].job \in {"create", "migrate", "upgrade"} /\ DidBy(script[s])
  BY DEF Placed, PlacedAt, Did
<1>2. /\ script[s].job = "create" => Upgraded(s) = "create_owner"
      /\ script[s].job = "migrate" => Upgraded(s) = "next_slug"
      /\ script[s].job = "upgrade" => Upgraded(s) = "exit 0"
  BY DEF Upgraded, Creates
<1>3. Upgraded(s) \in ScriptPC
  BY <1>1, <1>2, Steps DEF CreateSteps
<1>4. /\ script'[s].pc = Upgraded(s) /\ script'[s].job = script[s].job
      /\ script'[s].slug = script[s].slug
      /\ script'[s].slugs = script[s].slugs /\ script'[s].left = script[s].left
  BY <1>3, GotoEffect
<1>5. CASE script[s].job = "migrate"
  <2>1. script[s].slugs \subseteq script[s].left \cup {script[s].slug} \cup stamped
    BY <1>1, <1>5 DEF DidBy
  <2> QED
    BY <1>2, <1>4, <1>5, <2>1 DEF DidBy, Slugged
<1>6. CASE script[s].job = "create" \/ script[s].job = "upgrade"
  BY <1>2, <1>4, <1>6 DEF DidBy, Slugged
<1> QED
  BY <1>1, <1>5, <1>6

LEMMA MovesDid ==
    ASSUME TypeOK, Placed, Did, Versioned, Keeps, NEW s \in Scripts, Moves(s)
    PROVE  DidBy(script[s])'
<1> USE TypeParts
<1>1. DidBy(script[s]) /\ PlacedAt(script[s].pc, script[s].job)
  BY DEF Did, Placed
<1>2. ASSUME NEW step \in ScriptPC, Goto(s, step),
             step \notin Slugged \cup {"create_owner", "assign_owner", "exit 0", "next_slug",
                                       "stamp_registry"}
      PROVE  DidBy(script[s])'
  BY <1>2, GotoEffect DEF DidBy
<1>3. CASE InspectRegistry(s) \/ RegistryConflicts(s) \/ FindsSlug(s) \/ CheckSlug(s)
           \/ SlugConflicts(s) \/ NoRegistry(s) \/ TableConflicts(s) \/ OwnerConflicts(s)
           \/ Fail(s)
  BY <1>2, <1>3, Steps
     DEF InspectRegistry, RegistryConflicts, FindsSlug, CheckSlug, SlugConflicts, NoRegistry,
         TableConflicts, OwnerConflicts, Fail, Slugged, CreateSteps
<1>4. CASE CreateRegistryTable(s)
  <2>1. Goto(s, Built(s)) /\ RegistryTable(s) \in registrySchema' /\ AtRegistryTable(s)
    BY <1>4 DEF CreateRegistryTable
  <2>2. CASE Built(s) # "stamp_registry"
    BY <1>2, <2>1, <2>2, Steps DEF Built, Slugged, CreateSteps
  <2>3. CASE Built(s) = "stamp_registry"
    <3>1. script'[s].pc = "stamp_registry"
      BY <2>1, <2>3, Steps, GotoEffect
    <3>2. At(s, "create_tenants")
      BY <1>1, <2>1, <2>3 DEF AtRegistryTable, Built, At, Creates, PlacedAt, CreateSteps
    <3> QED
      BY <2>1, <3>1, <3>2 DEF DidBy, Slugged, RegistryTable
  <2> QED
    BY <2>2, <2>3
<1>5. CASE ReadRegistryVersion(s)
  <2>1. CASE "stamp" \in registrySchema
    <3>1. Goto(s, "exit 0") /\ script[s].job = "registry" /\ UNCHANGED registrySchema
      BY <1>1, <1>5, <2>1 DEF ReadRegistryVersion, At, PlacedAt, schemaVars
    <3>2. {"tenants", "stamp"} \subseteq registrySchema'
      BY <2>1, <3>1 DEF Versioned
    <3> QED
      BY <3>1, <3>2, Steps, GotoEffect DEF DidBy, Slugged
  <2>2. CASE "stamp" \notin registrySchema
    BY <1>2, <1>5, <2>2, Steps DEF ReadRegistryVersion, Slugged
  <2> QED
    BY <2>1, <2>2
<1>6. CASE StampRegistry(s)
  <2>1. Goto(s, "exit 0") /\ script[s].job = "registry" /\ "tenants" \in registrySchema
        /\ registrySchema' = registrySchema \cup {"stamp"}
    BY <1>1, <1>6 DEF StampRegistry, At, PlacedAt, DidBy
  <2>2. {"tenants", "stamp"} \subseteq registrySchema'
    BY <2>1
  <2> QED
    BY <2>1, <2>2, Steps, GotoEffect DEF DidBy, Slugged
<1>7. CASE InsertTenant(s)
  <2>1. Goto(s, "read_version") /\ script[s].job = "create"
    BY <1>1, <1>7 DEF InsertTenant, At, PlacedAt, CreateSteps
  <2>2. script'[s].pc = "read_version" /\ script'[s].job = "create"
    BY <2>1, Steps, GotoEffect DEF Slugged
  <2> QED
    BY <2>2 DEF DidBy
<1>8. CASE AllMigrated(s)
  <2>1. Goto(s, "exit 0") /\ script[s].job = "migrate" /\ UNCHANGED stamped
        /\ script[s].slugs \subseteq stamped
    BY <1>1, <1>8 DEF AllMigrated, At, PlacedAt, DidBy, schemaVars
  <2> QED
    BY <2>1, Steps, GotoEffect DEF DidBy, Slugged
<1>9. CASE ReadVersion(s) \/ CreateTable(s) \/ Stamp(s)
  <2>1. script[s].pc \in Slugged
    BY <1>9, Tables DEF ReadVersion, CreateTable, Stamp, At, AtTable, Slugged
  <2>2. ASSUME NEW step \in Slugged, Goto(s, step) PROVE DidBy(script[s])'
    <3>1. /\ script'[s].pc = step /\ script'[s].job = script[s].job
          /\ script'[s].slug = script[s].slug
          /\ script'[s].slugs = script[s].slugs /\ script'[s].left = script[s].left
      BY <2>2, Steps, GotoEffect
    <3>2. script[s].job = "migrate"
            => script[s].slugs \subseteq script[s].left \cup {script[s].slug} \cup stamped
      BY <1>1, <2>1 DEF DidBy
    <3>3. step \notin {"create_owner", "assign_owner", "exit 0", "next_slug", "stamp_registry"}
      BY DEF Slugged
    <3> QED
      BY <3>1, <3>2, <3>3 DEF DidBy, Keeps
  <2>3. CASE ReadVersion(s) /\ Slug(s) \in stamped
    BY <2>1, <2>3, UpgradedDid DEF ReadVersion, Slug, schemaVars
  <2>4. CASE ReadVersion(s) /\ Slug(s) \notin stamped
    BY <2>2, <2>4 DEF ReadVersion, Slugged
  <2>5. CASE CreateTable(s)
    BY <2>2, <2>5 DEF CreateTable, Slugged
  <2>6. CASE Stamp(s)
    BY <2>1, <2>6, UpgradedDid DEF Stamp, Slug
  <2> QED
    BY <1>9, <2>3, <2>4, <2>5, <2>6
<1>10. CASE AssignOwner(s)
  <2>1. script[s].pc = "assign_owner" /\ SeededFor(script[s])
    BY <1>1, <1>10 DEF AssignOwner, At, DidBy
  <2>2. /\ script[s].slug \in Tenants /\ script'[s].pc = "exit 0" /\ script'[s].job = "create"
        /\ script'[s].slug = script[s].slug /\ script'[s].owner = script[s].owner
        /\ script'[s].email = script[s].email /\ UNCHANGED <<users, stamped>>
        /\ script[s].owner \in Owners(script[s].slug)'
    BY <1>1, <1>10, <2>1, AssignOwnerEffect DEF Seeds, Creates, schemaVars, Slug
  <2>3. memberships'[script[s].slug][script[s].owner] = "OWNER"
    BY <2>2 DEF Owners
  <2>4. SeededFor(script[s])'
    BY <2>1, <2>2 DEF SeededFor, UserExists
  <2> QED
    BY <2>2, <2>3, <2>4 DEF DidBy, Slugged
<1> QED
  BY <1>3, <1>4, <1>5, <1>6, <1>7, <1>8, <1>9, <1>10 DEF Moves, Build, Register, Upgrade

LEMMA DidStep ==
    TypeOK /\ TypeOK' /\ Placed /\ Did /\ Versioned /\ Drawn /\ [Next]_vars
        => Did' /\ Versioned' /\ Drawn'
<1> SUFFICES ASSUME TypeOK, TypeOK', Placed, Did, Versioned, Drawn, [Next]_vars
             PROVE  Did' /\ Versioned' /\ Drawn'
  OBVIOUS
<1> USE TypeParts
<1>1. ASSUME NEW s \in Scripts, ScriptStep(s) PROVE Did' /\ Versioned' /\ Drawn'
  <2>1. Keeps /\ Drawn' /\ Versioned'
    BY <1>1, NextKeeps
  <2>2. DidBy(script[s]) /\ PlacedAt(script[s].pc, script[s].job)
    BY DEF Did, Placed
  <2>3. DidBy(script[s])'
    <3>1. CASE Moves(s)
      BY <2>1, <3>1, MovesDid
    <3>2. CASE Start(s)
      BY <3>2, StartRecord DEF DidBy, Slugged
    <3>3. CASE Exit(s)
      BY <3>3, ExitRecord DEF DidBy, Slugged
    <3>4. CASE ReadSlugs(s)
      BY <3>4, ReadSlugsRecord DEF DidBy, Slugged
    <3>5. CASE NextSlug(s)
      <4>1. script[s].slugs \subseteq script[s].left \cup stamped
        BY <2>2, <3>5 DEF NextSlug, At, DidBy
      <4> QED
        BY <3>5, <4>1, NextSlugRecord DEF DidBy, schemaVars
    <3>6. CASE CreateOwner(s)
      <4>1. script[s].slug \in stamped
        BY <2>2, <3>6, OwnerCreated DEF DidBy
      <4>2. SeededFor(script[s])'
        <5>1. PICK u \in UserIds :
                /\ script'[s].owner = u /\ UserExists(script[s].slug, u)'
                /\ users'[script[s].slug][u].email = script[s].email
          BY <3>6, OwnerCreated
        <5>2. script'[s].slug = script[s].slug /\ script'[s].email = script[s].email
              /\ stamped' = stamped
          BY <3>6, OwnerCreated DEF schemaVars
        <5> QED
          BY <4>1, <5>1, <5>2 DEF SeededFor
      <4>3. script'[s].pc = "assign_owner" /\ script'[s].slug \in stamped'
        BY <3>6, <4>1, OwnerCreated DEF schemaVars
      <4> QED
        BY <4>2, <4>3 DEF DidBy, Slugged
    <3> QED
      BY <1>1, <3>1, <3>2, <3>3, <3>4, <3>5, <3>6 DEF ScriptStep, Run, Moves, Migrate, Seed
  <2>4. \A r \in Scripts : r # s => DidBy(script[r])'
    BY <1>1, <2>1, OneScriptMoves, DidKept
  <2> QED
    BY <2>1, <2>3, <2>4 DEF Did
<1>2. CASE \E t \in Tenants : Visit(t)
  <2>1. Drawn' /\ Keeps /\ UNCHANGED <<script, schemaVars>>
    BY <1>2, VisitKeeps
  <2>2. \A r \in Scripts : DidBy(script[r])'
    BY <2>1, DidKept
  <2> QED
    BY <2>1, <2>2 DEF Did, Versioned, schemaVars
<1>3. CASE UNCHANGED vars
  BY <1>3 DEF vars, dataVars, scriptVars, schemaVars, Did, DidBy, SeededFor, UserExists,
              Versioned, Drawn
<1> QED
  BY <1>1, <1>2, <1>3 DEF Next, ScriptStep

(* A command that exits 0 has done what it says, however many ran at once. *)
THEOREM ExitZeroIsDone == Spec => []ExitZeroMeansDone
<1>1. Init => Did /\ Versioned /\ Drawn
  <2> SUFFICES ASSUME Init PROVE Did /\ Versioned /\ Drawn
    OBVIOUS
  <2>1. \A s \in Scripts : script[s].pc = "idle"
    BY DEF Init, ScriptInit, NoJob, Job
  <2>2. Did
    BY <2>1 DEF Did, DidBy, Slugged
  <2> QED
    BY <2>2 DEF Init, ScriptInit, Versioned, Drawn, UserExists
<1>2. TypeOK /\ Did => ExitZeroMeansDone
  <2> SUFFICES ASSUME TypeOK, Did, NEW s \in Scripts, At(s, "exit 0")
               PROVE  /\ Creates(s) => \E u \in Owners(Slug(s)) :
                             /\ Slug(s) \in stamped /\ UserExists(Slug(s), u)
                             /\ users[Slug(s)][u].email = script[s].email
                      /\ script[s].job = "migrate" => script[s].slugs \subseteq stamped
                      /\ script[s].job = "upgrade" => Slug(s) \in stamped
                      /\ script[s].job = "registry" => {"tenants", "stamp"} \subseteq registrySchema
    BY DEF ExitZeroMeansDone
  <2>1. DidBy(script[s]) /\ script[s].pc = "exit 0"
    BY DEF Did, At
  <2>2. ASSUME Creates(s)
        PROVE  \E u \in Owners(Slug(s)) :
                   /\ Slug(s) \in stamped /\ UserExists(Slug(s), u)
                   /\ users[Slug(s)][u].email = script[s].email
    <3>1. SeededFor(script[s]) /\ script[s].owner \in Owners(Slug(s))
      BY <2>1, <2>2 DEF DidBy, Creates, Owners, SeededFor, Slug
    <3> QED
      BY <3>1 DEF SeededFor, Slug
  <2> QED
    BY <2>1, <2>2 DEF DidBy, Slug
<1> QED
  BY <1>1, <1>2, DidStep, PlacedFirst, PlacedStep, ScriptsTyped, PTL DEF Spec
=============================================================================
