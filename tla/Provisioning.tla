---------------------------- MODULE Provisioning ----------------------------
(* The operator's commands on the stored data: create_tenant registers a   *)
(* slug, migrates its database and seeds the owner; migrate_all_tenants    *)
(* migrates the database of every active tenant, migrate-tenant of one;    *)
(* migrate-registry builds the registry.  Each is a process of its own     *)
(* that commits step by step, beside other commands and beside the API.    *)
EXTENDS Repositories, FiniteSets

CONSTANTS
    Scripts,   \* script processes that may run at once
    Jobs,      \* what operators run, of the Commands below
    Faults     \* "error": a script may be killed, or fail, at any step;
               \* "visitor": somebody registers through the API meanwhile

(* make create-tenant, migrate-all, migrate-tenant and migrate-registry.   *)
Commands == {"create", "migrate", "upgrade", "registry"}

ASSUME JobsAssumption  == Jobs \subseteq Commands
ASSUME NoJobAssumption == None \notin Commands

(* The table each migration step creates.  SQLite's DDL is not             *)
(* transactional under Alembic: every CREATE TABLE commits by itself.      *)
TableOf == [create_users |-> "users", create_memberships |-> "memberships"]

(* The tables create_all makes in the registry, all of the models package. *)
RegistryTables == {"memberships", "tenants", "users"}

(* The steps of create_tenant alone.  create_all looks once which tables   *)
(* are missing: all, all but tenants (others), or the last, users.         *)
CreateSteps == {"inspect_registry", "create_all", "create_others", "create_last",
                "check_slug", "insert_tenant", "create_owner", "assign_owner"}
ScriptPC == {"idle", "read_registry_version", "create_tenants", "stamp_registry",
             "read_slugs", "next_slug", "read_version", "stamp", "exit 0", "exit 1"}
              \cup CreateSteps \cup DOMAIN TableOf

Script == [pc : ScriptPC, job : Commands \cup {None},
           slug : Tenants \cup {None},      \* the tenant in hand
           email : Emails \cup {None}, password : Passwords \cup {None},
           owner : UserIds \cup {None},     \* the user _create_owner made
           slugs : SUBSET Tenants,          \* what _read_active_slugs returned
           left : SUBSET Tenants]           \* those the loop has not reached

VARIABLES
    registrySchema, \* what registry.db has: its tables, the version stamp
    stamped,        \* tenants whose alembic_version holds the head revision
    script          \* what each script process is doing

schemaVars == <<registrySchema, stamped>>
scriptVars == <<schemaVars, script>>
vars == <<dataVars, scriptVars>>

(* A script at a step, run with these arguments, and nothing found yet.    *)
Job(step, job, t, e, p) ==
    [pc |-> step, job |-> job, slug |-> t, email |-> e, password |-> p,
     owner |-> None, slugs |-> {}, left |-> {}]

NoJob == Job("idle", None, None, None, None)

TypeOK ==
    /\ DataTypeOK
    /\ registrySchema \subseteq RegistryTables \cup {"stamp"}
    /\ stamped \subseteq Tenants
    /\ script \in [Scripts -> Script]
    /\ \A s \in Scripts :
        /\ script[s].pc \in {"read_version", "stamp"} \cup DOMAIN TableOf => script[s].slug # None
        /\ script[s].job = "create" =>
               script[s].slug # None /\ script[s].email # None /\ script[s].password # None
        /\ script[s].pc \in CreateSteps => script[s].job = "create"
        /\ script[s].pc = "assign_owner" => script[s].owner # None

(* Where tenants exist before the start, both commands have built the      *)
(* registry; their databases were migrated by Alembic.                     *)
ScriptInit ==
    /\ registrySchema = IF \A t \in Tenants : registry[t] = "absent"
                         THEN {} ELSE RegistryTables \cup {"stamp"}
    /\ stamped = {t \in Tenants : tables[t] = TableNames}
    /\ script = [s \in Scripts |-> NoJob]

Init ==
    /\ registry = [t \in Tenants |-> "absent"]
    /\ tables = [t \in Tenants |-> {}]
    /\ users = [t \in Tenants |-> [u \in UserIds |-> None]]
    /\ memberships = [t \in Tenants |-> [u \in UserIds |-> None]]
    /\ drawn = {}
    /\ ScriptInit
-----------------------------------------------------------------------------
At(s, step)      == script[s].pc = step
Goto(s, step)    == script' = [script EXCEPT ![s].pc = step]
Slug(s)          == script[s].slug
Creates(s)       == script[s].job = "create"

(* Bound: a creation starts only while an identifier is left for it.       *)
WillDraw ==
    {s \in Scripts : Creates(s) /\ script[s].pc \notin {"assign_owner", "exit 0", "exit 1"}}
IdLeft == Cardinality(WillDraw) < Cardinality(UserIds \ drawn)

Start(s) ==
    /\ At(s, "idle")
    /\ \/ /\ "create" \in Jobs /\ IdLeft
          /\ \E t \in Tenants, e \in Emails, p \in Passwords :
                script' = [script EXCEPT ![s] = Job("inspect_registry", "create", t, e, p)]
       \/ /\ "migrate" \in Jobs
          /\ script' = [script EXCEPT ![s] = Job("read_slugs", "migrate", None, None, None)]
       \/ /\ "upgrade" \in Jobs
          /\ \E t \in Tenants :
                script' = [script EXCEPT ![s] = Job("read_version", "upgrade", t, None, None)]
       \/ /\ "registry" \in Jobs
          /\ script' = [script EXCEPT ![s] =
                             Job("read_registry_version", "registry", None, None, None)]
    /\ UNCHANGED <<dataVars, schemaVars>>
-----------------------------------------------------------------------------
(* The registry's tables.  create_all inspects the database and creates    *)
(* the tables it saw missing, in the order of their names and without a    *)
(* version, each CREATE TABLE a commit; `alembic upgrade head` reads the   *)
(* version, creates tenants and records the version.  Whoever comes to a   *)
(* CREATE TABLE second gets an error.                                      *)
HasTenants == "tenants" \in registrySchema

(* The users table is made last of all, so nothing else is missing if it   *)
(* is there.                                                               *)
InspectRegistry(s) ==
    LET missing == RegistryTables \ registrySchema
    IN  /\ At(s, "inspect_registry")
        /\ Goto(s, CASE "users" \notin missing       -> "check_slug"
                     [] missing = {"users"}          -> "create_last"
                     [] "memberships" \notin missing -> "create_tenants"
                     [] "tenants" \notin missing     -> "create_others"
                     [] OTHER                        -> "create_all")
        /\ UNCHANGED <<dataVars, schemaVars>>

ReadRegistryVersion(s) ==
    /\ At(s, "read_registry_version")
    /\ Goto(s, IF "stamp" \in registrySchema THEN "exit 0" ELSE "create_tenants")
    /\ UNCHANGED <<dataVars, schemaVars>>

AtRegistryTable(s) ==
    script[s].pc \in {"create_all", "create_others", "create_tenants", "create_last"}

RegistryTable(s) == IF At(s, "create_tenants") THEN "tenants"
                    ELSE IF At(s, "create_last") THEN "users" ELSE "memberships"

Built(s) == IF At(s, "create_all") THEN "create_tenants"
            ELSE IF At(s, "create_last") THEN "check_slug"
            ELSE IF Creates(s) THEN "create_last" ELSE "stamp_registry"

(* Mutant: a table is created only if it does not exist.                   *)
RegistryConflictsKept(s) ==
    /\ AtRegistryTable(s) /\ RegistryTable(s) \in registrySchema
    /\ Goto(s, Built(s))
    /\ UNCHANGED <<dataVars, schemaVars>>

RegistryConflicts(s) ==
    /\ AtRegistryTable(s) /\ RegistryTable(s) \in registrySchema
    /\ Goto(s, "exit 1")
    /\ UNCHANGED <<dataVars, schemaVars>>

CreateRegistryTable(s) ==
    /\ AtRegistryTable(s) /\ RegistryTable(s) \notin registrySchema
    /\ registrySchema' = registrySchema \cup {RegistryTable(s)}
    /\ Goto(s, Built(s))
    /\ UNCHANGED <<dataVars, stamped>>

StampRegistry(s) ==
    /\ At(s, "stamp_registry")
    /\ registrySchema' = registrySchema \cup {"stamp"}
    /\ Goto(s, "exit 0")
    /\ UNCHANGED <<dataVars, stamped>>
-----------------------------------------------------------------------------
(* create_tenant, step 1: _register_tenant looks the slug up, then inserts *)
(* it; the primary key decides between two scripts that both looked.       *)
Registered(t) == registry[t] # "absent"

(* Mutant: the tenants table is created without its primary key.           *)
SlugUnchecked(t) == FALSE

SlugTaken(t) == Registered(t)

FindsSlug(s) ==
    /\ At(s, "check_slug") /\ Registered(Slug(s))
    /\ Goto(s, "exit 1")
    /\ UNCHANGED <<dataVars, schemaVars>>

CheckSlug(s) ==
    /\ At(s, "check_slug") /\ ~Registered(Slug(s))
    /\ Goto(s, "insert_tenant")
    /\ UNCHANGED <<dataVars, schemaVars>>

SlugConflicts(s) ==
    /\ At(s, "insert_tenant") /\ SlugTaken(Slug(s))
    /\ Goto(s, "exit 1")
    /\ UNCHANGED <<dataVars, schemaVars>>

InsertTenant(s) ==
    /\ At(s, "insert_tenant") /\ ~SlugTaken(Slug(s))
    /\ registry' = [registry EXCEPT ![Slug(s)] = "active"]
    /\ Goto(s, "read_version")
    /\ UNCHANGED <<tables, users, memberships, drawn, schemaVars>>
-----------------------------------------------------------------------------
(* migrate_all_tenants: the active slugs are read once, and the loop takes *)
(* them in the order the database returned them.                           *)
NoRegistry(s) ==
    /\ At(s, "read_slugs") /\ ~HasTenants
    /\ Goto(s, "exit 1")
    /\ UNCHANGED <<dataVars, schemaVars>>

ReadSlugs(s) ==
    /\ At(s, "read_slugs") /\ HasTenants
    /\ LET active == {t \in Tenants : TenantActive(t)}
       IN  script' = [script EXCEPT ![s].pc = "next_slug",
                                    ![s].slugs = active, ![s].left = active]
    /\ UNCHANGED <<dataVars, schemaVars>>

NextSlug(s) ==
    /\ At(s, "next_slug")
    /\ \E t \in script[s].left :
        script' = [script EXCEPT ![s].pc = "read_version",
                                 ![s].slug = t, ![s].left = @ \ {t}]
    /\ UNCHANGED <<dataVars, schemaVars>>

AllMigrated(s) ==
    /\ At(s, "next_slug") /\ script[s].left = {}
    /\ Goto(s, "exit 0")
    /\ UNCHANGED <<dataVars, schemaVars>>
-----------------------------------------------------------------------------
(* `alembic upgrade head` of one tenant, as three commands run it: 0001 is *)
(* applied unless the version table names it already.  Nothing asks the    *)
(* registry, so migrate-tenant makes a database for any slug.              *)
Upgraded(s) == CASE Creates(s)                -> "create_owner"
                 [] script[s].job = "migrate" -> "next_slug"
                 [] OTHER                     -> "exit 0"

ReadVersion(s) ==
    /\ At(s, "read_version")
    /\ Goto(s, IF Slug(s) \in stamped THEN Upgraded(s) ELSE "create_users")
    /\ UNCHANGED <<dataVars, schemaVars>>

AtTable(s)     == script[s].pc \in DOMAIN TableOf
TableExists(s) == TableOf[script[s].pc] \in tables[Slug(s)]

(* Mutant: the return code of the subprocess is not looked at.             *)
TableConflictIgnored(s) ==
    /\ AtTable(s) /\ TableExists(s)
    /\ Goto(s, Upgraded(s))
    /\ UNCHANGED <<dataVars, schemaVars>>

(* Mutant: a table that exists is taken for an upgrade already applied.    *)
TableConflictStamped(s) ==
    /\ AtTable(s) /\ TableExists(s)
    /\ stamped' = stamped \cup {Slug(s)}
    /\ Goto(s, Upgraded(s))
    /\ UNCHANGED <<dataVars, registrySchema>>

TableConflicts(s) ==
    /\ AtTable(s) /\ TableExists(s)
    /\ Goto(s, "exit 1")
    /\ UNCHANGED <<dataVars, schemaVars>>

AddTable(s) ==
    tables' = [tables EXCEPT ![Slug(s)] = @ \cup {TableOf[script[s].pc]}]

(* Mutant: the version is recorded before the revision is applied in full. *)
CreateTableAndStamp(s) ==
    /\ AtTable(s) /\ ~TableExists(s)
    /\ AddTable(s)
    /\ stamped' = stamped \cup {Slug(s)}
    /\ Goto(s, IF At(s, "create_users") THEN "create_memberships" ELSE "stamp")
    /\ UNCHANGED <<registry, users, memberships, drawn, registrySchema>>

CreateTable(s) ==
    /\ AtTable(s) /\ ~TableExists(s)
    /\ AddTable(s)
    /\ Goto(s, IF At(s, "create_users") THEN "create_memberships" ELSE "stamp")
    /\ UNCHANGED <<registry, users, memberships, drawn, schemaVars>>

Stamp(s) ==
    /\ At(s, "stamp")
    /\ stamped' = stamped \cup {Slug(s)}
    /\ Goto(s, Upgraded(s))
    /\ UNCHANGED <<dataVars, registrySchema>>
-----------------------------------------------------------------------------
(* create_tenant, step 3: _create_owner commits the user, its address as   *)
(* typed, and then the membership.                                         *)
(* Mutant: the account that holds the address is made the owner.           *)
OwnerConflictsPromotes(s) ==
    /\ At(s, "create_owner")
    /\ \E u \in UsersWithEmail(Slug(s), script[s].email) :
        script' = [script EXCEPT ![s].pc = "assign_owner", ![s].owner = u]
    /\ UNCHANGED <<dataVars, schemaVars>>

OwnerConflicts(s) ==
    /\ At(s, "create_owner") /\ UniqueViolated(Slug(s), script[s].email)
    /\ Goto(s, "exit 1")
    /\ UNCHANGED <<dataVars, schemaVars>>

CreateOwner(s) ==
    /\ At(s, "create_owner") /\ ~UniqueViolated(Slug(s), script[s].email)
    /\ \E u \in UserIds :
        /\ GenerateId(u)
        /\ AddUser(Slug(s), u, NewUser(script[s].email, script[s].password))
        /\ script' = [script EXCEPT ![s].pc = "assign_owner", ![s].owner = u]
    /\ UNCHANGED <<registry, tables, memberships, schemaVars>>

(* Mutant: the owner is left to be enrolled by hand.                       *)
AssignOwnerSkipped(s) ==
    /\ At(s, "assign_owner")
    /\ Goto(s, "exit 0")
    /\ UNCHANGED <<dataVars, schemaVars>>

AssignOwner(s) ==
    /\ At(s, "assign_owner")
    /\ UpsertMembership(Slug(s), script[s].owner, "OWNER")
    /\ Goto(s, "exit 0")
    /\ UNCHANGED <<registry, tables, users, drawn, schemaVars>>
-----------------------------------------------------------------------------
(* uv is missing, a file is locked, the process is killed: what is         *)
(* committed stays, and nothing resumes the rest.                          *)
Fail(s) ==
    /\ "error" \in Faults
    /\ script[s].pc \notin {"idle", "exit 0", "exit 1"}
    /\ Goto(s, "exit 1")
    /\ UNCHANGED <<dataVars, schemaVars>>

Exit(s) ==
    /\ script[s].pc \in {"exit 0", "exit 1"}
    /\ script' = [script EXCEPT ![s] = NoJob]
    /\ UNCHANGED <<dataVars, schemaVars>>

(* The API serves a tenant from its registration on: a visitor may take    *)
(* any address.  Only the outcome of the request is modelled here.         *)
Visit(t) ==
    /\ "visitor" \in Faults /\ IdLeft
    /\ TenantActive(t) /\ "users" \in tables[t]
    /\ \E u \in UserIds, e \in Emails, p \in Passwords :
        /\ Canonical[e] # None /\ ~EmailTaken(t, Canonical[e])
        /\ GenerateId(u)
        /\ AddUser(t, u, NewUser(Canonical[e], p))
        /\ \/ "memberships" \in tables[t] /\ UpsertMembership(t, u, "MEMBER")
           \/ "memberships" \notin tables[t] /\ UNCHANGED memberships
    /\ UNCHANGED <<registry, tables, scriptVars>>

Build(s)    == \/ InspectRegistry(s) \/ ReadRegistryVersion(s)
               \/ RegistryConflicts(s) \/ CreateRegistryTable(s) \/ StampRegistry(s)
Register(s) == FindsSlug(s) \/ CheckSlug(s) \/ SlugConflicts(s) \/ InsertTenant(s)
Migrate(s)  == NoRegistry(s) \/ ReadSlugs(s) \/ NextSlug(s) \/ AllMigrated(s)
Upgrade(s)  == ReadVersion(s) \/ TableConflicts(s) \/ CreateTable(s) \/ Stamp(s)
Seed(s)     == OwnerConflicts(s) \/ CreateOwner(s) \/ AssignOwner(s)

Run(s)  == Build(s) \/ Register(s) \/ Migrate(s) \/ Upgrade(s) \/ Seed(s) \/ Exit(s)
Next    == \/ \E s \in Scripts : Start(s) \/ Run(s) \/ Fail(s)
           \/ \E t \in Tenants : Visit(t)

Spec == Init /\ [][Next]_vars

(* A started script keeps being scheduled; nobody need start one.          *)
FairSpec == Spec /\ \A s \in Scripts : WF_vars(Run(s))
=============================================================================
