----------------------- MODULE ProvisioningProperties -----------------------
(* What the operator's scripts must guarantee, run side by side, killed    *)
(* half-way and run again.                                                 *)
EXTENDS Provisioning

Owners(t) == {u \in UserIds : memberships[t][u] = "OWNER"}

(* A tenant database Alembic takes for migrated has all its tables, so no  *)
(* later upgrade is needed.  The three writes of an upgrade are three      *)
(* commits (0001_tenant_schema.py, env.py of the tenants).                 *)
StampMeansTables == \A t \in stamped : tables[t] = TableNames

(* A script that exits 0 did what it says, whatever ran beside it:         *)
(* create_tenant's "is ready" means that the owner it was given has the    *)
(* tenant, "Migrated n tenant(s)" that every slug it read is migrated, and *)
(* a migrated tenant or registry has its tables and its version.           *)
ExitZeroMeansDone ==
    \A s \in Scripts : At(s, "exit 0") =>
        /\ Creates(s) => \E u \in Owners(Slug(s)) :
                             /\ Slug(s) \in stamped /\ UserExists(Slug(s), u)
                             /\ users[Slug(s)][u].email = script[s].email
        /\ script[s].job = "migrate" => script[s].slugs \subseteq stamped
        /\ script[s].job = "upgrade" => Slug(s) \in stamped
        /\ script[s].job = "registry" => {"tenants", "stamp"} \subseteq registrySchema

(* Two create_tenant for one slug never seed two owners: the race both     *)
(* lookups lose is decided by the registry's primary key (create_tenant.py *)
(* "Race condition").                                                      *)
OneOwner == \A t \in Tenants : \A u, v \in Owners(t) : u = v

(* A registered tenant whose creator is gone before it seeded an owner.    *)
Seeding(t) ==
    \E s \in Scripts :
        /\ Creates(s) /\ Slug(s) = t
        /\ script[s].pc \in {"read_version", "stamp", "create_owner", "assign_owner"}
                              \cup DOMAIN TableOf
Abandoned(t) == Registered(t) /\ Owners(t) = {} /\ ~Seeding(t)

(* No script repairs an abandoned tenant: create_tenant refuses the slug   *)
(* it registered itself, and migrate_all_tenants seeds nobody.             *)
AbandonedForGood == [][\A t \in Tenants : Abandoned(t) => Abandoned(t)']_vars

(* A database with some tables and no version, and nobody to finish it.    *)
Upgrading(t) ==
    \E s \in Scripts :
        Slug(s) = t /\ script[s].pc \in {"create_memberships", "stamp"}
HalfMigrated(t) == tables[t] # {} /\ t \notin stamped /\ ~Upgrading(t)

(* An upgrade killed between its commits is final: no later upgrade of     *)
(* that tenant gets past the first CREATE TABLE, so migrate_all_tenants    *)
(* fails on it, and on every tenant it has not reached, for ever.          *)
HalfMigratedForGood ==
    [][\A t \in Tenants : HalfMigrated(t) => HalfMigrated(t)']_vars

(* A registry with its table and no version, and nobody to record it: what *)
(* the first create_tenant leaves behind when it ran before the first      *)
(* migrate-registry (create_all in _register_tenant), or a migrate-registry *)
(* killed half-way.                                                        *)
Unversioned ==
    HasTenants /\ "stamp" \notin registrySchema /\ \A s \in Scripts : ~At(s, "stamp_registry")

(* That is final: every migrate-registry fails on CREATE TABLE tenants, so *)
(* the order of the two commands decides for ever whether the registry can *)
(* be migrated, although create_tenant works in either.                    *)
UnversionedForGood == [][Unversioned => Unversioned']_vars

(* A tenant that create_tenant registers gets its owner ("Create a new     *)
(* tenant with an initial OWNER user").                                    *)
OwnerArrives == \A t \in Tenants : Registered(t) ~> Owners(t) # {}
=============================================================================
