------------------------------- MODULE System -------------------------------
(* The deployed system: the API serves requests while operators run the    *)
(* provisioning scripts.  They share the registry and the tenant databases *)
(* and nothing else; no lock outlives one commit of either.                *)
EXTENDS TenantApiProperties

CONSTANTS Scripts, Jobs

VARIABLES registrySchema, stamped, script

P == INSTANCE ProvisioningProperties

ASSUME JobsAssumption  == Jobs \subseteq P!Commands
ASSUME NoJobAssumption == None \notin P!Commands

(* The visitors are the clients of the API.                                *)
ASSUME NoVisitorAssumption == "visitor" \notin Faults

apiVars    == <<now, tokens, workerVars>>
scriptVars == <<registrySchema, stamped, script>>
systemVars == <<dataVars, apiVars, scriptVars>>

SystemTypeOK == TypeOK /\ P!TypeOK

SystemInit == Init /\ P!ScriptInit

(* Bound: what is under way leaves an identifier for all who will draw one.*)
EnoughIds ==
    Cardinality(WillDraw) + Cardinality(P!WillDraw) <= Cardinality(UserIds \ drawn)

(* A registry without its table does not answer that a tenant is unknown:  *)
(* the session raises, and SessionError is the request's way on.           *)
RegistryReadable ==
    P!HasTenants \/ \A w \in Workers : UnknownTenant(w) => status'[w] # 404

SystemNext ==
    /\ \/ Next /\ RegistryReadable /\ UNCHANGED scriptVars
       \/ P!Next /\ UNCHANGED apiVars
    /\ EnoughIds'

SystemSpec == SystemInit /\ [][SystemNext]_systemVars
-----------------------------------------------------------------------------
(* What the two must guarantee together.                                   *)

(* A role, once given, is the user's for good, and a deleted user stays    *)
(* deleted: neither upsert, the API's (assign_role) or create_tenant's     *)
(* (_create_owner), ever finds a membership to update, although nothing    *)
(* but fresh identifiers keeps the two apart.                              *)
RolesForGood ==
    [][\A t \in Tenants, u \in UserIds : memberships[t][u] # None =>
            /\ memberships'[t][u] = memberships[t][u]
            /\ ~UserExists(t, u) => ~UserExists(t, u)']_systemVars

(* A registered tenant that nobody can manage: no live ADMIN or OWNER, no  *)
(* creation past its guard, and no create_tenant about to seed an owner.   *)
LockedOut(t) == P!Registered(t) /\ Leaderless(t) /\ ~P!Seeding(t)

(* There is no way back in: the API needs a privileged request, and        *)
(* create_tenant, the only command that makes an owner, refuses the slug   *)
(* (_register_tenant).                                                     *)
LockedOutForGood == [][\A t \in Tenants : LockedOut(t) => LockedOut(t)']_systemVars

(* What a create_tenant that died leaves behind is such a tenant, whoever  *)
(* has registered in it meanwhile.                                         *)
AbandonedLockedOut == \A t \in Tenants : P!Abandoned(t) => LockedOut(t)
=============================================================================
