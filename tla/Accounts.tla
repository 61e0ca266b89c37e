------------------------------ MODULE Accounts ------------------------------
(* What the user-management API promises about the accounts of a tenant,   *)
(* without requests, tables or tokens in flight: an account is opened      *)
(* under an address nobody in the tenant holds, is enrolled once with a    *)
(* role it keeps, and may be closed for good; sessions are given only to   *)
(* enrolled accounts, and only privileged sessions of the same tenant      *)
(* grant roles above or beside MEMBER and close accounts.                  *)
EXTENDS Roles

CONSTANTS Tenants, UserIds, Emails, None

VARIABLES
    accounts,   \* accounts[t][u]
    sessions    \* sessions given out, never revoked

vars == <<accounts, sessions>>

Account == [state : {"none", "pending", "enrolled", "closed"},
            email : Emails \cup {None}, role : Role \cup {None}]
Session == [tenant : Tenants, sub : UserIds, role : Role]

NoAccount        == [state |-> "none", email |-> None, role |-> None]
Pending(e)       == [state |-> "pending", email |-> e, role |-> None]
Enrolled(e, r)   == [state |-> "enrolled", email |-> e, role |-> r]
Closed(r)        == [state |-> "closed", email |-> None, role |-> r]
SessionOf(t, u, r) == [tenant |-> t, sub |-> u, role |-> r]

Held(a) == a.state \in {"enrolled", "closed"}
Live(a) == a.state \in {"pending", "enrolled"}

(* An account is of one tenant.                                            *)
OneHome ==
    \A s, t \in Tenants, u \in UserIds :
        accounts[s][u].state # "none" /\ accounts[t][u].state # "none" => s = t

(* A tenant starts unprovisioned, or with its owner and nobody else.       *)
Founded(t, u, e) ==
    accounts[t] = [v \in UserIds |-> IF v = u THEN Enrolled(e, "OWNER") ELSE NoAccount]

Init ==
    /\ \A t \in Tenants :
        \/ accounts[t] = [u \in UserIds |-> NoAccount]
        \/ \E u \in UserIds, e \in Emails : Founded(t, u, e)
    /\ accounts \in [Tenants -> [UserIds -> Account]] /\ OneHome
    /\ sessions = {}

Authorised(t) == \E s \in sessions : s.tenant = t /\ Privileged(s.role)

Open(t, u, e) ==
    /\ \A s \in Tenants : accounts[s][u].state = "none"
    /\ \A v \in UserIds : accounts[t][v].email # e
    /\ accounts' = [accounts EXCEPT ![t][u] = Pending(e)]
    /\ UNCHANGED sessions

Register(t, u) ==
    /\ accounts[t][u].state = "pending"
    /\ accounts' = [accounts EXCEPT ![t][u] = Enrolled(@.email, "MEMBER")]
    /\ sessions' = sessions \cup {SessionOf(t, u, "MEMBER")}

Grant(t, u, r) ==
    /\ accounts[t][u].state = "pending" /\ Authorised(t)
    /\ accounts' = [accounts EXCEPT ![t][u] = Enrolled(@.email, r)]
    /\ UNCHANGED sessions

(* The operator seeds an owner, before anyone in the tenant has a          *)
(* privilege.                                                              *)
Appoint(t, u) ==
    /\ accounts[t][u].state = "pending"
    /\ \A v \in UserIds : ~Privileged(accounts[t][v].role)
    /\ accounts' = [accounts EXCEPT ![t][u] = Enrolled(@.email, "OWNER")]
    /\ UNCHANGED sessions

(* A session may still be given to an account closed a moment ago.         *)
SignIn(t, u) ==
    /\ accounts[t][u].state \in {"enrolled", "closed"}
    /\ sessions' = sessions \cup {SessionOf(t, u, accounts[t][u].role)}
    /\ UNCHANGED accounts

Close(t, u) ==
    /\ accounts[t][u].state = "enrolled" /\ Authorised(t)
    /\ accounts' = [accounts EXCEPT ![t][u] = Closed(@.role)]
    /\ UNCHANGED sessions

Next ==
    \E t \in Tenants, u \in UserIds :
        \/ \E e \in Emails : Open(t, u, e)
        \/ Register(t, u)
        \/ \E r \in Role : Grant(t, u, r)
        \/ Appoint(t, u)
        \/ SignIn(t, u)
        \/ Close(t, u)

Spec == Init /\ [][Next]_vars
-----------------------------------------------------------------------------
(* What follows for whoever relies on the accounts.                        *)
TypeOK ==
    /\ accounts \in [Tenants -> [UserIds -> Account]]
    /\ sessions \subseteq Session

(* A session, however old, states the role its account has.                *)
SessionsTrue ==
    \A s \in sessions :
        Held(accounts[s.tenant][s.sub]) /\ accounts[s.tenant][s.sub].role = s.role

(* No two accounts in use of one tenant share an address.                  *)
AddressesUnique ==
    \A t \in Tenants : \A u, v \in UserIds :
        Live(accounts[t][u]) /\ Live(accounts[t][v]) /\ accounts[t][u].email = accounts[t][v].email
            => u = v

(* Every privilege in a tenant goes back to an owner: nobody has one       *)
(* before an OWNER was appointed, and what is granted later is granted by  *)
(* sessions that had it.                                                   *)
OwnersFirst ==
    \A t \in Tenants, u \in UserIds :
        Held(accounts[t][u]) /\ Privileged(accounts[t][u].role) =>
            \E v \in UserIds : Held(accounts[t][v]) /\ accounts[t][v].role = "OWNER"

(* An account is enrolled under the address it was opened with, keeps the  *)
(* role it was given, and once closed stays as it is.                      *)
Continues(a, b) ==
    /\ a.state = "pending"  => Live(b) /\ b.email = a.email
    /\ a.state = "enrolled" => b = a \/ b = Closed(a.role)
    /\ a.state = "closed"   => b = a

AccountsLast ==
    [][\A t \in Tenants, u \in UserIds : Continues(accounts[t][u], accounts'[t][u])]_vars
=============================================================================
