--------------------------- MODULE AccountsProofs ---------------------------
(* What the abstract accounts promise holds in each of their behaviours,   *)
(* and so in those of every system that implements them.                   *)
EXTENDS Accounts, RolesProofs

LEMMA Terms ==
    ASSUME NEW e \in Emails, NEW r \in Role
    PROVE  /\ NoAccount \in Account /\ Pending(e) \in Account
           /\ Enrolled(e, r) \in Account /\ Closed(r) \in Account
BY DEF NoAccount, Pending, Enrolled, Closed, Account

(* Every step leaves the accounts alone or gives one of them a new value,  *)
(* which continues the old one.                                            *)
Opens(t, u, a) ==
    /\ \A s \in Tenants : accounts[s][u].state = "none"
    /\ \E e \in Emails : a = Pending(e) /\ \A v \in UserIds : accounts[t][v].email # e

Enrols(t, u, a) ==
    /\ accounts[t][u].state = "pending"
    /\ \E r \in Role :
        /\ a = Enrolled(accounts[t][u].email, r)
        /\ r = "OWNER" \/ r = "MEMBER" \/ Authorised(t)

Closes(t, u, a) == accounts[t][u].state = "enrolled" /\ a = Closed(accounts[t][u].role)

(* Live accounts have an address, those that hold a role have one.         *)
Filled(a) ==
    /\ Live(a) => a.email \in Emails
    /\ Held(a) => a.role \in Role

AllFilled == \A t \in Tenants, u \in UserIds : Filled(accounts[t][u])

Sound == TypeOK /\ AllFilled /\ OneHome /\ SessionsTrue /\ AddressesUnique /\ OwnersFirst

LEMMA Roles4 == "OWNER" \in Role /\ "MEMBER" \in Role
BY DEF Role

LEMMA AccountSteps ==
    ASSUME [Next]_vars
    PROVE  \/ accounts' = accounts
           \/ \E t \in Tenants, u \in UserIds : \E a :
                /\ accounts' = [accounts EXCEPT ![t][u] = a]
                /\ Opens(t, u, a) \/ Enrols(t, u, a) \/ Closes(t, u, a)
<1>1. ASSUME NEW t \in Tenants, NEW u \in UserIds, NEW e \in Emails, Open(t, u, e)
      PROVE  Opens(t, u, Pending(e)) /\ accounts' = [accounts EXCEPT ![t][u] = Pending(e)]
  BY <1>1 DEF Open, Opens
<1>2. ASSUME NEW t \in Tenants, NEW u \in UserIds, NEW r \in Role,
             \/ Register(t, u) /\ r = "MEMBER"
             \/ Grant(t, u, r)
             \/ Appoint(t, u) /\ r = "OWNER"
      PROVE  /\ Enrols(t, u, Enrolled(accounts[t][u].email, r))
             /\ accounts' = [accounts EXCEPT ![t][u] = Enrolled(accounts[t][u].email, r)]
  BY <1>2 DEF Register, Grant, Appoint, Enrols
<1>3. ASSUME NEW t \in Tenants, NEW u \in UserIds, Close(t, u)
      PROVE  /\ Closes(t, u, Closed(accounts[t][u].role))
             /\ accounts' = [accounts EXCEPT ![t][u] = Closed(accounts[t][u].role)]
  BY <1>3 DEF Close, Closes
<1>4. ASSUME NEW t \in Tenants, NEW u \in UserIds, SignIn(t, u)
      PROVE  accounts' = accounts
  BY <1>4 DEF SignIn
<1> QED
  BY <1>1, <1>2, <1>3, <1>4, Roles4 DEF Next, vars

(* The value a step gives an account has its type and continues the old.   *)
LEMMA NewValues ==
    ASSUME Sound, NEW t \in Tenants, NEW u \in UserIds, NEW a,
           Opens(t, u, a) \/ Enrols(t, u, a) \/ Closes(t, u, a)
    PROVE  /\ a \in Account /\ Filled(a) /\ a.state # "none"
           /\ Continues(accounts[t][u], a)
<1>0. accounts[t][u] \in Account /\ Filled(accounts[t][u])
  BY DEF Sound, TypeOK, AllFilled
<1>1. CASE Opens(t, u, a)
  <2>1. PICK e \in Emails : a = Pending(e)
    BY <1>1 DEF Opens
  <2>2. accounts[t][u].state = "none"
    BY <1>1 DEF Opens
  <2> QED
    BY <2>1, <2>2 DEF Pending, Account, Filled, Live, Held, Continues
<1>2. CASE Enrols(t, u, a)
  <2>1. PICK r \in Role : a = Enrolled(accounts[t][u].email, r)
    BY <1>2 DEF Enrols
  <2>2. accounts[t][u].state = "pending" /\ accounts[t][u].email \in Emails
    BY <1>0, <1>2 DEF Enrols, Filled, Live
  <2> QED
    BY <2>1, <2>2 DEF Enrolled, Account, Filled, Live, Held, Continues
<1>3. CASE Closes(t, u, a)
  <2>1. a = Closed(accounts[t][u].role) /\ accounts[t][u].state = "enrolled"
    BY <1>3 DEF Closes
  <2>2. accounts[t][u].role \in Role
    BY <1>0, <2>1 DEF Filled, Held
  <2> QED
    BY <2>1, <2>2 DEF Closed, Account, Filled, Live, Held, Continues
<1> QED
  BY <1>1, <1>2, <1>3

(* So every account goes on as it may.                                     *)
LEMMA ContinuesStep ==
    ASSUME Sound, [Next]_vars, NEW s \in Tenants, NEW v \in UserIds
    PROVE  Continues(accounts[s][v], accounts'[s][v])
<1>1. Continues(accounts[s][v], accounts[s][v])
  BY DEF Continues, Live
<1>2. CASE accounts' = accounts
  BY <1>1, <1>2
<1>3. ASSUME NEW t \in Tenants, NEW u \in UserIds, NEW a,
             accounts' = [accounts EXCEPT ![t][u] = a],
             Opens(t, u, a) \/ Enrols(t, u, a) \/ Closes(t, u, a)
      PROVE  Continues(accounts[s][v], accounts'[s][v])
  <2>1. accounts'[s][v] = IF s = t /\ v = u THEN a ELSE accounts[s][v]
    BY <1>3 DEF Sound, TypeOK
  <2> QED
    BY <1>1, <1>3, <2>1, NewValues
<1> QED
  BY <1>2, <1>3, AccountSteps

(* A session is given only for an account that holds the role it states.   *)
LEMMA SessionSteps ==
    ASSUME Sound, [Next]_vars, NEW s \in sessions', s \notin sessions
    PROVE  /\ s \in Session
           /\ Held(accounts'[s.tenant][s.sub]) /\ accounts'[s.tenant][s.sub].role = s.role
<1>1. CASE UNCHANGED sessions
  BY <1>1
<1>2. ASSUME NEW t \in Tenants, NEW u \in UserIds, Register(t, u)
      PROVE  /\ s = SessionOf(t, u, "MEMBER")
             /\ accounts'[t][u] = Enrolled(accounts[t][u].email, "MEMBER")
  BY <1>2 DEF Register, Sound, TypeOK
<1>3. ASSUME NEW t \in Tenants, NEW u \in UserIds, SignIn(t, u)
      PROVE  /\ s = SessionOf(t, u, accounts[t][u].role)
             /\ accounts' = accounts /\ Held(accounts[t][u]) /\ Filled(accounts[t][u])
  BY <1>3 DEF SignIn, Held, Sound, AllFilled
<1>4. ASSUME NEW t \in Tenants, NEW u \in UserIds, NEW r \in Role, s = SessionOf(t, u, r)
      PROVE  s \in Session /\ s.tenant = t /\ s.sub = u /\ s.role = r
  BY <1>4 DEF SessionOf, Session
<1>5. ASSUME NEW t \in Tenants, NEW u \in UserIds,
             \/ \E e \in Emails : Open(t, u, e)
             \/ \E r \in Role : Grant(t, u, r)
             \/ Appoint(t, u) \/ Close(t, u)
      PROVE  UNCHANGED sessions
  BY <1>5 DEF Open, Grant, Appoint, Close
<1>6. ASSUME NEW t \in Tenants, NEW u \in UserIds, Register(t, u) \/ SignIn(t, u)
      PROVE  /\ s \in Session
             /\ Held(accounts'[s.tenant][s.sub]) /\ accounts'[s.tenant][s.sub].role = s.role
  <2>1. CASE Register(t, u)
    <3>1. s = SessionOf(t, u, "MEMBER") /\ accounts'[t][u] = Enrolled(accounts[t][u].email, "MEMBER")
      BY <1>2, <2>1
    <3>2. s \in Session /\ s.tenant = t /\ s.sub = u /\ s.role = "MEMBER"
      BY <1>4, <3>1, Roles4
    <3> QED
      BY <3>1, <3>2 DEF Enrolled, Held
  <2>2. CASE SignIn(t, u)
    BY <1>3, <1>4, <2>2 DEF Filled
  <2> QED
    BY <1>6, <2>1, <2>2
<1> QED
  BY <1>1, <1>5, <1>6 DEF Next, vars
-----------------------------------------------------------------------------
LEMMA TypeStep ==
    ASSUME Sound, [Next]_vars
    PROVE  TypeOK' /\ AllFilled'
<1>0. accounts \in [Tenants -> [UserIds -> Account]] /\ sessions \subseteq Session
  BY DEF Sound, TypeOK
<1>1. sessions' \subseteq Session
  BY <1>0, SessionSteps
<1>2. CASE accounts' = accounts
  <2>1. AllFilled'
    BY <1>2 DEF Sound, AllFilled, Filled
  <2> QED
    BY <1>0, <1>1, <1>2, <2>1 DEF TypeOK
<1>3. ASSUME NEW t \in Tenants, NEW u \in UserIds, NEW a,
             accounts' = [accounts EXCEPT ![t][u] = a],
             Opens(t, u, a) \/ Enrols(t, u, a) \/ Closes(t, u, a)
      PROVE  TypeOK' /\ AllFilled'
  <2>1. a \in Account /\ Filled(a)
    BY <1>3, NewValues
  <2>2. accounts' \in [Tenants -> [UserIds -> Account]]
    BY <1>0, <1>3, <2>1
  <2>3. \A s \in Tenants, v \in UserIds :
            accounts'[s][v] = IF s = t /\ v = u THEN a ELSE accounts[s][v]
    BY <1>0, <1>3
  <2>4. AllFilled'
    BY <2>1, <2>3 DEF Sound, AllFilled, Filled
  <2> QED
    BY <1>1, <2>2, <2>4 DEF TypeOK
<1> QED
  BY <1>2, <1>3, AccountSteps

(* An account that is opened was of no tenant.                             *)
LEMMA HomeStep ==
    ASSUME Sound, [Next]_vars
    PROVE  OneHome'
<1>1. CASE accounts' = accounts
  BY <1>1 DEF Sound, OneHome
<1>2. ASSUME NEW t \in Tenants, NEW u \in UserIds, NEW a,
             accounts' = [accounts EXCEPT ![t][u] = a],
             Opens(t, u, a) \/ Enrols(t, u, a) \/ Closes(t, u, a)
      PROVE  OneHome'
  <2>1. \A s \in Tenants, v \in UserIds :
            s # t \/ v # u => accounts'[s][v] = accounts[s][v]
    BY <1>2 DEF Sound, TypeOK
  <2>2. CASE Opens(t, u, a)
    BY <2>1, <2>2 DEF Sound, OneHome, Opens
  <2>3. CASE accounts[t][u].state # "none"
    BY <2>1, <2>3 DEF Sound, OneHome
  <2> QED
    BY <1>2, <2>2, <2>3 DEF Enrols, Closes
<1> QED
  BY <1>1, <1>2, AccountSteps

(* An account that holds a role keeps it, so what a session states stays.  *)
LEMMA HeldStep ==
    ASSUME Sound, [Next]_vars, NEW t \in Tenants, NEW u \in UserIds, Held(accounts[t][u])
    PROVE  Held(accounts'[t][u]) /\ accounts'[t][u].role = accounts[t][u].role
<1>1. Continues(accounts[t][u], accounts'[t][u])
  BY ContinuesStep
<1> QED
  BY <1>1 DEF Continues, Held, Closed

LEMMA SessionsStep ==
    ASSUME Sound, [Next]_vars
    PROVE  SessionsTrue'
<1> SUFFICES ASSUME NEW s \in sessions'
             PROVE  /\ Held(accounts'[s.tenant][s.sub])
                    /\ accounts'[s.tenant][s.sub].role = s.role
  BY DEF SessionsTrue, Held
<1>1. CASE s \in sessions
  <2>1. s.tenant \in Tenants /\ s.sub \in UserIds
    BY <1>1 DEF Sound, TypeOK, Session
  <2>2. Held(accounts[s.tenant][s.sub]) /\ accounts[s.tenant][s.sub].role = s.role
    BY <1>1 DEF Sound, SessionsTrue
  <2> QED
    BY <2>1, <2>2, HeldStep
<1> QED
  BY <1>1, SessionSteps

(* An address is new to the tenant when an account is opened under it, and *)
(* enrolling and closing give nobody an address.                           *)
LEMMA AddressesStep ==
    ASSUME Sound, [Next]_vars
    PROVE  AddressesUnique'
<1>1. CASE accounts' = accounts
  BY <1>1 DEF Sound, AddressesUnique, Live
<1>2. ASSUME NEW t \in Tenants, NEW u \in UserIds, NEW a,
             accounts' = [accounts EXCEPT ![t][u] = a],
             Opens(t, u, a) \/ Enrols(t, u, a) \/ Closes(t, u, a)
      PROVE  AddressesUnique'
  <2>1. /\ accounts'[t][u] = a
        /\ \A s \in Tenants, v \in UserIds :
                s # t \/ v # u => accounts'[s][v] = accounts[s][v]
    BY <1>2 DEF Sound, TypeOK
  <2>2. CASE Opens(t, u, a)
    <3>1. \A v \in UserIds : accounts[t][v].email # a.email
      BY <2>2 DEF Opens, Pending
    <3> QED
      BY <2>1, <3>1 DEF Sound, AddressesUnique, Live
  <2>3. CASE Enrols(t, u, a)
    <3>1. a.email = accounts[t][u].email /\ Live(accounts[t][u])
      BY <2>3 DEF Enrols, Enrolled, Live
    <3> QED
      BY <2>1, <3>1 DEF Sound, AddressesUnique, Live
  <2>4. CASE Closes(t, u, a)
    <3>1. ~Live(a)
      BY <2>4 DEF Closes, Closed, Live
    <3> QED
      BY <2>1, <3>1 DEF Sound, AddressesUnique, Live
  <2> QED
    BY <1>2, <2>2, <2>3, <2>4
<1> QED
  BY <1>1, <1>2, AccountSteps

(* Who is authorised has the privilege from an account of the tenant, and  *)
(* that from an owner.                                                     *)
HasOwner(t) == \E v \in UserIds : Held(accounts[t][v]) /\ accounts[t][v].role = "OWNER"

LEMMA AuthorisedHasOwner ==
    ASSUME Sound, NEW t \in Tenants, Authorised(t)
    PROVE  HasOwner(t)
<1>1. PICK s \in sessions : s.tenant = t /\ Privileged(s.role)
  BY DEF Authorised
<1>2. s.sub \in UserIds /\ Held(accounts[t][s.sub]) /\ accounts[t][s.sub].role = s.role
  BY <1>1 DEF Sound, TypeOK, Session, SessionsTrue
<1> QED
  BY <1>1, <1>2 DEF Sound, OwnersFirst, HasOwner

LEMMA OwnersStep ==
    ASSUME Sound, [Next]_vars
    PROVE  OwnersFirst'
<1> SUFFICES ASSUME NEW s \in Tenants, NEW v \in UserIds,
                    Held(accounts'[s][v]), Privileged(accounts'[s][v].role)
             PROVE  HasOwner(s)'
  BY DEF OwnersFirst, HasOwner, Held, Privileged, RoleSatisfies
<1>1. HasOwner(s) => HasOwner(s)'
  BY HeldStep DEF HasOwner
<1>2. CASE Held(accounts[s][v])
  <2>1. Privileged(accounts[s][v].role)
    BY <1>2, HeldStep
  <2> QED
    BY <1>1, <1>2, <2>1 DEF Sound, OwnersFirst, HasOwner
<1>3. CASE ~Held(accounts[s][v])
  <2>1. accounts'[s][v] # accounts[s][v]
    BY <1>3
  <2>0. PICK t \in Tenants, u \in UserIds :
            \E a : /\ accounts' = [accounts EXCEPT ![t][u] = a]
                   /\ Opens(t, u, a) \/ Enrols(t, u, a) \/ Closes(t, u, a)
    BY <2>1, AccountSteps
  <2>2. PICK a : /\ accounts' = [accounts EXCEPT ![t][u] = a]
                 /\ Opens(t, u, a) \/ Enrols(t, u, a) \/ Closes(t, u, a)
    BY <2>0
  <2>3. s = t /\ v = u /\ accounts'[s][v] = a
    BY <2>1, <2>2 DEF Sound, TypeOK
  <2>4. Enrols(t, u, a)
    BY <1>3, <2>2, <2>3 DEF Opens, Closes, Pending, Held
  <2>5. PICK r \in Role : /\ a = Enrolled(accounts[t][u].email, r)
                          /\ r = "OWNER" \/ r = "MEMBER" \/ Authorised(t)
    BY <2>4 DEF Enrols
  <2>6. a.role = r
    BY <2>5 DEF Enrolled
  <2>7. CASE r = "OWNER"
    BY <2>3, <2>6, <2>7 DEF HasOwner
  <2>8. CASE r = "MEMBER"
    BY <2>3, <2>6, <2>8, RoleLevels DEF Privileged, RoleSatisfies
  <2>9. CASE Authorised(t)
    BY <1>1, <2>3, <2>9, AuthorisedHasOwner
  <2> QED
    BY <2>5, <2>7, <2>8, <2>9
<1> QED
  BY <1>2, <1>3

LEMMA SoundInit == Init => Sound
<1> SUFFICES ASSUME Init PROVE Sound
  OBVIOUS
<1>1. /\ accounts \in [Tenants -> [UserIds -> Account]] /\ OneHome /\ sessions = {}
  BY DEF Init
<1>2. ASSUME NEW t \in Tenants
      PROVE  \/ \A u \in UserIds : accounts[t][u] = NoAccount
             \/ \E o \in UserIds, e \in Emails :
                    \A u \in UserIds : accounts[t][u] = IF u = o THEN Enrolled(e, "OWNER") ELSE NoAccount
  BY DEF Init, Founded
<1>3. \A a : a = NoAccount => ~Held(a) /\ ~Live(a)
  BY DEF NoAccount, Held, Live
<1>4. \A e : Enrolled(e, "OWNER").role = "OWNER" /\ Enrolled(e, "OWNER").email = e
             /\ Held(Enrolled(e, "OWNER"))
  BY DEF Enrolled, Held
<1>5. AllFilled
  BY <1>2, <1>3, <1>4, Roles4 DEF AllFilled, Filled
<1>6. AddressesUnique
  BY <1>2, <1>3 DEF AddressesUnique
<1>7. OwnersFirst
  BY <1>2, <1>3, <1>4 DEF OwnersFirst
<1> QED
  BY <1>1, <1>5, <1>6, <1>7 DEF Sound, TypeOK, SessionsTrue

LEMMA SoundHolds == Spec => []Sound
<1>1. Sound /\ [Next]_vars => Sound'
  BY TypeStep, HomeStep, SessionsStep, AddressesStep, OwnersStep DEF Sound
<1> QED
  BY <1>1, SoundInit, PTL DEF Spec
-----------------------------------------------------------------------------
(* In every behaviour of the abstract accounts an old session states the   *)
(* role of its account, addresses in use are not shared, and whoever has a *)
(* privilege has it from an owner.                                         *)
THEOREM AccountsKeepPromises ==
    Spec => [](TypeOK /\ OneHome /\ SessionsTrue /\ AddressesUnique /\ OwnersFirst)
<1>1. Sound => TypeOK /\ OneHome /\ SessionsTrue /\ AddressesUnique /\ OwnersFirst
  BY DEF Sound
<1> QED
  BY <1>1, SoundHolds, PTL

(* No account changes its address or its role, or opens again.             *)
THEOREM AccountsGoOn == Spec => AccountsLast
<1>1. Sound /\ [Next]_vars =>
        \A t \in Tenants, u \in UserIds : Continues(accounts[t][u], accounts'[t][u])
  BY ContinuesStep
<1> QED
  BY <1>1, SoundHolds, PTL DEF Spec, AccountsLast
=============================================================================
