---------------------------- MODULE BrowserProofs ----------------------------
(* Proofs about the pages and cookies of a browser, for any number of      *)
(* tabs, users and tenants, and any lifetime of tokens and cookies.        *)
EXTENDS BrowserProperties, RolesProofs, TLAPS

LEMMA Actives == \A r : Resolved(r) => SlugOf(r) \in Tenants /\ SlugOf(r) # None
BY ActiveAssumption, NoneAssumption DEF Resolved

LEMMA ValueTyped ==
    ASSUME TypeOK
    PROVE  Value(tenantCookie) \in Tenants \cup {None} /\ Value(tokenCookie) \in Token \cup {None}
<1>1. tenantCookie = None \/ tenantCookie.value \in Tenants
  BY DEF TypeOK, Cookie
<1>2. tokenCookie = None \/ tokenCookie.value \in Token
  BY DEF TypeOK, Cookie
<1> QED
  BY <1>1, <1>2 DEF Value

LEMMA LinkTyped ==
    ASSUME TypeOK, NEW kind \in Paths \cup Posts, NEW param \in Tenants \cup {None}
    PROVE  /\ Link(kind, param) \in Request
           /\ Link(kind, param).kind = kind /\ Link(kind, param).token = None
           /\ Link(kind, param).slugCookie = Value(tenantCookie)
           /\ Link(kind, param).tokenCookie =
                IF kind \in Guarded THEN Value(tokenCookie) ELSE None
           /\ Link(kind, param).slug = None /\ Link(kind, param).param = param
           /\ Link(kind, param).session = IF kind = "users" THEN session ELSE None
           /\ Link(kind, param).visit = IF kind = "users" THEN visit ELSE None
           /\ Link(kind, param).sent = IF kind = "users" THEN now ELSE 0
<1>1. session \in SignedIn \cup {None} /\ visit \in Visit \cup {None} /\ now \in Nat
  BY DEF TypeOK
<1>2. (IF kind \in Guarded THEN Value(tokenCookie) ELSE None) \in Token \cup {None}
  BY ValueTyped
<1>3. /\ (IF kind = "users" THEN session ELSE None) \in SignedIn \cup {None}
      /\ (IF kind = "users" THEN visit ELSE None) \in Visit \cup {None}
      /\ (IF kind = "users" THEN now ELSE 0) \in Nat
  BY <1>1
<1> QED
  BY <1>2, <1>3, ValueTyped DEF Link, Request

LEMMA HtmxTyped ==
    ASSUME TypeOK, NEW t \in Tabs, NEW kind \in Posts, NEW token \in Token \cup {None},
           NEW target \in Users \cup {None}
    PROVE  /\ Htmx(t, kind, token, target) \in Request
           /\ Htmx(t, kind, token, target).kind = kind
           /\ Htmx(t, kind, token, target).slug = page[t].slug
           /\ Htmx(t, kind, token, target).token = token
           /\ Htmx(t, kind, token, target).target = target
           /\ Htmx(t, kind, token, target).tokenCookie =
                IF kind \in Guarded THEN Value(tokenCookie) ELSE None
           /\ Htmx(t, kind, token, target).slugCookie = Value(tenantCookie)
<1>1. PICK link : link = Link(kind, None)
  OBVIOUS
<1>2. /\ link \in Request /\ link.kind = kind
      /\ link.tokenCookie = IF kind \in Guarded THEN Value(tokenCookie) ELSE None
      /\ link.slugCookie = Value(tenantCookie)
  BY <1>1, LinkTyped
<1>3. page[t].slug \in Tenants \cup {None}
  BY DEF TypeOK, Page
<1>4. Htmx(t, kind, token, target) =
        [link EXCEPT !.slug = page[t].slug, !.token = token, !.target = target]
  BY <1>1 DEF Htmx
<1> QED
  BY <1>2, <1>3, <1>4 DEF Request

(* Sending: one tab waits for one more request, and nothing else changes.  *)
LEMMA SendTyped ==
    ASSUME TypeOK, NEW t \in Tabs, NEW r \in Request, Send(t, r)
    PROVE  /\ TypeOK' /\ req[t] = None /\ req'[t] = r
           /\ \A u \in Tabs : u # t => req'[u] = req[u]
           /\ UNCHANGED <<processVars, now, people, signIns, jarVars, page, session>>
BY DEF Send, TypeOK, ProcessTypeOK, processVars, jarVars

LEMMA ViewTyped ==
    ASSUME NEW v \in {"plain", "form", "users", "redirect"}
    PROVE  /\ View(v) \in Page /\ View(v).view = v /\ View(v).buttons = {}
           /\ View(v).slug = None
BY DEF View, Page

LEMMA WithoutButtonTyped ==
    ASSUME NEW p \in Page, NEW u
    PROVE  /\ WithoutButton(p, u) \in Page
           /\ WithoutButton(p, u).view = p.view /\ WithoutButton(p, u).slug = p.slug
           /\ WithoutButton(p, u).token = p.token /\ WithoutButton(p, u).user = p.user
           /\ WithoutButton(p, u).buttons \subseteq p.buttons
<1>1. PICK rest : rest = {b \in p.buttons : b.user # u}
  OBVIOUS
<1>2. WithoutButton(p, u) = [p EXCEPT !.buttons = rest] /\ rest \subseteq p.buttons
  BY <1>1 DEF WithoutButton
<1> QED
  BY <1>2 DEF Page

LEMMA RefusedTyped ==
    ASSUME NEW p \in Page, NEW r \in Request
    PROVE  /\ Refused(p, r) \in Page
           /\ \/ Refused(p, r) = View("plain")
              \/ Refused(p, r) = WithoutButton(p, r.target)
              \/ Refused(p, r) = p
BY ViewTyped, WithoutButtonTyped DEF Refused

(* Answering: the tab shows another page, and waits no more.               *)
LEMMA AnswerTyped ==
    ASSUME TypeOK, NEW t \in Tabs, NEW p \in Page, Show(t, p), Done(t)
    PROVE  /\ page' \in [Tabs -> Page] /\ req' \in [Tabs -> Request \cup {None}]
           /\ page'[t] = p /\ req'[t] = None
           /\ \A u \in Tabs : u # t => page'[u] = page[u] /\ req'[u] = req[u]
BY DEF TypeOK, Show, Done

LEMMA KeepTenantTyped ==
    ASSUME TypeOK, NEW t \in Tabs, Resolved(req[t]), KeepTenant(req[t])
    PROVE  /\ tenantCookie' \in Cookie(Tenants) \cup {None}
           /\ visit' \in Visit \cup {None}
<1>1. now \in Nat /\ now + TenantCookieLife \in Nat
  BY LifeAssumption DEF TypeOK
<1> QED
  BY <1>1, Actives DEF KeepTenant, Chosen, TypeOK, Cookie, Visit

(* What an answer leaves of the tenant cookie: it, or one it chose.        *)
KeepsTenant(t) ==
    \/ UNCHANGED <<tenantCookie, visit>>
    \/ req[t] # None /\ Resolved(req[t]) /\ KeepTenant(req[t])

LEMMA RefuseTyped ==
    ASSUME TypeOK, NEW t \in Tabs, req[t] # None, Refuse(t)
    PROVE  /\ page' \in [Tabs -> Page] /\ req' \in [Tabs -> Request \cup {None}]
           /\ req'[t] = None
           /\ \/ page'[t] = View("plain") \/ page'[t] = page[t]
              \/ page'[t] = WithoutButton(page[t], req[t].target)
           /\ \A u \in Tabs : u # t => page'[u] = page[u] /\ req'[u] = req[u]
<1>1. page[t] \in Page /\ req[t] \in Request
  BY DEF TypeOK
<1> QED
  BY <1>1, RefusedTyped, AnswerTyped DEF Refuse
-----------------------------------------------------------------------------
(* Every kind of step, and what it does to the tabs and the cookies.       *)
LEMMA AskSends ==
    ASSUME TypeOK, NEW t \in Tabs, Ask(t)
    PROVE  \E r \in Request : Send(t, r)
<1> USE DEF Paths, Posts, Guarded
<1>1. CASE Follow(t) \/ FollowRedirect(t)
  BY <1>1, LinkTyped DEF Follow, FollowRedirect
<1>2. CASE SubmitForm(t)
  BY <1>2, HtmxTyped DEF SubmitForm
<1>3. page[t] \in Page
  BY DEF TypeOK
<1>4. CASE SubmitUser(t) \/ ClickLogout(t)
  BY <1>3, <1>4, HtmxTyped DEF SubmitUser, ClickLogout, Page
<1>5. CASE ClickDelete(t)
  <2>1. PICK b \in page[t].buttons : Send(t, Htmx(t, "delete", b.token, b.user))
    BY <1>5 DEF ClickDelete
  <2>2. b.token \in Token /\ b.user \in Users
    BY <1>3, <2>1 DEF Page, Button
  <2> QED
    BY <2>1, <2>2, HtmxTyped
<1> QED
  BY <1>1, <1>2, <1>4, <1>5 DEF Ask

LEMMA SlugTyped ==
    ASSUME TypeOK, NEW t \in Tabs, req[t] # None
    PROVE  /\ req[t] \in Request /\ page[t] \in Page
           /\ SlugOf(req[t]) \in Tenants \cup {None}
           /\ TokenOf(req[t]) \in Token \cup {None}
           /\ RawToken(req[t]) = TokenOf(req[t])
BY DEF TypeOK, Request, SlugOf, TokenOf, RawToken

LEMMA NewTokenTyped ==
    ASSUME TypeOK, Serving, NEW u \in Users, NEW tenant \in Tenants
    PROVE  /\ NewToken(u, tenant) \in Token /\ NewToken(u, tenant).sub = u
           /\ NewToken(u, tenant).role = RoleOf[u] /\ NewToken(u, tenant).tenant = tenant
<1>1. container \in Settings
  BY DEF TypeOK, ProcessTypeOK, Serving
<1>2. ExpiryFrom(now) \in Nat
  <2>1. container.jwt_expire_minutes \in Nat /\ now \in Nat
    BY <1>1, LifetimesAssumption DEF TypeOK, Settings
  <2> QED
    BY <2>1 DEF ExpiryFrom
<1>3. container.jwt_secret \in Secrets
  BY <1>1 DEF Settings
<1>4. RoleOf[u] \in Role
  BY HomeAssumption
<1> QED
  BY <1>2, <1>3, <1>4 DEF NewToken, Token

(* The refusals, the answers that only show a page, and the lost requests. *)
Declines(t) ==
    RefuseTenant(t) \/ RefuseToken(t) \/ RefuseForm(t) \/ RefuseChange(t) \/ Logout(t)

LEMMA DeclinesTyped ==
    ASSUME TypeOK, NEW t \in Tabs, Declines(t)
    PROVE  TypeOK' /\ Refuse(t) /\ req[t] # None /\ KeepsTenant(t)
           /\ UNCHANGED <<processVars, now, people, signIns, tokenCookie, session>>
<1>1. /\ Refuse(t) /\ req[t] # None /\ KeepsTenant(t)
      /\ UNCHANGED <<processVars, now, people, signIns, tokenCookie, session>>
  BY DEF Declines, RefuseTenant, RefuseToken, RefuseForm, RefuseChange, Logout, Admitted,
         Pending, jarVars, KeepsTenant
<1>2. tenantCookie' \in Cookie(Tenants) \cup {None} /\ visit' \in Visit \cup {None}
  BY <1>1, KeepTenantTyped DEF TypeOK, KeepsTenant
<1> QED
  BY <1>1, <1>2, RefuseTyped DEF TypeOK, ProcessTypeOK, processVars

LEMMA LoseRequestTyped ==
    ASSUME TypeOK, NEW t \in Tabs, LoseRequest(t)
    PROVE  /\ TypeOK' /\ req'[t] = None /\ page'[t] \in {View("plain"), page[t]}
           /\ \A u \in Tabs : u # t => page'[u] = page[u] /\ req'[u] = req[u]
           /\ UNCHANGED <<processVars, now, people, signIns, jarVars, session>>
<1>1. Lost(page[t], req[t]) \in Page /\ Lost(page[t], req[t]) \in {View("plain"), page[t]}
  BY ViewTyped DEF Lost, TypeOK
<1> QED
  BY <1>1, AnswerTyped DEF LoseRequest, TypeOK, ProcessTypeOK, processVars, jarVars

LEMMA ShowPublicTyped ==
    ASSUME TypeOK, NEW t \in Tabs, ShowPublic(t)
    PROVE  /\ TypeOK' /\ req'[t] = None /\ page'[t].view # "users" /\ page'[t].buttons = {}
           /\ KeepsTenant(t)
           /\ \A u \in Tabs : u # t => page'[u] = page[u] /\ req'[u] = req[u]
           /\ UNCHANGED <<processVars, now, people, signIns, tokenCookie, session>>
<1>1. PICK form : form = [View("form") EXCEPT !.slug = SlugOf(req[t])]
  OBVIOUS
<1>2. SlugOf(req[t]) \in Tenants
  BY Actives DEF ShowPublic, Admitted
<1>3. form \in Page /\ form.view = "form" /\ form.buttons = {}
  BY <1>1, <1>2, ViewTyped DEF Page
<1>4. PICK shown : shown = IF req[t].kind = "form" THEN form ELSE View("plain")
  OBVIOUS
<1>5. shown \in Page /\ shown.view # "users" /\ shown.buttons = {}
  BY <1>3, <1>4, ViewTyped
<1>6. /\ Show(t, shown) /\ Done(t) /\ Resolved(req[t]) /\ KeepTenant(req[t])
      /\ UNCHANGED <<processVars, now, people, signIns, tokenCookie, session>>
      /\ req[t] # None
  BY <1>1, <1>4 DEF ShowPublic, Admitted, Pending
<1> QED
  BY <1>5, <1>6, AnswerTyped, KeepTenantTyped DEF TypeOK, ProcessTypeOK, processVars, KeepsTenant

LEMMA ButtonsTyped ==
    ASSUME NEW shown \in SUBSET Users, NEW principal \in Token, NEW token \in Token
    PROVE  /\ Buttons(shown, principal, token) \in SUBSET Button
           /\ \A b \in Buttons(shown, principal, token) :
                  /\ b.token = token /\ b.user \in shown \ {principal.sub}
                  /\ Privileged(principal.role)
BY DEF Buttons, Button

LEMMA AuthorisedIs ==
    ASSUME TypeOK, NEW t \in Tabs, req[t] # None, Authorised(req[t])
    PROVE  /\ TokenOf(req[t]) \in Token /\ TokenOf(req[t]).tenant = SlugOf(req[t])
           /\ people[TokenOf(req[t]).sub] = SlugOf(req[t])
           /\ TokenOf(req[t]).sub \in Users
BY SlugTyped DEF Authorised, Authenticated, Token

LEMMA ShowUsersTyped ==
    ASSUME TypeOK, NEW t \in Tabs, ShowUsers(t)
    PROVE  /\ TypeOK' /\ req'[t] = None /\ req[t].kind = "users"
           /\ OneSession(page'[t]) /\ page'[t].slug \in Active
           /\ page'[t].token = TokenOf(req[t]) /\ page'[t].token \in Token
           /\ page'[t].view = "users" /\ page'[t].user \in Users /\ KeepsTenant(t)
           /\ page'[t].buttons # {} => Privileged(page'[t].token.role)
           /\ \A u \in Tabs : u # t => page'[u] = page[u] /\ req'[u] = req[u]
           /\ UNCHANGED <<processVars, now, people, signIns, tokenCookie, session>>
<1>1. /\ req[t] # None /\ req[t].kind = "users" /\ Resolved(req[t]) /\ Authorised(req[t])
  BY DEF ShowUsers, Admitted, Pending
<1>2. PICK token : token = TokenOf(req[t])
  OBVIOUS
<1>3. PICK slug : slug = SlugOf(req[t])
  OBVIOUS
<1>4. PICK buttons : buttons = Buttons(Here(slug), token, token)
  OBVIOUS
<1>5. token \in Token /\ token # None /\ token.tenant = slug /\ token.sub \in Users
      /\ slug \in Active /\ slug \in Tenants /\ RawToken(req[t]) = token
  BY <1>1, <1>2, <1>3, AuthorisedIs, SlugTyped, Actives, NoneAssumption DEF Resolved
<1>6. Here(slug) \in SUBSET Users
  BY DEF Here
<1>7. /\ buttons \in SUBSET Button
      /\ \A b \in buttons : b.token = token /\ b.user # token.sub /\ Privileged(token.role)
  BY <1>4, <1>5, <1>6, ButtonsTyped
<1>8. PICK shown : shown = [view |-> "users", slug |-> slug, token |-> token,
                            user |-> token.sub, buttons |-> buttons]
  OBVIOUS
<1>9. /\ shown \in Page /\ shown.view = "users" /\ shown.slug = slug /\ shown.token = token
      /\ shown.user = token.sub /\ shown.buttons = buttons
  BY <1>5, <1>7, <1>8 DEF Page
<1>10. /\ Show(t, shown) /\ Done(t) /\ KeepTenant(req[t])
       /\ UNCHANGED <<processVars, now, people, signIns, tokenCookie, session>>
  BY <1>2, <1>3, <1>4, <1>5, <1>8 DEF ShowUsers
<1>11. TypeOK'
  BY <1>1, <1>9, <1>10, AnswerTyped, KeepTenantTyped DEF TypeOK, ProcessTypeOK, processVars
<1>12. OneSession(shown)
  BY <1>5, <1>7, <1>9 DEF OneSession
<1>13. KeepsTenant(t)
  BY <1>1, <1>10 DEF KeepsTenant
<1> QED
  BY <1>1, <1>2, <1>5, <1>7, <1>9, <1>10, <1>11, <1>12, <1>13, AnswerTyped

LEMMA GiveTokenTyped ==
    ASSUME TypeOK, NEW t \in Tabs, Serving, req[t] # None, req[t].target \in Users,
           Resolved(req[t]), GiveToken(t)
    PROVE  \E token \in Token :
               /\ token.role = RoleOf[token.sub]
               /\ tokenCookie' = [value |-> token, until |-> now + TokenCookieLife]
               /\ session' = [token |-> token, at |-> now]
               /\ tokenCookie' \in Cookie(Token) /\ session' \in SignedIn
               /\ tenantCookie' \in Cookie(Tenants) \cup {None} /\ signIns' \in Nat
               /\ visit' \in Visit \cup {None} /\ KeepTenant(req[t])
               /\ page' \in [Tabs -> Page] /\ req' \in [Tabs -> Request \cup {None}]
               /\ page'[t] = View("redirect") /\ req'[t] = None
               /\ \A u \in Tabs : u # t => page'[u] = page[u] /\ req'[u] = req[u]
<1>1. PICK token : token = NewToken(req[t].target, SlugOf(req[t]))
  OBVIOUS
<1>2. token \in Token /\ token.role = RoleOf[token.sub]
  BY <1>1, NewTokenTyped, Actives
<1>3. /\ tokenCookie' = [value |-> token, until |-> now + TokenCookieLife]
      /\ session' = [token |-> token, at |-> now]
      /\ signIns' = signIns + 1 /\ Show(t, View("redirect")) /\ Done(t) /\ KeepTenant(req[t])
  BY <1>1 DEF GiveToken
<1>4. now \in Nat /\ now + TokenCookieLife \in Nat /\ signIns \in Nat
  BY LifeAssumption DEF TypeOK
<1>5. tokenCookie' \in Cookie(Token) /\ session' \in SignedIn
  BY <1>2, <1>3, <1>4 DEF Cookie, SignedIn
<1>6. tenantCookie' \in Cookie(Tenants) \cup {None} /\ visit' \in Visit \cup {None}
  BY <1>3, KeepTenantTyped
<1>7. View("redirect") \in Page
  BY ViewTyped
<1>8. /\ page' \in [Tabs -> Page] /\ req' \in [Tabs -> Request \cup {None}]
      /\ page'[t] = View("redirect") /\ req'[t] = None
      /\ \A u \in Tabs : u # t => page'[u] = page[u] /\ req'[u] = req[u]
  BY <1>3, <1>7, AnswerTyped
<1>9. signIns' \in Nat
  BY <1>3, <1>4
<1> QED
  BY <1>2, <1>3, <1>5, <1>6, <1>8, <1>9

(* What a registration, a creation or a deletion leaves of the people.     *)
LEMMA PeopleTyped ==
    ASSUME TypeOK, NEW t \in Tabs, req[t] # None, Resolved(req[t]), req[t].target \in Users,
           people' = Created(req[t]) \/ people' = Deleted(req[t])
    PROVE  /\ people' \in [Users -> Tenants \cup {"new", "deleted"}]
           /\ \A u \in Users : u # req[t].target => people'[u] = people[u]
           /\ people' = Created(req[t]) => people'[req[t].target] = SlugOf(req[t])
BY Actives DEF Created, Deleted, TypeOK

SignsIn(t) == SignIn(t) \/ Register(t)

LEMMA SignsInTyped ==
    ASSUME TypeOK, NEW t \in Tabs, SignsIn(t), req[t].target \in Users
    PROVE  /\ TypeOK' /\ GiveToken(t) /\ Serving /\ req[t] # None /\ Resolved(req[t])
           /\ UNCHANGED <<processVars, now>>
<1>1. /\ GiveToken(t) /\ Serving /\ req[t] # None /\ Resolved(req[t])
      /\ UNCHANGED <<processVars, now>>
      /\ UNCHANGED people \/ people' = Created(req[t])
  BY DEF SignsIn, SignIn, Register, Admitted, Pending
<1>2. people' \in [Users -> Tenants \cup {"new", "deleted"}]
  BY <1>1, PeopleTyped DEF TypeOK
<1> QED
  BY <1>1, <1>2, GiveTokenTyped DEF TypeOK, ProcessTypeOK, processVars

LEMMA CreateUserTyped ==
    ASSUME TypeOK, NEW t \in Tabs, CreateUser(t), req[t].target \in Users
    PROVE  /\ TypeOK' /\ req'[t] = None /\ KeepsTenant(t)
           /\ page'[t].view = page[t].view /\ page'[t].slug = page[t].slug
           /\ page'[t].token = page[t].token /\ page'[t].user = page[t].user
           /\ \A b \in page'[t].buttons : b \in page[t].buttons
                \/ (/\ b.token = TokenOf(req[t]) /\ b.user # TokenOf(req[t]).sub
                    /\ Privileged(TokenOf(req[t]).role))
           /\ \A u \in Tabs : u # t => page'[u] = page[u] /\ req'[u] = req[u]
           /\ UNCHANGED <<processVars, now, signIns, tokenCookie, session>>
<1>1. /\ req[t] # None /\ Resolved(req[t]) /\ Authorised(req[t]) /\ people' = Created(req[t])
  BY DEF CreateUser, Admitted, Pending
<1>2. PICK token : token = TokenOf(req[t])
  OBVIOUS
<1>3. PICK added : added = Buttons({req[t].target}, token, token)
  OBVIOUS
<1>4. token \in Token /\ RawToken(req[t]) = token
  BY <1>1, <1>2, AuthorisedIs, SlugTyped
<1>5. /\ added \in SUBSET Button
      /\ \A b \in added : b.token = token /\ b.user # token.sub /\ Privileged(token.role)
  <2>1. {req[t].target} \in SUBSET Users
    OBVIOUS
  <2> QED
    BY <1>3, <1>4, <2>1, ButtonsTyped
<1>6. PICK shown : shown = [page[t] EXCEPT !.buttons = @ \cup added]
  OBVIOUS
<1>7. /\ shown \in Page /\ shown.buttons = page[t].buttons \cup added
      /\ shown.view = page[t].view /\ shown.slug = page[t].slug
      /\ shown.token = page[t].token /\ shown.user = page[t].user
  <2>1. page[t] \in Page
    BY DEF TypeOK
  <2> QED
    BY <1>5, <1>6, <2>1 DEF Page
<1>8. /\ Show(t, shown) /\ Done(t) /\ KeepTenant(req[t])
      /\ UNCHANGED <<processVars, now, signIns, tokenCookie, session>>
  BY <1>2, <1>3, <1>4, <1>6 DEF CreateUser
<1>9. TypeOK'
  BY <1>1, <1>7, <1>8, AnswerTyped, KeepTenantTyped, PeopleTyped
     DEF TypeOK, ProcessTypeOK, processVars
<1>10. KeepsTenant(t)
  BY <1>1, <1>8 DEF KeepsTenant
<1> QED
  BY <1>2, <1>5, <1>7, <1>8, <1>9, <1>10, AnswerTyped

LEMMA DeleteUserTyped ==
    ASSUME TypeOK, NEW t \in Tabs, DeleteUser(t), req[t].target \in Users
    PROVE  /\ TypeOK' /\ req'[t] = None /\ KeepsTenant(t)
           /\ page'[t] = WithoutButton(page[t], req[t].target)
           /\ \A u \in Tabs : u # t => page'[u] = page[u] /\ req'[u] = req[u]
           /\ UNCHANGED <<processVars, now, signIns, tokenCookie, session>>
<1>1. /\ req[t] # None /\ Resolved(req[t]) /\ people' = Deleted(req[t])
      /\ Show(t, WithoutButton(page[t], req[t].target)) /\ Done(t) /\ KeepTenant(req[t])
      /\ UNCHANGED <<processVars, now, signIns, tokenCookie, session>>
  BY DEF DeleteUser, Admitted, Pending
<1>2. WithoutButton(page[t], req[t].target) \in Page
  BY WithoutButtonTyped DEF TypeOK
<1> QED
  BY <1>1, <1>2, AnswerTyped, KeepTenantTyped, PeopleTyped
     DEF TypeOK, ProcessTypeOK, processVars, KeepsTenant

LEMMA LoseAnswerTyped ==
    ASSUME TypeOK, NEW t \in Tabs, LoseAnswer(t), req[t].target \in Users
    PROVE  /\ TypeOK' /\ req'[t] = None /\ UNCHANGED page
           /\ \A u \in Tabs : u # t => req'[u] = req[u]
           /\ UNCHANGED <<processVars, now, signIns, jarVars, session>>
<1>1. /\ req[t] # None /\ Resolved(req[t])
      /\ people' = Created(req[t]) \/ people' = Deleted(req[t])
      /\ Done(t) /\ UNCHANGED <<processVars, now, signIns, jarVars, page, session>>
  BY DEF LoseAnswer, Admitted, Pending
<1>2. /\ req' \in [Tabs -> Request \cup {None}] /\ req'[t] = None
      /\ \A u \in Tabs : u # t => req'[u] = req[u]
  BY <1>1 DEF Done, TypeOK
<1> QED
  BY <1>1, <1>2, PeopleTyped DEF TypeOK, ProcessTypeOK, processVars, jarVars

LEMMA TickTyped ==
    ASSUME TypeOK, Tick
    PROVE  /\ TypeOK' /\ now' = now + 1
           /\ UNCHANGED <<processVars, people, signIns, tabVars, session, visit>>
           /\ tokenCookie' = Kept(tokenCookie, now')
           /\ tenantCookie' = Kept(tenantCookie, now')
BY DEF Tick, Kept, TypeOK, ProcessTypeOK, processVars, tabVars

LEMMA ServerTyped ==
    ASSUME TypeOK, StartServer \/ StopServer
    PROVE  TypeOK' /\ UNCHANGED <<now, people, signIns, jarVars, tabVars, session>>
<1>1. ProcessTypeOK'
  BY DEF StartServer, StopServer, Start, Stop, CreateContainer, GetSettings, TypeOK,
         ProcessTypeOK
<1> QED
  BY <1>1 DEF StartServer, StopServer, TypeOK, tabVars, jarVars
-----------------------------------------------------------------------------
(* Tokens carry the role of their user; a page is of one session; what a   *)
(* tab waits for is what its page sent; the cookies are those of the last  *)
(* sign-in and of the tenant last chosen, until their age is over.         *)
Genuine(token) == token.role = RoleOf[token.sub]

PageCoherent(p) ==
    /\ p.view = "users" => OneSession(p) /\ Genuine(p.token) /\ p.slug \in Active
    /\ p.buttons # {} => p.view = "users" /\ Privileged(p.token.role)

Follows(r) ==
    r.session # None =>
        /\ r.tokenCookie = r.session.token \/ r.sent >= r.session.at + TokenCookieLife
        /\ r.visit # None /\ r.visit.tenant \in Active
        /\ r.slugCookie = r.visit.tenant \/ r.sent >= r.visit.at + TenantCookieLife

RequestCoherent(r, p) ==
    /\ r.kind \in {"signin", "register", "create", "delete"} => r.target \in Users
    /\ r.kind = "register" =>
           /\ p.view = "form" /\ r.slug = p.slug /\ p.slug # None
           /\ RoleOf[r.target] = "MEMBER"
    /\ r.kind \in {"create", "delete"} =>
           /\ p.view = "users" /\ r.slug = p.slug /\ r.token = p.token
           /\ Privileged(r.token.role)
    /\ r.tokenCookie # None => Genuine(r.tokenCookie)
    /\ r.slugCookie # None => visit # None
    /\ r.kind = "users" => r.slug = None /\ r.token = None /\ Follows(r)

JarCoherent ==
    /\ tokenCookie # None => Genuine(tokenCookie.value)
    /\ session # None =>
           \/ /\ tokenCookie # None /\ tokenCookie.value = session.token
              /\ tokenCookie.until = session.at + TokenCookieLife
           \/ tokenCookie = None /\ now >= session.at + TokenCookieLife

ChoiceCoherent ==
    /\ visit = None => tenantCookie = None
    /\ visit # None =>
           /\ visit.tenant \in Active
           /\ \/ /\ tenantCookie # None /\ tenantCookie.value = visit.tenant
                 /\ tenantCookie.until = visit.at + TenantCookieLife
              \/ tenantCookie = None /\ now >= visit.at + TenantCookieLife

TabCoherent(t) ==
    PageCoherent(page[t]) /\ (req[t] # None => RequestCoherent(req[t], page[t]))

Coherent ==
    /\ JarCoherent /\ ChoiceCoherent
    /\ session # None => visit # None
    /\ \A t \in Tabs : TabCoherent(t)

LEMMA SentCookies ==
    ASSUME TypeOK, Coherent
    PROVE  /\ Value(tokenCookie) # None => Genuine(Value(tokenCookie))
           /\ Value(tenantCookie) # None => visit # None
           /\ session # None =>
                /\ Value(tokenCookie) = session.token \/ now >= session.at + TokenCookieLife
                /\ visit # None /\ visit.tenant \in Active
                /\ Value(tenantCookie) = visit.tenant \/ now >= visit.at + TenantCookieLife
BY DEF Coherent, JarCoherent, ChoiceCoherent, Value

(* Whatever a page sends is what the page shows.                           *)
LEMMA AskCoherent ==
    ASSUME TypeOK, Coherent, NEW t \in Tabs, Ask(t)
    PROVE  \E r \in Request : Send(t, r) /\ RequestCoherent(r, page[t])
<1> USE SentCookies DEF Paths, Posts, Guarded
<1>1. CASE Follow(t) \/ FollowRedirect(t)
  <2>1. PICK kind \in Paths, param \in Tenants \cup {None} : Send(t, Link(kind, param))
    BY <1>1 DEF Follow, FollowRedirect
  <2>2. RequestCoherent(Link(kind, param), page[t])
    BY LinkTyped DEF RequestCoherent, Follows
  <2> QED
    BY <2>1, <2>2, LinkTyped
<1>2. page[t] \in Page /\ PageCoherent(page[t])
  BY DEF TypeOK, Coherent, TabCoherent
<1>3. CASE SubmitForm(t)
  <2>1. PICK u \in Users, kind \in {"signin", "register"} :
          /\ Send(t, Htmx(t, kind, None, u)) /\ Home[u] = page[t].slug
          /\ kind = "register" => RoleOf[u] = "MEMBER"
    BY <1>3 DEF SubmitForm
  <2>2. page[t].slug # None /\ page[t].view = "form"
    BY <1>3, <2>1, HomeAssumption, NoneAssumption DEF SubmitForm
  <2>3. RequestCoherent(Htmx(t, kind, None, u), page[t])
    BY <2>1, <2>2, HtmxTyped DEF RequestCoherent
  <2> QED
    BY <2>1, <2>3, HtmxTyped
<1>4. CASE SubmitUser(t)
  <2>1. PICK u \in Users : Send(t, Htmx(t, "create", page[t].token, u))
    BY <1>4 DEF SubmitUser
  <2>2. page[t].view = "users" /\ Privileged(page[t].token.role) /\ page[t].token \in Token \cup {None}
    BY <1>2, <1>4 DEF SubmitUser, Page
  <2>3. RequestCoherent(Htmx(t, "create", page[t].token, u), page[t])
    BY <2>2, HtmxTyped DEF RequestCoherent
  <2> QED
    BY <2>1, <2>2, <2>3, HtmxTyped
<1>5. CASE ClickDelete(t)
  <2>1. PICK b \in page[t].buttons : Send(t, Htmx(t, "delete", b.token, b.user))
    BY <1>5 DEF ClickDelete
  <2>2. b.token \in Token /\ b.user \in Users
    BY <1>2, <2>1 DEF Page, Button
  <2>3. page[t].view = "users" /\ b.token = page[t].token /\ Privileged(page[t].token.role)
    BY <1>2, <2>1 DEF PageCoherent, OneSession
  <2>4. RequestCoherent(Htmx(t, "delete", b.token, b.user), page[t])
    BY <2>2, <2>3, HtmxTyped DEF RequestCoherent
  <2> QED
    BY <2>1, <2>2, <2>4, HtmxTyped
<1>6. CASE ClickLogout(t)
  <2>1. Send(t, Htmx(t, "logout", page[t].token, None)) /\ page[t].token \in Token \cup {None}
    BY <1>2, <1>6 DEF ClickLogout, Page
  <2>2. RequestCoherent(Htmx(t, "logout", page[t].token, None), page[t])
    BY <2>1, HtmxTyped DEF RequestCoherent
  <2> QED
    BY <2>1, <2>2, HtmxTyped
<1> QED
  BY <1>1, <1>3, <1>4, <1>5, <1>6 DEF Ask

(* The tenant cookie an answer leaves is that of the tenant last chosen.   *)
LEMMA ChoiceStep ==
    ASSUME TypeOK, Coherent, NEW t \in Tabs, KeepsTenant(t), UNCHANGED now
    PROVE  /\ ChoiceCoherent' /\ (visit # None => visit' # None)
           /\ req[t] # None /\ Resolved(req[t]) /\ KeepTenant(req[t]) => visit' # None
<1>1. CASE req[t] # None /\ Resolved(req[t]) /\ KeepTenant(req[t])
  <2>1. CASE req[t].slugCookie # None
    <3>1. UNCHANGED <<tenantCookie, visit>>
      BY <1>1, <2>1 DEF KeepTenant, Chosen
    <3>2. visit # None
      BY <1>1, <2>1 DEF Coherent, TabCoherent, RequestCoherent
    <3> QED
      BY <3>1, <3>2 DEF Coherent, ChoiceCoherent
  <2>2. CASE req[t].slugCookie = None
    <3>1. PICK chosen : chosen = [tenant |-> SlugOf(req[t]), at |-> now]
      OBVIOUS
    <3>2. chosen \in Visit /\ chosen.tenant \in Active /\ chosen # None
      BY <1>1, <3>1, Actives, NoneAssumption DEF Resolved, Visit, TypeOK
    <3>3. PICK cookie : cookie = [value |-> SlugOf(req[t]), until |-> now + TenantCookieLife]
      OBVIOUS
    <3>4. cookie # None
      <4>1. now + TenantCookieLife \in Nat
        BY LifeAssumption DEF TypeOK
      <4>2. cookie \in Cookie(Tenants)
        BY <1>1, <3>3, <4>1, Actives DEF Cookie
      <4> QED
        BY <4>2, NoneAssumption
    <3>5. visit' = chosen /\ tenantCookie' = cookie
      BY <1>1, <2>2, <3>1, <3>3 DEF KeepTenant, Chosen
    <3> QED
      BY <3>1, <3>2, <3>3, <3>4, <3>5 DEF ChoiceCoherent
  <2> QED
    BY <2>1, <2>2
<1>2. CASE /\ UNCHANGED <<tenantCookie, visit>>
           /\ ~(req[t] # None /\ Resolved(req[t]) /\ KeepTenant(req[t]))
  BY <1>2 DEF Coherent, ChoiceCoherent
<1> QED
  BY <1>1, <1>2 DEF KeepsTenant

(* An answer that leaves the clock and the token cookie alone.             *)
LEMMA AnswerCoherent ==
    ASSUME TypeOK, Coherent, NEW t \in Tabs, PageCoherent(page[t])', req'[t] = None,
           \A u \in Tabs : u # t => page'[u] = page[u] /\ req'[u] = req[u],
           KeepsTenant(t), UNCHANGED <<now, tokenCookie, session>>
    PROVE  Coherent'
<1>1. JarCoherent'
  BY DEF Coherent, JarCoherent, Genuine
<1>4. ChoiceCoherent' /\ (visit # None => visit' # None)
  BY ChoiceStep
<1>2. TabCoherent(t)'
  BY DEF TabCoherent
<1>3. ASSUME NEW u \in Tabs, u # t PROVE TabCoherent(u)'
  BY <1>3, <1>4 DEF Coherent, TabCoherent, PageCoherent, RequestCoherent, OneSession, Genuine, Follows
<1> QED
  BY <1>1, <1>2, <1>3, <1>4 DEF Coherent

LEMMA PlainCoherent ==
    ASSUME NEW p, p.view # "users", p.buttons = {}
    PROVE  PageCoherent(p)
BY DEF PageCoherent

LEMMA FewerButtonsCoherent ==
    ASSUME NEW p \in Page, NEW u, PageCoherent(p)
    PROVE  PageCoherent(WithoutButton(p, u))
<1>1. PICK q : q = WithoutButton(p, u)
  OBVIOUS
<1>2. /\ q.view = p.view /\ q.slug = p.slug /\ q.token = p.token /\ q.user = p.user
      /\ q.buttons \subseteq p.buttons
  BY <1>1, WithoutButtonTyped
<1>3. PageCoherent(q)
  BY <1>2 DEF PageCoherent, OneSession, Genuine
<1> QED
  BY <1>1, <1>3

LEMMA RequestIs ==
    ASSUME TypeOK, Coherent, NEW t \in Tabs, req[t] # None
    PROVE  /\ RequestCoherent(req[t], page[t]) /\ PageCoherent(page[t])
           /\ req[t].kind \in Guarded /\ TokenOf(req[t]) # None => Genuine(TokenOf(req[t]))
BY DEF Coherent, TabCoherent, RequestCoherent, PageCoherent, OneSession, TokenOf, Guarded

(* Which endpoint answers, and whom it is about.                           *)
LEMMA AnswersKind ==
    ASSUME TypeOK, Coherent, NEW t \in Tabs
    PROVE  /\ SignIn(t) => req[t].kind = "signin"
           /\ Register(t) => req[t].kind = "register"
           /\ CreateUser(t) => req[t].kind = "create" /\ Authorised(req[t])
           /\ DeleteUser(t) => req[t].kind = "delete" /\ Authorised(req[t])
           /\ LoseAnswer(t) => req[t].kind \in {"register", "create", "delete"}
           /\ SignIn(t) \/ Register(t) \/ CreateUser(t) \/ DeleteUser(t) \/ LoseAnswer(t)
                => req[t] # None /\ req[t].target \in Users
<1>1. /\ SignIn(t) => req[t].kind = "signin"
      /\ Register(t) => req[t].kind = "register"
      /\ CreateUser(t) => req[t].kind = "create" /\ Authorised(req[t])
      /\ DeleteUser(t) => req[t].kind = "delete" /\ Authorised(req[t])
      /\ LoseAnswer(t) => req[t].kind \in {"register", "create", "delete"}
      /\ SignIn(t) \/ Register(t) \/ CreateUser(t) \/ DeleteUser(t) \/ LoseAnswer(t)
           => req[t] # None
  BY DEF SignIn, Register, CreateUser, DeleteUser, LoseAnswer, Admitted, Pending
<1> QED
  BY <1>1, RequestIs DEF RequestCoherent

LEMMA TabStep ==
    ASSUME TypeOK, Coherent, NEW t \in Tabs, Ask(t) \/ Answer(t) \/ LoseRequest(t) \/ LoseAnswer(t)
    PROVE  TypeOK' /\ Coherent'
<1>1. CASE Ask(t)
  <2>1. PICK r \in Request : Send(t, r) /\ RequestCoherent(r, page[t])
    BY <1>1, AskCoherent
  <2>2. /\ TypeOK' /\ req[t] = None /\ req'[t] = r
        /\ \A u \in Tabs : u # t => req'[u] = req[u]
        /\ UNCHANGED <<now, jarVars, page, session>>
    BY <2>1, SendTyped
  <2>3. JarCoherent' /\ ChoiceCoherent' /\ UNCHANGED <<session, visit>>
    BY <2>2 DEF Coherent, JarCoherent, ChoiceCoherent, Genuine, jarVars
  <2>4. TabCoherent(t)'
    BY <2>1, <2>2, <2>3 DEF Coherent, TabCoherent, PageCoherent, OneSession, RequestCoherent,
                      Genuine, Follows
  <2>5. ASSUME NEW u \in Tabs, u # t PROVE TabCoherent(u)'
    BY <2>2, <2>3, <2>5 DEF Coherent, TabCoherent, PageCoherent, OneSession, RequestCoherent,
                      Genuine, Follows
  <2> QED
    BY <2>2, <2>3, <2>4, <2>5 DEF Coherent
<1>2. CASE Declines(t)
  <2>1. /\ TypeOK' /\ Refuse(t) /\ req[t] # None
        /\ KeepsTenant(t) /\ UNCHANGED <<now, tokenCookie, session>>
    BY <1>2, DeclinesTyped
  <2>2. PageCoherent(page[t]) /\ page[t] \in Page
    BY DEF Coherent, TabCoherent, TypeOK
  <2>3. PageCoherent(page'[t])
    BY <2>1, <2>2, RefuseTyped, PlainCoherent, FewerButtonsCoherent, ViewTyped
  <2> QED
    BY <2>1, <2>3, RefuseTyped, AnswerCoherent
<1>3. CASE LoseRequest(t)
  <2>1. PageCoherent(page[t])
    BY DEF Coherent, TabCoherent
  <2>2. PageCoherent(page'[t])
    BY <1>3, <2>1, LoseRequestTyped, PlainCoherent, ViewTyped
  <2> QED
    BY <1>3, <2>2, LoseRequestTyped, AnswerCoherent DEF jarVars, KeepsTenant
<1>4. CASE ShowPublic(t)
  BY <1>4, ShowPublicTyped, PlainCoherent, AnswerCoherent
<1>5. CASE ShowUsers(t)
  <2>1. req[t] # None /\ req[t].kind \in Guarded
    BY <1>5 DEF ShowUsers, Admitted, Pending, Guarded
  <2>2. Genuine(page'[t].token)
    BY <1>5, <2>1, RequestIs, ShowUsersTyped, NoneAssumption
  <2>3. PageCoherent(page'[t])
    BY <1>5, <2>2, ShowUsersTyped DEF PageCoherent
  <2> QED
    BY <1>5, <2>3, ShowUsersTyped, AnswerCoherent
<1>6. CASE SignsIn(t)
  <2>1. req[t].target \in Users
    BY <1>6, AnswersKind DEF SignsIn
  <2>2. /\ TypeOK' /\ GiveToken(t) /\ Serving /\ req[t] # None /\ Resolved(req[t])
        /\ UNCHANGED now
    BY <1>6, <2>1, SignsInTyped
  <2>3. PICK token \in Token :
          /\ token.role = RoleOf[token.sub]
          /\ tokenCookie' = [value |-> token, until |-> now + TokenCookieLife]
          /\ session' = [token |-> token, at |-> now]
          /\ tokenCookie' \in Cookie(Token)
          /\ page'[t] = View("redirect") /\ req'[t] = None /\ KeepTenant(req[t])
          /\ \A u \in Tabs : u # t => page'[u] = page[u] /\ req'[u] = req[u]
    BY <2>1, <2>2, GiveTokenTyped
  <2>4. JarCoherent'
    BY <2>3, NoneAssumption DEF JarCoherent, Genuine
  <2>5. TabCoherent(t)'
    BY <2>3, ViewTyped DEF TabCoherent, PageCoherent
  <2>8. KeepsTenant(t)
    BY <2>2, <2>3 DEF KeepsTenant
  <2>7. ChoiceCoherent' /\ visit' # None
    BY <2>2, <2>3, <2>8, ChoiceStep
  <2>6. ASSUME NEW u \in Tabs, u # t PROVE TabCoherent(u)'
    BY <2>2, <2>3, <2>6, <2>7 DEF Coherent, TabCoherent, PageCoherent, OneSession, RequestCoherent,
                            Genuine, Follows
  <2> QED
    BY <2>2, <2>4, <2>5, <2>6, <2>7 DEF Coherent
<1>7. CASE CreateUser(t)
  <2>1. req[t].kind = "create" /\ req[t] # None /\ req[t].target \in Users /\ Authorised(req[t])
    BY <1>7, AnswersKind
  <2>2. /\ page[t].view = "users" /\ req[t].token = page[t].token /\ PageCoherent(page[t])
        /\ Privileged(req[t].token.role)
    BY <2>1, RequestIs DEF RequestCoherent
  <2>3. TokenOf(req[t]) = page[t].token /\ page[t].token.sub = page[t].user
    BY <2>2 DEF TokenOf, PageCoherent, OneSession
  <2>4. PageCoherent(page'[t])
    BY <1>7, <2>1, <2>2, <2>3, CreateUserTyped DEF PageCoherent, OneSession, Genuine
  <2> QED
    BY <1>7, <2>1, <2>4, CreateUserTyped, AnswerCoherent
<1>8. CASE DeleteUser(t)
  <2>1. req[t].target \in Users
    BY <1>8, AnswersKind
  <2>2. PageCoherent(page[t]) /\ page[t] \in Page
    BY DEF Coherent, TabCoherent, TypeOK
  <2>3. PageCoherent(page'[t])
    BY <1>8, <2>1, <2>2, DeleteUserTyped, FewerButtonsCoherent
  <2> QED
    BY <1>8, <2>1, <2>3, DeleteUserTyped, AnswerCoherent
<1>9. CASE LoseAnswer(t)
  <2>1. req[t].target \in Users /\ PageCoherent(page[t])
    BY <1>9, AnswersKind DEF Coherent, TabCoherent
  <2>2. /\ TypeOK' /\ req'[t] = None /\ UNCHANGED <<page, now, tokenCookie, session>>
        /\ \A u \in Tabs : u # t => req'[u] = req[u]
    BY <1>9, <2>1, LoseAnswerTyped DEF jarVars
  <2>3. KeepsTenant(t)
    BY <1>9, <2>1, LoseAnswerTyped DEF jarVars, KeepsTenant
  <2> QED
    BY <2>1, <2>2, <2>3, AnswerCoherent
<1> QED
  BY <1>1, <1>2, <1>3, <1>4, <1>5, <1>6, <1>7, <1>8, <1>9 DEF Answer, Declines, SignsIn

LEMMA BrowserStep == TypeOK /\ Coherent /\ [Next]_vars => TypeOK' /\ Coherent'
<1> SUFFICES ASSUME TypeOK, Coherent, [Next]_vars PROVE TypeOK' /\ Coherent'
  OBVIOUS
<1>1. CASE Tick
  <2>1. /\ TypeOK' /\ now' = now + 1 /\ UNCHANGED <<page, req, session, visit>>
        /\ tokenCookie' = Kept(tokenCookie, now') /\ tenantCookie' = Kept(tenantCookie, now')
    BY <1>1, TickTyped DEF tabVars
  <2>2. now \in Nat /\ (session # None => session.at \in Nat) /\ (visit # None => visit.at \in Nat)
    BY DEF TypeOK, SignedIn, Visit
  <2>3. JarCoherent'
    BY <2>1, <2>2, LifeAssumption DEF Coherent, JarCoherent, Kept, Genuine
  <2>4. ChoiceCoherent'
    BY <2>1, <2>2, LifeAssumption DEF Coherent, ChoiceCoherent, Kept
  <2>5. ASSUME NEW t \in Tabs PROVE TabCoherent(t)'
    BY <2>1 DEF Coherent, TabCoherent, PageCoherent, OneSession, RequestCoherent, Genuine, Follows
  <2> QED
    BY <2>1, <2>3, <2>4, <2>5 DEF Coherent
<1>2. CASE StartServer \/ StopServer \/ UNCHANGED vars
  <2>1. TypeOK' /\ UNCHANGED <<now, tokenCookie, tenantCookie, page, req, session, visit>>
    <3>1. CASE UNCHANGED vars
      BY <3>1 DEF vars, processVars, jarVars, tabVars, TypeOK, ProcessTypeOK
    <3> QED
      BY <1>2, <3>1, ServerTyped DEF jarVars, tabVars
  <2> QED
    BY <2>1 DEF Coherent, JarCoherent, ChoiceCoherent, TabCoherent, PageCoherent, OneSession,
                RequestCoherent, Genuine, Follows
<1> QED
  BY <1>1, <1>2, TabStep DEF Next

LEMMA BrowserInit == Init => TypeOK /\ Coherent
<1> SUFFICES ASSUME Init PROVE TypeOK /\ Coherent
  OBVIOUS
<1>1. View("plain") \in Page /\ View("plain").view # "users" /\ View("plain").buttons = {}
  BY ViewTyped
<1>2. ProcessTypeOK
  BY DEF Init, ProcessInit, ProcessTypeOK
<1>3. people \in [Users -> Tenants \cup {"new", "deleted"}]
  BY HomeAssumption DEF Init
<1>4. TypeOK
  BY <1>1, <1>2, <1>3 DEF Init, TypeOK
<1>5. JarCoherent /\ ChoiceCoherent /\ session = None
  BY DEF Init, JarCoherent, ChoiceCoherent
<1>6. ASSUME NEW t \in Tabs PROVE TabCoherent(t)
  BY <1>1, <1>6, PlainCoherent DEF Init, TabCoherent
<1> QED
  BY <1>4, <1>5, <1>6 DEF Coherent

(* The invariant behind the theorems of this module.                       *)
THEOREM BrowserInvariant == Spec => [](TypeOK /\ Coherent)
BY BrowserInit, BrowserStep, PTL DEF Spec

(* The typing that the run "browser" checks, for any number of tabs.       *)
THEOREM BrowserTyped == Spec => []TypeOK
BY BrowserInvariant, PTL

(* Sessions are never mixed on a users page: raw_token is the token the    *)
(* principal was read from, and an appended row comes from a request that  *)
(* carried the token of the page it is appended to.                        *)
THEOREM PagesAreOneSession == Spec => []PageIsOneSession
<1>1. Coherent => PageIsOneSession
  BY DEF Coherent, TabCoherent, PageCoherent, PageIsOneSession
<1> QED
  BY <1>1, BrowserInvariant, PTL
-----------------------------------------------------------------------------
(* What a request that changes users is about.                             *)
LEMMA ChangeIsOfPage ==
    ASSUME TypeOK, Coherent, NEW t \in Tabs, req[t] # None, req[t].kind \in {"create", "delete"}
    PROVE  /\ page[t].view = "users" /\ SlugOf(req[t]) = page[t].slug
           /\ page[t].slug \in Active /\ page[t].token \in Token
           /\ TokenOf(req[t]) = page[t].token /\ page[t].token.sub = page[t].user
           /\ page[t].token.tenant = page[t].slug
           /\ Genuine(page[t].token) /\ Privileged(page[t].token.role)
<1>1. RequestCoherent(req[t], page[t]) /\ PageCoherent(page[t])
  BY RequestIs
<1>2. /\ page[t].view = "users" /\ req[t].slug = page[t].slug /\ req[t].token = page[t].token
      /\ Privileged(req[t].token.role)
  BY <1>1 DEF RequestCoherent
<1>3. OneSession(page[t]) /\ Genuine(page[t].token) /\ page[t].slug \in Active
  BY <1>1, <1>2 DEF PageCoherent
<1>4. page[t].slug # None /\ page[t].token # None
  BY <1>3, ActiveAssumption, NoneAssumption DEF OneSession
<1>5. page[t].token \in Token
  BY <1>4 DEF TypeOK, Page
<1> QED
  BY <1>2, <1>3, <1>4, <1>5 DEF OneSession, SlugOf, TokenOf

LEMMA RegistrationIsOfPage ==
    ASSUME TypeOK, Coherent, NEW t \in Tabs, req[t] # None, req[t].kind = "register"
    PROVE  /\ page[t].view = "form" /\ SlugOf(req[t]) = page[t].slug
           /\ ~Privileged(RoleOf[req[t].target])
<1>1. RequestCoherent(req[t], page[t])
  BY RequestIs
<1>2. /\ page[t].view = "form" /\ req[t].slug = page[t].slug /\ page[t].slug # None
      /\ RoleOf[req[t].target] = "MEMBER"
  BY <1>1 DEF RequestCoherent
<1>3. SlugOf(req[t]) = page[t].slug
  BY <1>2 DEF SlugOf
<1> QED
  BY <1>2, <1>3, RoleLevels DEF Privileged, RoleSatisfies

(* The steps that change users, answered or not.                           *)
Registers(t) ==
    /\ Admitted(t, {"register"}) /\ people[req[t].target] = "new" /\ people' = Created(req[t])
Creates(t) ==
    /\ Admitted(t, {"create"}) /\ Authorised(req[t])
    /\ people[req[t].target] = "new" /\ people' = Created(req[t])
Deletes(t) ==
    /\ Admitted(t, {"delete"}) /\ Authorised(req[t])
    /\ req[t].target \in Here(SlugOf(req[t])) /\ people' = Deleted(req[t])

LEMMA WhoChangesPeople ==
    ASSUME TypeOK, Coherent, [Next]_vars, UNCHANGED people => FALSE
    PROVE  \E t \in Tabs : Registers(t) \/ Creates(t) \/ Deletes(t)
<1>1. ~Tick /\ ~StartServer /\ ~StopServer /\ ~UNCHANGED vars
  BY TickTyped, ServerTyped DEF vars
<1>2. PICK t \in Tabs : Ask(t) \/ Answer(t) \/ LoseRequest(t) \/ LoseAnswer(t)
  BY <1>1 DEF Next
<1>3. ~Ask(t) /\ ~LoseRequest(t) /\ ~Declines(t) /\ ~ShowPublic(t) /\ ~ShowUsers(t)
  BY AskSends, SendTyped, LoseRequestTyped, DeclinesTyped, ShowPublicTyped, ShowUsersTyped
<1>4. Register(t) \/ CreateUser(t) \/ DeleteUser(t) \/ LoseAnswer(t)
  BY <1>2, <1>3 DEF Answer, Declines, SignIn
<1> QED
  BY <1>4 DEF Register, CreateUser, DeleteUser, LoseAnswer, Registers, Creates, Deletes

(* Users change only as their tab shows: the header of a page outranks     *)
(* whatever cookie another tab has left in the jar.                        *)
THEOREM ChangesSeen == Spec => ChangesAreSeen
<1> DEFINE Seen == \A u \in Users : people'[u] # people[u] => \E t \in Tabs : OnBehalfOfPage(t, u)
<1>1. TypeOK /\ Coherent /\ [Next]_vars => [Seen]_vars
  <2> SUFFICES ASSUME TypeOK, Coherent, [Next]_vars, NEW u \in Users, people'[u] # people[u]
               PROVE  \E t \in Tabs : OnBehalfOfPage(t, u)
    OBVIOUS
  <2>1. PICK t \in Tabs : Registers(t) \/ Creates(t) \/ Deletes(t)
    BY WhoChangesPeople
  <2>2. req[t] # None /\ Resolved(req[t])
    BY <2>1 DEF Registers, Creates, Deletes, Admitted, Pending
  <2>3. req[t].kind \in {"register", "create", "delete"}
    BY <2>1 DEF Registers, Creates, Deletes, Admitted, Pending
  <2>4. req[t].target \in Users
    BY <2>2, <2>3, RequestIs DEF RequestCoherent
  <2>5. req[t].target = u
    BY <2>1, <2>2, <2>4, PeopleTyped DEF Registers, Creates, Deletes
  <2>6. CASE Registers(t)
    <3>1. people[u] = "new" /\ people'[u] = SlugOf(req[t]) /\ req[t].kind = "register"
      BY <2>2, <2>4, <2>5, <2>6, PeopleTyped DEF Registers, Admitted, Pending
    <3> QED
      BY <2>2, <2>5, <3>1, RegistrationIsOfPage DEF OnBehalfOfPage
  <2>7. CASE Creates(t) \/ Deletes(t)
    <3>1. /\ req[t].kind \in {"create", "delete"} /\ Authorised(req[t])
          /\ people[TokenOf(req[t]).sub] = SlugOf(req[t]) /\ TokenOf(req[t]).sub \in Users
      BY <2>2, <2>7, AuthorisedIs DEF Creates, Deletes, Admitted, Pending
    <3>2. (IF people[u] = "new" THEN people'[u] ELSE people[u]) = SlugOf(req[t])
      <4>1. CASE Creates(t)
        BY <2>2, <2>4, <2>5, <4>1, PeopleTyped DEF Creates
      <4>2. CASE Deletes(t)
        <5>1. SlugOf(req[t]) # "new"
          BY <2>2, Actives, TenantsAssumption
        <5> QED
          BY <2>5, <4>2, <5>1 DEF Deletes, Here
      <4> QED
        BY <2>7, <4>1, <4>2
    <3>3. /\ page[t].view = "users" /\ SlugOf(req[t]) = page[t].slug
          /\ TokenOf(req[t]).sub = page[t].user /\ Privileged(RoleOf[page[t].user])
      BY <2>2, <3>1, ChangeIsOfPage DEF Genuine
    <3>4. page[t].user \in Here(page[t].slug)
      BY <3>1, <3>3 DEF Here
    <3> QED
      BY <2>2, <2>5, <3>1, <3>2, <3>3, <3>4 DEF OnBehalfOfPage
  <2> QED
    BY <2>1, <2>6, <2>7
<1>2. Spec => [][Seen]_vars
  BY <1>1, BrowserInvariant, PTL DEF Spec
<1> QED
  BY <1>2 DEF ChangesAreSeen
-----------------------------------------------------------------------------
(* A token that is still good decodes.                                     *)
LEMMA GoodDecodes ==
    ASSUME TypeOK, NEW token \in Token, ~NoGood(token)
    PROVE  Decodes(token)
BY DEF NoGood, Decodes, SignedByUs, TypeOK, Token

(* Whoever opens the users page is refused by the middleware or by         *)
(* get_current_user for the causes named only: within its age, the token   *)
(* cookie is that of the last sign-in, and the tenant cookie names the     *)
(* tenant last chosen.                                                     *)
THEOREM SignedInServed == Spec => SignedInIsServed
<1> DEFINE Served == \A t \in Tabs :
        (RefuseTenant(t) \/ RefuseToken(t)) /\ req[t].kind = "users" /\ req[t].session # None
            => ReasonToRefuse(req[t])
<1>1. TypeOK /\ Coherent => Served
  <2> SUFFICES ASSUME TypeOK, Coherent, NEW t \in Tabs, RefuseTenant(t) \/ RefuseToken(t),
                      req[t].kind = "users", req[t].session # None, ~ReasonToRefuse(req[t])
               PROVE  FALSE
    OBVIOUS
  <2>1. /\ req[t] # None /\ req[t] \in Request
        /\ ~Resolved(req[t]) \/ ~Authorised(req[t])
    BY DEF RefuseTenant, RefuseToken, Admitted, Pending, TypeOK
  <2>2. req[t].slug = None /\ req[t].token = None /\ Follows(req[t])
    BY <2>1, RequestIs DEF RequestCoherent
  <2>3. PICK last \in SignedIn : last = req[t].session
    BY <2>1 DEF Request
  <2>4. /\ last.token \in Token /\ last.token # None
    BY <2>3, NoneAssumption DEF SignedIn
  <2>5. TokenOf(req[t]) = last.token
    BY <2>2, <2>3 DEF Follows, TokenOf, ReasonToRefuse
  <2>6. /\ req[t].slugCookie = last.token.tenant /\ last.token.tenant \in Active
        /\ last.token.tenant # None
    BY <2>2, <2>3, ActiveAssumption, NoneAssumption DEF Follows, ReasonToRefuse
  <2>7. SlugOf(req[t]) = last.token.tenant
    BY <2>2, <2>6 DEF SlugOf
  <2>8. Authenticated(req[t])
    BY <2>3, <2>4, <2>5, <2>7, GoodDecodes DEF Authenticated, ReasonToRefuse
  <2>9. PassesRequireRole(TokenOf(req[t]).role, RequiredRoles(Endpoint(req[t])))
    BY <2>4, <2>5, GuardedEndpoints DEF Token, Endpoint
  <2> QED
    BY <2>1, <2>6, <2>7, <2>8, <2>9 DEF Authorised, Resolved
<1>2. Spec => [][Served]_vars
  BY <1>1, BrowserInvariant, PTL DEF Spec
<1> QED
  BY <1>2 DEF SignedInIsServed

(* The headers of a users page are enough for its requests, so no change   *)
(* of the cookies disturbs it.                                             *)
THEOREM PagesGoOnWorking == Spec => PageGoesOnWorking
<1> DEFINE Works == \A t \in Tabs :
        (RefuseTenant(t) \/ RefuseToken(t)) /\ req[t].kind \in {"create", "delete"}
            => \/ people[page[t].user] # page[t].slug
               \/ NoGood(page[t].token)
<1>1. TypeOK /\ Coherent => Works
  <2> SUFFICES ASSUME TypeOK, Coherent, NEW t \in Tabs, RefuseTenant(t) \/ RefuseToken(t),
                      req[t].kind \in {"create", "delete"},
                      people[page[t].user] = page[t].slug
               PROVE  NoGood(page[t].token)
    OBVIOUS
  <2>1. req[t] # None /\ (~Resolved(req[t]) \/ ~Authorised(req[t]))
    BY DEF RefuseTenant, RefuseToken, Admitted, Pending
  <2>2. /\ SlugOf(req[t]) = page[t].slug /\ page[t].slug \in Active
        /\ TokenOf(req[t]) = page[t].token /\ page[t].token \in Token
        /\ page[t].token.sub = page[t].user /\ page[t].token.tenant = page[t].slug
        /\ Privileged(page[t].token.role)
    BY <2>1, ChangeIsOfPage
  <2>3. ~Authorised(req[t])
    BY <2>1, <2>2 DEF Resolved
  <2>4. PassesRequireRole(TokenOf(req[t]).role, RequiredRoles(Endpoint(req[t])))
    BY <2>2, GuardedEndpoints DEF Token, Endpoint
  <2> QED
    BY <2>2, <2>3, <2>4, NoneAssumption, GoodDecodes DEF Authorised, Authenticated
<1>2. Spec => [][Works]_vars
  BY <1>1, BrowserInvariant, PTL DEF Spec
<1> QED
  BY <1>2 DEF PageGoesOnWorking
=============================================================================
