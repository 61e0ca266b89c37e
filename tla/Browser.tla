------------------------------- MODULE Browser -------------------------------
(* One browser at work on the HTML pages: its tabs, the two cookies they   *)
(* share, the headers a rendered page puts on its htmx requests, and what  *)
(* the server answers.  A request is sent with the cookies of that moment  *)
(* and answered in a later step, the tabs interleaving; the races inside   *)
(* one answer are those of TenantApi.                                      *)
EXTENDS Process, Roles

CONSTANTS
    Tenants,            \* slugs a request may name
    Active,             \* those of them that are active in the registry
    Users,              \* user ids, each of one tenant
    Home,               \* the tenant an owner is seeded in, or a user asks to join
    RoleOf,             \* the role of a user's membership
    Tabs,
    TenantCookieLife,   \* max_age of the tenant_slug cookie
    TokenCookieLife,    \* max_age of the access_token cookie
    MaxTime,            \* bound of the clock
    MaxSignIns          \* bound of the tokens ever given

ASSUME ActiveAssumption == Active \subseteq Tenants
ASSUME HomeAssumption == Home \in [Users -> Tenants] /\ RoleOf \in [Users -> Role]
ASSUME TenantsAssumption == Tenants \cap {"new", "deleted"} = {}
ASSUME LifeAssumption ==
    /\ TenantCookieLife \in Nat /\ TokenCookieLife \in Nat
    /\ MaxTime \in Nat /\ MaxSignIns \in Nat

Token == [sub : Users, tenant : Tenants, role : Role, exp : Nat, secret : Secrets]
Cookie(values) == [value : values, until : Nat]

(* What a tab shows.  "form" is the login or the register page, "redirect" *)
(* the moment between a HX-Redirect and the request it causes, "plain" a   *)
(* page that sends no htmx request: nothing yet, the landing page (which   *)
(* is rendered without its user), an error that replaced the document.  A  *)
(* button deletes the user it names.                                       *)
Button == [user : Users, token : Token]
Page == [view : {"plain", "form", "users", "redirect"},
         slug : Tenants \cup {None}, token : Token \cup {None},
         user : Users \cup {None}, buttons : SUBSET Button]

Paths == {"home", "form", "users"}
Posts == {"signin", "register", "create", "delete", "logout"}

(* The last token a sign-in gave this browser, and the last tenant an      *)
(* answer chose for it, and when (history).                                *)
SignedIn == [token : Token, at : Nat]
Visit    == [tenant : Tenants, at : Nat]

(* A request: its htmx headers, the cookies sent, the ?tenant= parameter,  *)
(* the user its form or path names; of one for the users page also when it *)
(* was sent, and the last sign-in and visit by then (history).             *)
Request == [kind : Paths \cup Posts, slug : Tenants \cup {None}, token : Token \cup {None},
            slugCookie : Tenants \cup {None}, tokenCookie : Token \cup {None},
            param : Tenants \cup {None}, target : Users \cup {None},
            session : SignedIn \cup {None}, visit : Visit \cup {None}, sent : Nat]

ASSUME NoneAssumption ==
    /\ None \notin Tenants /\ None \notin Users /\ None \notin Token
    /\ None \notin SignedIn /\ None \notin Visit /\ None \notin Request
    /\ None \notin Cookie(Tenants) /\ None \notin Cookie(Token)

VARIABLES
    now,          \* the clock
    people,       \* the tenant whose database has the user, "new" or "deleted"
    signIns,      \* tokens given so far (bound)
    tenantCookie, \* the tenant_slug cookie, or None
    tokenCookie,  \* the access_token cookie, or None
    page,         \* what each tab shows
    req,          \* the request each tab waits for, or None
    session,      \* the last sign-in of this browser, or None (history)
    visit         \* the last tenant chosen for this browser, or None (history)

jarVars == <<tenantCookie, tokenCookie, visit>>
tabVars == <<page, req>>
vars == <<processVars, now, people, signIns, jarVars, tabVars, session>>

TypeOK ==
    /\ ProcessTypeOK
    /\ now \in Nat
    /\ people \in [Users -> Tenants \cup {"new", "deleted"}]
    /\ signIns \in Nat
    /\ tenantCookie \in Cookie(Tenants) \cup {None}
    /\ tokenCookie \in Cookie(Token) \cup {None}
    /\ page \in [Tabs -> Page]
    /\ req \in [Tabs -> Request \cup {None}]
    /\ session \in SignedIn \cup {None}
    /\ visit \in Visit \cup {None}

View(v) == [view |-> v, slug |-> None, token |-> None, user |-> None, buttons |-> {}]

(* The owners are seeded, everyone else is yet to come.                    *)
Init ==
    /\ ProcessInit
    /\ now = 0
    /\ people = [u \in Users |-> IF RoleOf[u] = "OWNER" THEN Home[u] ELSE "new"]
    /\ signIns = 0
    /\ tenantCookie = None
    /\ tokenCookie = None
    /\ page = [t \in Tabs |-> View("plain")]
    /\ req = [t \in Tabs |-> None]
    /\ session = None
    /\ visit = None
-----------------------------------------------------------------------------
(* Sending.  A followed link carries the cookies only; the one that may    *)
(* name a tenant is the landing link.  A htmx request also carries the     *)
(* headers its page was rendered with.  What an endpoint does not read is  *)
(* left out: the token cookie of the others than the guarded ones, and the *)
(* empty Bearer of the form pages.                                         *)
Value(cookie) == IF cookie = None THEN None ELSE cookie.value

Guarded == {"users", "create", "delete"}

Link(kind, param) ==
    [kind |-> kind, slug |-> None, token |-> None, slugCookie |-> Value(tenantCookie),
     tokenCookie |-> IF kind \in Guarded THEN Value(tokenCookie) ELSE None,
     param |-> param, target |-> None,
     session |-> IF kind = "users" THEN session ELSE None,
     visit |-> IF kind = "users" THEN visit ELSE None,
     sent |-> IF kind = "users" THEN now ELSE 0]

Htmx(t, kind, token, target) ==
    [Link(kind, None) EXCEPT !.slug = page[t].slug, !.token = token, !.target = target]

Send(t, r) ==
    /\ req[t] = None
    /\ req' = [req EXCEPT ![t] = r]
    /\ UNCHANGED <<processVars, now, people, signIns, jarVars, page, session>>

Follow(t) ==
    /\ page[t].view # "redirect"
    /\ \/ \E path \in Paths : Send(t, Link(path, None))
       \/ \E tenant \in Tenants : Send(t, Link("home", tenant))

FollowRedirect(t) == page[t].view = "redirect" /\ Send(t, Link("users", None))

(* A sign-in may name a user who is not there: answered 401, like a wrong  *)
(* password.                                                               *)
SubmitForm(t) ==
    /\ page[t].view = "form"
    /\ \E u \in Users :
        /\ Home[u] = page[t].slug
        /\ \/ Send(t, Htmx(t, "signin", None, u))
           \/ RoleOf[u] = "MEMBER" /\ Send(t, Htmx(t, "register", None, u))

(* The form of the users page is rendered for ADMIN and OWNER only.        *)
SubmitUser(t) ==
    /\ page[t].view = "users" /\ Privileged(page[t].token.role)
    /\ \E u \in Users :
        /\ Home[u] = page[t].slug /\ RoleOf[u] # "OWNER"
        /\ Send(t, Htmx(t, "create", page[t].token, u))

ClickDelete(t) == \E b \in page[t].buttons : Send(t, Htmx(t, "delete", b.token, b.user))

ClickLogout(t) ==
    page[t].view = "users" /\ Send(t, Htmx(t, "logout", page[t].token, None))
-----------------------------------------------------------------------------
(* Answering.  TenantMiddleware.dispatch: header, cookie, parameter.       *)
(* Mutant: the cookie comes before the header.                             *)
SlugOfCookieFirst(r) == IF r.slugCookie # None THEN r.slugCookie
                        ELSE IF r.slug # None THEN r.slug ELSE r.param

SlugOf(r) == IF r.slug # None THEN r.slug
             ELSE IF r.slugCookie # None THEN r.slugCookie ELSE r.param

(* Mutant: a request that names no tenant is let through.                  *)
ResolvedUnlessUnknown(r) == SlugOf(r) \notin Tenants \ Active

Resolved(r) == SlugOf(r) \in Active

(* get_current_user: the header, then the cookie; claims, tenant, user.    *)
(* Mutant: the cookie comes before the header.                             *)
TokenOfCookieFirst(r) == IF r.tokenCookie # None THEN r.tokenCookie ELSE r.token

TokenOf(r) == IF r.token # None THEN r.token ELSE r.tokenCookie

(* Mutant: not in the second the token expires in.                         *)
DecodesBefore(token) == SignedByUs(token.secret) /\ now < token.exp

Decodes(token) == SignedByUs(token.secret) /\ now <= token.exp

Authenticated(r) ==
    /\ TokenOf(r) # None
    /\ Decodes(TokenOf(r))
    /\ TokenOf(r).tenant = SlugOf(r)
    /\ people[TokenOf(r).sub] = SlugOf(r)

Endpoint(r) == IF r.kind = "users" THEN "list" ELSE r.kind
Authorised(r) == Authenticated(r) /\ PassesRequireRole(TokenOf(r).role, RequiredRoles(Endpoint(r)))

NewToken(u, tenant) == [sub |-> u, tenant |-> tenant, role |-> RoleOf[u],
                        exp |-> ExpiryFrom(now), secret |-> container.jwt_secret]

(* The request a tab waits for has reached a server that runs.             *)
Pending(t, kinds) == Serving /\ req[t] # None /\ req[t].kind \in kinds
Admitted(t, kinds) == Pending(t, kinds) /\ Resolved(req[t])

(* An answer that passed the middleware sets the tenant cookie, if the     *)
(* request came without one.                                               *)
Chosen(r) == IF r.slugCookie = None THEN [tenant |-> SlugOf(r), at |-> now] ELSE visit

KeepTenant(r) ==
    /\ tenantCookie' = IF r.slugCookie = None
                       THEN [value |-> SlugOf(r), until |-> now + TenantCookieLife]
                       ELSE tenantCookie
    /\ visit' = Chosen(r)

Show(t, p) == page' = [page EXCEPT ![t] = p]
Done(t)    == req' = [req EXCEPT ![t] = None]

(* A refusal replaces what the answer would have: the document of a link,  *)
(* the body (logout) or the row (delete) of a htmx request; a form shows   *)
(* it beside its fields.                                                   *)
WithoutButton(p, u) == [p EXCEPT !.buttons = {b \in @ : b.user # u}]

Refused(p, r) ==
    CASE r.kind \in Paths \cup {"logout"} -> View("plain")
      [] r.kind = "delete"                -> WithoutButton(p, r.target)
      [] OTHER                            -> p

Refuse(t) == Show(t, Refused(page[t], req[t])) /\ Done(t)

RefuseTenant(t) ==
    /\ Pending(t, Paths \cup Posts) /\ ~Resolved(req[t])
    /\ Refuse(t)
    /\ UNCHANGED <<processVars, now, people, signIns, jarVars, session>>

RefuseToken(t) ==
    /\ Admitted(t, Guarded) /\ ~Authorised(req[t])
    /\ Refuse(t)
    /\ KeepTenant(req[t])
    /\ UNCHANGED <<processVars, now, people, signIns, tokenCookie, session>>

(* pages.py: neither user nor token is passed to the template.             *)
ShowPublic(t) ==
    /\ Admitted(t, {"home", "form"})
    /\ Show(t, IF req[t].kind = "form"
               THEN [View("form") EXCEPT !.slug = SlugOf(req[t])] ELSE View("plain"))
    /\ Done(t)
    /\ KeepTenant(req[t])
    /\ UNCHANGED <<processVars, now, people, signIns, tokenCookie, session>>

(* list_users.  The page shows the principal and carries the token it was  *)
(* asked for with; a row can be deleted by the privileged, save their own. *)
Here(tenant) == {u \in Users : people[u] = tenant}

(* raw_token of both endpoints: the header, else the cookie.               *)
(* Mutant: the cookie comes before the header.                             *)
RawTokenCookieFirst(r) == IF r.tokenCookie # None THEN r.tokenCookie ELSE r.token

RawToken(r) == IF r.token # None THEN r.token ELSE r.tokenCookie

Buttons(shown, principal, token) ==
    IF Privileged(principal.role)
    THEN [user : shown \ {principal.sub}, token : {token}] ELSE {}

ShowUsers(t) ==
    LET r == req[t]
    IN  /\ Admitted(t, {"users"}) /\ Authorised(r)
        /\ Show(t, [view |-> "users", slug |-> SlugOf(r), token |-> RawToken(r),
                    user |-> TokenOf(r).sub,
                    buttons |-> Buttons(Here(SlugOf(r)), TokenOf(r), RawToken(r))])
        /\ Done(t)
        /\ KeepTenant(r)
        /\ UNCHANGED <<processVars, now, people, signIns, tokenCookie, session>>

(* What a served request leaves in the tenant's database.                  *)
Created(r) == [people EXCEPT ![r.target] = SlugOf(r)]
Deleted(r) == [people EXCEPT ![r.target] = "deleted"]

(* _build_htmx_auth_response: the token cookie, and a redirect.            *)
GiveToken(t) ==
    LET token == NewToken(req[t].target, SlugOf(req[t]))
    IN  /\ signIns < MaxSignIns
        /\ signIns' = signIns + 1
        /\ tokenCookie' = [value |-> token, until |-> now + TokenCookieLife]
        /\ session' = [token |-> token, at |-> now]
        /\ Show(t, View("redirect"))
        /\ Done(t)
        /\ KeepTenant(req[t])

CanSignIn(r) == r.target \in Here(SlugOf(r))

SignIn(t) ==
    /\ Admitted(t, {"signin"}) /\ CanSignIn(req[t])
    /\ GiveToken(t)
    /\ UNCHANGED <<processVars, now, people>>

Register(t) ==
    /\ Admitted(t, {"register"}) /\ people[req[t].target] = "new"
    /\ people' = Created(req[t])
    /\ GiveToken(t)
    /\ UNCHANGED <<processVars, now>>

(* Wrong credentials (401), or an address that is taken (409).             *)
RefuseForm(t) ==
    /\ \/ Admitted(t, {"signin"}) /\ ~CanSignIn(req[t])
       \/ Admitted(t, {"register"}) /\ people[req[t].target] # "new"
    /\ Refuse(t)
    /\ KeepTenant(req[t])
    /\ UNCHANGED <<processVars, now, people, signIns, tokenCookie, session>>

(* POST /users: the new row is appended, with a button of the requester.   *)
CreateUser(t) ==
    LET r == req[t]
    IN  /\ Admitted(t, {"create"}) /\ Authorised(r)
        /\ people[r.target] = "new"
        /\ people' = Created(r)
        /\ Show(t, [page[t] EXCEPT !.buttons = @ \cup Buttons({r.target}, TokenOf(r), RawToken(r))])
        /\ Done(t)
        /\ KeepTenant(r)
        /\ UNCHANGED <<processVars, now, signIns, tokenCookie, session>>

(* DELETE /users/{id}: the empty answer takes the place of the row.        *)
DeleteUser(t) ==
    LET r == req[t]
    IN  /\ Admitted(t, {"delete"}) /\ Authorised(r)
        /\ r.target \in Here(SlugOf(r))
        /\ people' = Deleted(r)
        /\ Show(t, WithoutButton(page[t], r.target))
        /\ Done(t)
        /\ KeepTenant(r)
        /\ UNCHANGED <<processVars, now, signIns, tokenCookie, session>>

RefuseChange(t) ==
    /\ \/ Admitted(t, {"create"}) /\ Authorised(req[t]) /\ people[req[t].target] # "new"
       \/ Admitted(t, {"delete"}) /\ Authorised(req[t]) /\ req[t].target \notin Here(SlugOf(req[t]))
    /\ Refuse(t)
    /\ KeepTenant(req[t])
    /\ UNCHANGED <<processVars, now, people, signIns, tokenCookie, session>>

(* No route answers POST /auth/logout: 404, and both cookies stay.         *)
Logout(t) ==
    /\ Admitted(t, {"logout"})
    /\ Refuse(t)
    /\ KeepTenant(req[t])
    /\ UNCHANGED <<processVars, now, people, signIns, tokenCookie, session>>

(* The answer never arrives: the request did not reach a server, or what   *)
(* it did is done and only the answer is lost.  A link ends in the         *)
(* browser's own error page, a htmx request leaves its page as it was.     *)
Lost(p, r) == IF r.kind \in Paths THEN View("plain") ELSE p

LoseRequest(t) ==
    /\ req[t] # None
    /\ Show(t, Lost(page[t], req[t]))
    /\ Done(t)
    /\ UNCHANGED <<processVars, now, people, signIns, jarVars, session>>

LoseAnswer(t) ==
    LET r == req[t]
    IN  /\ \/ Admitted(t, {"register"}) /\ people[r.target] = "new" /\ people' = Created(r)
           \/ Admitted(t, {"create"}) /\ Authorised(r) /\ people[r.target] = "new"
              /\ people' = Created(r)
           \/ Admitted(t, {"delete"}) /\ Authorised(r) /\ r.target \in Here(SlugOf(r))
              /\ people' = Deleted(r)
        /\ Done(t)
        /\ UNCHANGED <<processVars, now, signIns, jarVars, page, session>>
-----------------------------------------------------------------------------
(* Time passes, and cookies that have reached their max_age are gone.      *)
Kept(cookie, time) == IF cookie # None /\ time < cookie.until THEN cookie ELSE None

Tick ==
    /\ now < MaxTime
    /\ now' = now + 1
    /\ tenantCookie' = Kept(tenantCookie, now')
    /\ tokenCookie' = Kept(tokenCookie, now')
    /\ UNCHANGED <<processVars, people, signIns, tabVars, session, visit>>

StartServer == Start /\ UNCHANGED <<now, people, signIns, jarVars, tabVars, session>>
StopServer  == Stop /\ UNCHANGED <<now, people, signIns, jarVars, tabVars, session>>

Answer(t) ==
    \/ RefuseTenant(t) \/ RefuseToken(t) \/ ShowPublic(t) \/ ShowUsers(t)
    \/ SignIn(t) \/ Register(t) \/ RefuseForm(t)
    \/ CreateUser(t) \/ DeleteUser(t) \/ RefuseChange(t) \/ Logout(t)

Ask(t) ==
    \/ Follow(t) \/ FollowRedirect(t) \/ SubmitForm(t) \/ SubmitUser(t)
    \/ ClickDelete(t) \/ ClickLogout(t)

Next ==
    \/ \E t \in Tabs : Ask(t) \/ Answer(t) \/ LoseRequest(t) \/ LoseAnswer(t)
    \/ Tick \/ StartServer \/ StopServer

Spec == Init /\ [][Next]_vars
=============================================================================
