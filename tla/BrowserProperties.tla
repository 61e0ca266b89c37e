-------------------------- MODULE BrowserProperties --------------------------
(* What the pages, cookies and headers must do together, however many tabs *)
(* share a browser and however late an answer comes.                       *)
EXTENDS Browser

(* A users page never mixes sessions: the user it shows, the token on its  *)
(* body and on every button, rows added later included, and the tenant it  *)
(* names belong together, although any other tab may meanwhile have        *)
(* changed both cookies (raw_token in list_users and create_user).         *)
OneSession(p) ==
    /\ p.token # None /\ p.token.sub = p.user /\ p.token.tenant = p.slug
    /\ \A b \in p.buttons : b.token = p.token /\ b.user # p.user

PageIsOneSession == \A t \in Tabs : page[t].view = "users" => OneSession(page[t])

(* Users change only by what somebody sees and does: in the tenant the     *)
(* page of the request shows, and either by its registrant or in the name  *)
(* of the very user the page shows, who is there and privileged.           *)
OnBehalfOfPage(t, u) ==
    LET place == IF people[u] = "new" THEN people'[u] ELSE people[u]
    IN  /\ req[t] # None /\ req[t].target = u /\ page[t].slug = place
        /\ \/ page[t].view = "form" /\ people[u] = "new" /\ ~Privileged(RoleOf[u])
           \/ /\ page[t].view = "users" /\ req[t].kind \in {"create", "delete"}
              /\ page[t].user \in Here(place) /\ Privileged(RoleOf[page[t].user])
              /\ TokenOf(req[t]).sub = page[t].user

ChangesAreSeen ==
    [][\A u \in Users : people'[u] # people[u] => \E t \in Tabs : OnBehalfOfPage(t, u)]_vars

(* A token is no good once the second of its expiry has passed, nor to a   *)
(* server with another secret.                                             *)
NoGood(token) == now > token.exp \/ token.secret # container.jwt_secret

(* Whoever has signed in and opens the users page is refused only because  *)
(* the token of the last sign-in is no good or its user is gone; because   *)
(* one of the two cookies had reached its age when the request was sent    *)
(* (use does not renew the tenant cookie, so that even a fresh sign-in can *)
(* be answered that no tenant is named); or because the tenant last chosen *)
(* for the browser is another one, be it by another tab or by an answer    *)
(* that came late: the last to a request without a tenant cookie decides.  *)
(* No older sign-in gets in the way, and no tab that has a tenant cookie.  *)
ReasonToRefuse(r) ==
    \/ NoGood(r.session.token)
    \/ people[r.session.token.sub] # r.session.token.tenant
    \/ r.sent >= r.session.at + TokenCookieLife
    \/ r.sent >= r.visit.at + TenantCookieLife
    \/ r.visit.tenant # r.session.token.tenant

SignedInIsServed ==
    [][\A t \in Tabs :
        (RefuseTenant(t) \/ RefuseToken(t)) /\ req[t].kind = "users" /\ req[t].session # None
            => ReasonToRefuse(req[t])]_vars

(* A users page goes on working whatever becomes of the cookies, as long   *)
(* as its user and its token do: its requests carry headers of their own,  *)
(* and these come first (tenant_middleware.py, auth.py).                   *)
PageGoesOnWorking ==
    [][\A t \in Tabs :
        (RefuseTenant(t) \/ RefuseToken(t)) /\ req[t].kind \in {"create", "delete"}
            => \/ people[page[t].user] # page[t].slug
               \/ NoGood(page[t].token)]_vars
=============================================================================
