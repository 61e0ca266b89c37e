# Verification of fastapi-multi-tenant

TLA+ models of the multi-tenant user-management service in this repository:
modules checked with TLC on small instances, and theorems about them checked
with TLAPS for every size. Paths below are relative to the repository root.

## The system and its components

Every tenant has its own SQLite file with a `users` and a `memberships` table;
one more file, the registry, lists the tenants. An HTTP request names a tenant,
the middleware looks it up in the registry, and the endpoint works on that
tenant's file. Nothing else is shared: there is no server-side session, a JWT
carries user, tenant and role.

| Component | State | Operations | What is hard |
|---|---|---|---|
| Role hierarchy (`src/domain/entities.py`, `require_role`) | none | compare levels, minimum of the required roles | a guard that admits one level too many |
| Repositories (`src/infrastructure`) | registry, users, memberships | one session per method | nothing is held between two calls |
| Tenant middleware (`src/api/middleware`) | request state, `tenant_slug` cookie | resolve, refuse with 400/404, set the cookie | header, cookie and parameter may disagree |
| Authentication (`src/api/dependencies/auth.py`, services) | issued tokens | decode, compare tenant, read user, check role | the role comes from a token of any age; no membership is read |
| Registration, creation (`register_user.py`, `create_user.py`) | two rows | check address, insert user, assign role | check-then-insert race; two commits; conflicts, crashes |
| Login (`login.py`) | one token | find user, verify, read membership | deletion between the reads; addresses normalised here only |
| Listing, deletion (`list_users.py`, `users.py`) | rows read so far | read memberships, then each user; look up, then delete | reads over a changing store; concurrent deletions |
| Provisioning (`scripts`, `alembic`) | registry row, tables, version stamp, owner | register, migrate, create owner; migrate all | three steps of several processes, each may be the last |
| Browser session (pages, templates, cookies) | two cookies, a rendered page per tab | visit, log in, list, create, delete, expire, log out | tabs share cookies but each page carries headers of its own; answers come late or never |
| Container, settings (`container.py`, `config.py`) | process-wide singletons | read settings, build the container, end | a restart may change the secret under every token in use |
| Health and HTML pages (`health.py`, `pages.py`, templates) | none | render | what a page sends later is fixed when it is rendered |
| `GetTenantUseCase` | none | look a tenant up | nothing calls it |

FastAPI runs the synchronous endpoints in a thread pool, so requests really
interleave, between any two repository calls. Within one call SQLite makes a
commit atomic. `delete_by_id` is two statements (a SELECT, then a DELETE) and
SQLite takes no lock for the first, so it is two steps.

## Modules

* `Roles` - the role hierarchy and `require_role`.
* `Repositories` - the stored data (`registry`, `tables`, `users`,
  `memberships`) and the repository methods as operators. A row of `users` is
  indexed by its id; `drawn` holds the ids `uuid4` has returned, which never
  repeat. `Digest` is bcrypt seen from `verify`: it may map two passwords to
  one digest. `Canonical` is `EmailStr` (pydantic with email-validator, external):
  it maps a spelling to its normal form or refuses it.
* `TenantApi` - the API. Each member of `Workers` is a request slot; `pc` is the
  next database session of its request. `Receive` takes a request (kind, tenant,
  address, password, role, token, target) a client can send; `RefuseTenant`,
  `RefuseBody` and `Dispatch` are the middleware and body validation;
  `RefuseToken`, `RefusePrincipal` and `Authorise` are `get_current_user` and
  `require_role`; the rest are the use cases with their endpoints, one action per
  session and outcome. `MissingTable` and `SessionError` are sessions that raise
  (500), `Crash` the end of the process, `SetTenantActive` and `SetUserActive` edits of the `is_active`
  columns, which no endpoint writes.
* `TenantApiProperties` - what is required of it, and the refinement mapping.
* `Accounts` - the abstract specification: accounts are opened under a free
  address, enrolled once with a role they keep, closed for good; only privileged
  sessions of the tenant grant roles and close accounts. It ends with what it
  promises: one tenant per identifier (`OneHome`), sessions that state roles held
  (`SessionsTrue`), no two live accounts with one address (`AddressesUnique`),
  privileges only after an owner was appointed (`OwnersFirst`), and accounts that
  keep their role and stay closed (`AccountsLast`).
* `Provisioning` - the operator's commands. Each member of `Scripts` is a process
  running one of the four `Commands` of the Makefile, one action per commit.
  `InspectRegistry` and `CreateRegistryTable` are the `create_all` of `create_tenant`,
  which looks once for what is missing of three tables (the models package registers
  `users` and `memberships` too) and creates each in a commit of its own;
  `ReadRegistryVersion`, `CreateRegistryTable` and `StampRegistry` are the registry
  migration, which creates `tenants` only (`registrySchema` is what both leave); `CheckSlug` and `InsertTenant` the rest
  of `_register_tenant`; `ReadVersion`, `CreateTable` and `Stamp` one
  `alembic upgrade head` of a tenant (SQLite's DDL is not transactional there, so
  each CREATE TABLE commits by itself); `CreateOwner` and `AssignOwner` are
  `_create_owner`; `ReadSlugs` and `NextSlug` the loop over the active tenants, which
  Alembic without a `TENANT_SLUG` (`alembic/tenant/env.py`) runs in the same steps.
  `Fail` ends a command anywhere, `Visit` is a registration through the API, seen
  from outside.
* `ProvisioningProperties` - what is required of the commands.
* `System` - the API and the commands on the same data: every step is a step of
  one of them. It is checked to implement `Accounts`, whose `Appoint` is the
  seeding of an owner. `LockedOut` is a tenant nobody can manage.
* `Process` - the server process: `settings` is `_settings` of `config.py`,
  read from an environment once per process, `container` the configuration
  `init_container` gave it. `Start` and `Stop` are the two halves of `lifespan`;
  a process that is killed ends like one that is stopped.
* `Browser` - one browser, its tabs, and the server seen from there, on top of
  `Process`. `tenantCookie` and `tokenCookie` are the two cookies with the time
  their `max_age` ends; `page[t]` is what a tab shows, with the tenant and token its
  `hx-headers` carry and its delete buttons; `req[t]` is the request the tab waits for. `Follow`,
  `FollowRedirect`, `SubmitForm`, `SubmitUser`, `ClickDelete` and `ClickLogout` send a
  request with the cookies of that moment. Each answer is one step: `SlugOf` and
  `Resolved` are the middleware, `TokenOf`, `Decodes` and `Authenticated`
  `get_current_user`, `KeepTenant` the cookie the middleware sets, `GiveToken` the
  cookie and redirect of a sign-in, `ShowUsers` and `CreateUser` the templates with
  their `raw_token`, `Refused` what htmx makes of an error (it swaps every answer in).
  `LoseRequest` and `LoseAnswer` are requests and answers that never arrive.
  `session` and `visit` are history: the last sign-in of the browser, and the last tenant
  an answer chose for it; a request for the users page records both, and when it was sent.
* `BrowserProperties` - what pages, cookies and headers must do together.
* `MC_TenantApi`, `MC_Provisioning`, `MC_System`, `MC_Browser` and the `.cfg` files - the
  instances for TLC.
* `RolesProofs`, `TenantApiProofs`, `EnrolmentProofs`, `AccountsProofs`,
  `ProvisioningProofs`, `OutcomeProofs`, `SystemProofs` and `BrowserProofs` - the theorems.
  `AccountsProofs` is about the abstract specification, `EnrolmentProofs` ends with
  the refinement that carries it to the API, and `SystemProofs` takes it to API and
  commands together.

Definitions whose comment begins with "Mutant" are deliberate faults. Nothing
uses them: they document, for every checked property, a plausible change of the
code that breaks it.

## Runs

| Run | Question | Instance |
|---|---|---|
| `api_accounts` | Do racing requests, failing sessions and crashes keep addresses unique and tokens backed, and is every behaviour one of `Accounts`? | 1 tenant, 2 requests at once, 3 ids, 3 spellings (two of one address, one refused) |
| `api_isolation` | Is whoever is past a guard a member with the role, and does lost privilege stay lost? | 2 tenants with an owner each, 1 more id, tokens of both presented to both, expiry |
| `api_listing` | Is the list, read row by row, complete and right? Is every user without membership about to get one? | 1 tenant, 3 members, 2 requests, no faults |
| `api_answered` | Is every request answered? | all five kinds, 2 requests, failing sessions, operator edits, fairness |
| `orphan` (violated) | Same as in `api_listing`, with a crash | 1 request |
| `double_delete` (violated) | Does a deletion answered 200 remove the row? | 2 requests |
| `login_refused` (violated) | Is a login refused only for a documented cause? | 1 request |
| `provisioning` | Do racing, killed and repeated commands keep stamps, exit codes and owners true, and is what they leave half done final, the registry included? | 2 tenants, 2 commands of any of the four kinds, 3 ids, failures, visitors |
| `owner_arrives` | Does every tenant that is registered get its owner? | 2 tenants, 2 `create_tenant`, no failures, fairness |
| `migrate_race` (violated) | The same beside `migrate_all_tenants` | 1 tenant, 2 scripts, no failures, fairness |
| `system` | Is every behaviour of API and scripts together one of `Accounts`? Does a token keep stating its user's role, a user keep its role, every privilege come from an owner, and a tenant nobody can manage stay so? | 1 tenant not yet registered, 1 request, 2 scripts, 3 ids, two spellings of one address, failures |
| `browser` | Does every page act only as it shows and keep working, whatever other tabs do to the shared cookies? Is a browser that has signed in refused the users page only for the causes `ReasonToRefuse` names? | 2 tabs, 2 tenants, 3 users, 2 sign-ins, 2 secrets, cookies and tokens that expire, lost requests and answers, restarts |

Bounds. The clock (`MaxTime`) and the set of ids are finite; `IdLeftFor` starts
no creation when no id is left for it, so no request gets stuck for want of one.
Two requests at once exhibit every race here, since each is between two
sessions of one request and one session of another; the theorems cover more.
Three ids are an owner, a created user and one more, enough for a list with a
deleted row, for a user that replaces a deleted one and for two racing inserts; in
`system` they are an owner and two users. Two scripts exhibit the races of the
scripts: two creators of one slug, or a creator and a migration. In `api_answered`
the tenant is either provisioned or one whose `create_tenant` died before or
between its tables (`Unfinished`), so that sessions without a table happen.
In `browser` two tabs are enough for one to change the cookies under the other;
two sign-ins are an older session and a newer one, of two users, two tenants or both;
the token cookie lives 1 and the tenant cookie 2 ticks of the clock, which ends at 2,
so that either is outlived by the other and by a page; `MaxSignIns` and `MaxTime`
bound the rest. Starts of scripts and requests are bounded by the ids left (`IdLeft`, `EnoughIds`).
Requests, workers and ids are symmetric; the safety runs use that.

Fairness. Weak fairness of `Serve(w)`: every thread is scheduled and a SQLite
call returns or raises (the driver gives up a locked file after five seconds).
Nothing is assumed of clients, operators, the clock, errors or crashes. In
`owner_arrives`, weak fairness of `Run(s)`: a script that was started goes on;
no script need be started, and no migration runs beside it. `browser` has no
liveness property and assumes no fairness: a person need not click, and an answer
may never come.

## What the violated runs show

* `orphan`: the user row and the membership are two commits. If the process
  dies in between (or the second session raises) the user remains without a
  role, against README.md ("Assigns `MEMBER` role automatically"); registering
  again answers 409 and logging in 401.
* `double_delete`: two deletions that both looked the user up both return
  `True`; the docstring of `delete_by_id` promises `False` when no such user
  exists.
* `login_refused`: `/auth` normalises addresses, `POST /users` and
  `create_tenant.py` store them as typed, so the exact stored address with the
  right password can be refused, for a cause the docstring of `login` does not
  list.
* `migrate_race`: `migrate_all_tenants` reads a slug that `create_tenant` has
  registered and not yet migrated, and takes its upgrade. The creator's own fails
  on a table that exists, it exits 1, and a second run is refused because the
  slug is registered: the docstring's "Create a new tenant with an initial OWNER
  user" is never fulfilled. `AbandonedForGood` and `HalfMigratedForGood` hold:
  no script repairs such a tenant, or one killed inside an upgrade.

## Disagreements seen while modelling

No run is spent on these; the models do what the code does.

* README.md:183 says that `/?tenant=acme` sets the `tenant_slug` cookie. While a
  cookie of another tenant is there, the cookie wins over the parameter and is not
  replaced (`SlugOf`, `KeepTenant`).
* The comment at tenant_middleware.py:100-101 gives as the purpose of the `tenant_slug`
  cookie that "the browser doesn't need to re-specify it [...] on subsequent requests".
  Its age is never renewed, so it can end between a sign-in and the redirect that
  follows, and the answer to any request sent without the cookie overwrites it, another
  tab's late one too: a fresh sign-in can be answered that no tenant is named (400), or
  that the token is for another tenant (the last two disjuncts of `ReasonToRefuse`;
  neither can be left out).
* README.md:392 says that the empty 200 of a deletion removes the row. So does a
  refusal: base.html:12 swaps every answer in (`Refused`).
* templates/users/list.html:90 says that "ADMIN role can only be assigned by the
  tenant OWNER". `POST /users` takes any role from any ADMIN (`TenantApi`, `GrantableRoles`).
* templates/base.html:318 and index.html:30 post to `/auth/logout`, which no
  router has; nobody can be signed out (`Logout`).
* The docstring of `init_container` speaks of "a fresh container with different
  config"; `get_settings` keeps the first `Settings` of the process (`GetSettings`).
* `alembic_registry.ini` names `data/registry.db`, so the registry migration
  ignores the `REGISTRY_DB_PATH` that the other commands and the server read.
* `make migrate-tenant` makes a database for any slug, registered or not
  (`Start` with the job "upgrade").

## What is proved

For every number of tenants, users, addresses, concurrent requests, commands and
tabs, with failures, crashes, operator edits and lost answers, from the named
assumptions on the constants only (`Digest` and `Canonical` are functions, `None` is no
value of a type, "new" and "deleted" are no slugs, lifetimes are numbers, the request
kinds, jobs and grantable roles are among those of the code, and `System` has no
"visitor" fault: its visitors are the clients of the API):

* `RequireRoleIsDisjunction`, `RolesTotallyOrdered`: `require_role` means "at
  least one of these roles is satisfied".
* `TypeInvariant`. Inductive together with `Shape`, which says where in its
  handler a request of each kind can be and what it has by then.
* `EmailsUnique`: inductive by itself, given types; the only step that matters
  is `InsertUser`, where the UNIQUE column decides the race.
* `TokensBacked`: needs `Ids` - whoever is between drawing an id and assigning
  its role holds an id that no other creator and no row has - so `assign_role`
  never overwrites a role and a token's role claim stays true for ever.
* `GuardsAdmitMembers`: `TokensPresented` (a token presented was issued) and
  `Guarded` (past the guard, it is of this tenant and privileged if the handler
  writes) on top of `TokensBacked`.
* `ListsFaithful`: `Listing`, the loop invariant, with `StoreStable` (members
  keep their role and deleted users never return).
* `PrivilegeLostForGood`: `Authority`, the conjunction of the invariants above, gives
  every creator past its guard a live privileged member of the tenant; without one
  no creation begins, and a registration only makes a MEMBER.
* `OrphansEnrolled` holds only where `Faults` has neither "error" nor "crash" and no
  provisioning died (`Unfinished` is empty): then `TablesComplete` keeps the
  memberships table there for whoever waits to assign a role. With a fault it is
  false, which the run `orphan` shows.
* `AccountsKeepPromises`, `AccountsGoOn`: every behaviour of `Accounts` itself keeps
  its promises, from their conjunction with the types (`Sound`), which is inductive.
* `AccountsImplemented`, the refinement of `Accounts`, step by step: `InsertUser` is
  `Open`, `AssignRole` is `Register` or `Grant`, `GetMembership` is `SignIn`,
  `DeleteCommit` is `Close` or, if another deletion was first, a stutter. It needs,
  beyond `Authority`, that an id is of one tenant (`OneTenant`), that who waits to be
  enrolled has its row (`RowsWait`), and that only enrolled users are named by a
  deletion (`TargetsEnrolled`).
* `PrivilegesFromOwners`: what `Accounts` promises, read back through the refinement
  mapping. Nothing is proved anew of the API; an account that owns its tenant
  is a membership that does, its user living or deleted.

* `ScriptsTyped`: for the scripts, with what each has in hand at each step.
* `StampsMeanTables`: needs `UpgradeProgress` - inside an upgrade, the tables of
  the commits already made exist, whoever else upgrades the same file - which
  makes "a stamp means tables" inductive.
* `UnversionedStays`: once `create_tenant` has built the registry, whoever
  comes to its table later finds it there, and only who created it records a version.
* `OwnersAreUnique`: one creator per slug is past the registry's primary key
  (`OneSeeder`), it seeds one owner (`Placed`), with an id nobody else holds (`Drawn`).
* `AbandonedStays`, `HalfMigratedStays`: with `OneSeeder`, a registered tenant
  without a creator gets no new one; with `UsersFirst`, a table without a stamp and
  without a process inside its upgrade stops every later one.
* `ExitZeroIsDone`: `Did` says what a command has done by each of its steps,
  `Versioned` the same of the registry migration; nothing ever undoes it.
* `SystemTyped`, `SystemTokensBacked`, `SystemImplementsAccounts`: from `Whole`, the
  invariants of the API and those of the commands, each shown to survive the steps of
  the other part, with two that need both: a tenant not registered or still being
  seeded has no privileged member and one seeding script (`Seeders`), and an owner
  that waits for its role has its row, no membership, and an id that no other script
  and no creator of the API has (`OwnersWait`). `CreateOwner` then is `Open`,
  `AssignOwner` is `Appoint`, and every other step of a command a stutter.
* `SystemPrivilegesFromOwners`, `SystemEmailsUnique`, `SystemRolesForGood`: the
  promises of `Accounts` again, now through the refinement by API and commands.
  `SystemGuardsAdmitMembers` and `SystemListsFaithful` (`Listing` beside `Whole`: the
  commands touch no row a list has read) say that what holds of the API alone
  survives the commands.
* `LockedOutStays`: a request needs a privileged session to make anyone privileged,
  and a command makes an owner only in a tenant it registers itself.
  `AbandonedAreLockedOut` needs `PrivilegeFromOwner`: without an owner nobody was
  ever privileged, so no creation is past its guard.
* `SystemAbandonedStays`, `SystemStampsMeanTables`, `SystemHalfMigratedStays`: what the
  commands leave, the API leaves alone (`Migrated`, the invariants of the commands'
  upgrades, beside `Whole`). Two properties of the commands do not
  carry over, and should not: `ExitZeroMeansDone` (it asks for the owner's row, which
  DELETE /users may have removed by then) and `OneOwner` (an ADMIN may create more OWNERs).
* `BrowserTyped`, `PagesAreOneSession`, `ChangesSeen`, `SignedInServed`,
  `PagesGoOnWorking`: from `Coherent`, inductive together with the types. It says
  that the token cookie is the last sign-in's until its time is up (`JarCoherent`), and the
  tenant cookie that of the tenant last chosen (`ChoiceCoherent`), that a users page belongs
  to one session and offers buttons to the privileged only (`PageCoherent`), and that a request still under way is what its page sent
  (`RequestCoherent`, `Follows`): a tab that waits sends nothing else, and only the answer
  to its own request changes its page. The last four follow in one step each.
  `SignedInServed` does not say that a fresh sign-in is always served: the tenant cookie
  may have run out or been overwritten, and the theorem names these causes and no others.

Only model-checked: liveness (`Answered`, `OwnerArrives`), which is out of the
prover's reach.

## Plan

Done: the API, its abstract specification, the commands and their composition,
the browser and the server process, and the proofs about each and about API and
commands together. Every safety property of a passing run is a theorem. Next: the
safety half of the two liveness properties (each step of a request or of a creator
that nothing disturbs brings it nearer to its end, and nobody else's step takes it
further from it), which leaves only the appeal to fairness to TLC. Left out:
a browser in front of the full `System`, in place of the one-step answers of
`Browser`; its state space is out of TLC's reach.

## Not modelled

The wording of HTML and JSON, the health route (stateless), `GetTenantUseCase` and
`list_active` (no caller), downgrades and offline SQL generation (no command of
the Makefile runs them), a second `init_container` in one process (tests only), the
per-request engines' connection pools, and the contents of names, hashes and
signatures. JWT signatures are taken to be unforgeable: a token either was issued
by a server with the same secret or does not decode. `AssignRole` takes the commit of
the membership, the refresh of its row and `create_token` in one step; that the request
fails or dies in between is covered as a token that nobody presents, which allows more
than the code does, so that what is checked and proved holds of the code. In `Browser` a
tab has one request under way at a time (htmx would allow one per element), and an
answer is one step, since the races inside one are `TenantApi`'s; tenants are active
or unknown throughout, and users are named by ids, their addresses and passwords being
`TenantApi`'s too.
