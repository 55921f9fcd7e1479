# A verification project for hakmar-express

hakmar-express is a retail analytics application: a NestJS API over PostgreSQL
with a Redis response cache, and a React client. This directory holds TLA+
modules translated from its code, TLC configurations that check them on small
instances, and TLAPS proofs for every instance. Paths below are relative to
`src/`.

## 1. The system

| Component | State it keeps | Operations | Talks to |
|---|---|---|---|
| Authentication (`apps/api/src/auth`) | rows of `refresh_tokens`; nothing in memory | login, refresh (rotation and reuse detection), logout, revokeAllSessions, pruning | PostgreSQL; called by user administration |
| User administration (`apps/api/src/users`) | rows of `admin_users` | create, update, set password, change own password, remove, last-superadmin check | PostgreSQL; authentication's revokeAllSessions |
| Web session (`apps/web/src/features/auth`, `lib/api-client.ts`) | access token and in-flight refresh per tab; the cookie per browser | cold-load refresh, 401 and retry, login, logout | the three auth routes |
| Response cache (`apps/api/src/cache`, `common/interceptors`) | entries by URL in Redis, and the monthly history | fill on read, clear after a write, expiry | report handlers, master-data writes |
| Health (`apps/api/src/health`) | a probe key in the cache | liveness, readiness with time-outs | PostgreSQL, Redis |
| Spatial forecast (`apps/api/src/spatial-forecast`) | saved runs | run, saveRun, pruneOldRuns, listRuns, loadForecastRun | cache, PostgreSQL |
| Forecast page (`apps/web/src/features/forecast`) | form, result on screen, list of runs | run, restore, show more | the forecast routes |
| Master data (`catalog`, `geo`, `people` over `common/crud`) | catalog, geography, staff | paged list, read, create, update, remove | PostgreSQL, cache clear |
| Management screens (`apps/web/src/features/admin`) | search, page, form, per-row forms | list, create, edit, delete, password | master data and users routes |
| Request pipeline (`setup-app.ts`, `app.module.ts`, `common`) | throttle counters | request log, throttle, authenticate, authorise, validate, envelope, error answers | every route |
| Reports (`dashboard`, `charts`, `tables`, `transactions`, `kds`, `sales`) | none | SQL aggregates, date windows, ABC classes, demand, RFM, baskets | PostgreSQL through the cache |
| Analytics pages (`apps/web/src/features/{dashboard,charts,tables,transactions,kds}`) | controls, query cache | filter, page, retry | the report routes |
| Demo data (`apps/api/prisma/seed-demo.ts`) | none | count, wipe, fill | PostgreSQL, beside the API |
| Backups (`ops/pg-backup.sh`) | dump files | dump, rename, prune, sleep | PostgreSQL |
| Database (`apps/api/prisma`) | schema, migrations, seeds | | |
| Configuration (`config`, `common/env`) | constants read at start | validate the environment | everything |

What is hard about it:

* **Interleaving.** A handler is a sequence of SQL statements with an `await`
  between each two. No handler uses a transaction or a row lock, so any other
  request may run between any two statements of one. The two statements of a
  paged list run side by side.
* **Failure half way.** A statement may fail or the process may stop after the
  first writes of a handler; nothing is undone. The demo script and the backup
  loop may be stopped at any statement and start over.
* **Stale copies.** The role inside an access token, the `target.role` an update
  read first, cached reports, an edit form's values, a list of runs that were
  pruned since, a tab's idea of the session.
* **Retries and lost answers.** A refresh whose response is lost has already
  spent the cookie; React Query repeats some failures and not others; a probe
  that timed out still gets its answer.
* **Figures computed twice.** The same sales are summed by the dashboard, the
  trends, the rankings, the receipt list and the forecast's history, each with
  its own SQL.

What makes each component correct: a login has at most one usable refresh token,
and a token is exchanged once (rotation); a change of password, role or activity
ends the account's sessions, and somebody can always manage users
(administration); a tab is signed out only when its session is over (web
session); a stale report has an explanation and an end (cache); the newest runs
survive and the screen shows one of them truthfully (forecast); a form overwrites
only what its user changed (management); every request is logged once and
guarded (pipeline); two reports never state two figures for one thing
(reports); a panel shows what its controls say (pages); a dump is complete,
restorable and kept (backups).

## 2. Modules

| Module | What it models |
|---|---|
| `AuthTables` | the two tables of authentication, what a row fixes when it is created, the seeded initial state |
| `AuthService` | `auth.service.ts`, one action per awaited statement; `Callers` are requests in flight, `auth[c]` is the frame of one (program counter, account, the role that was read, the presented and the created token) |
| `UsersService` | `users.service.ts` in the same way; `Managers` are requests in flight, `admin[m]` the frame of one |
| `Sessions` | the API process: both services on one database, tokens expiring, requests dying; the properties |
| `SessionLineage` | the abstract promise of rotation: open, spend, replace, close |
| `WebSession` | the browser: pages sharing one refresh cookie, their access tokens, user, query cache, the three auth requests and API requests with the 401 retry (`AuthProvider.tsx`, `api-client.ts`, `queries.ts`) |
| `ResponseCache` | Redis: cached routes and the monthly history filling it, writes clearing it, faults, expiry, the readiness probe's key |
| `ForecastRuns` | `POST /spatial-forecast/run` by several users: insert, threshold, prune, with deleted authors |
| `ForecastPage` | `ForecastPage.tsx` of each user over `ForecastRuns`: running, restoring and listing |
| `ForecastModel` | the computation without its solver: history, baseline, mean, simulation, changes |
| `MasterData` | fourteen tables with their foreign keys, and the API's creates and deletes |
| `DemoSeed` | `seed-demo.ts` against an API that goes on writing |
| `Backup` | `pg-backup.sh` |
| `Maintenance` | `DemoSeed` and `Backup` on one database |
| `ResourceManager` | one resource of the management screen on its table, with other managers |
| `UsersPage` | the user screen's forms and buttons |
| `AdminScreens` | one manager moving between the two |
| `SalesFacts` | prices, costs, receipts and lines, and the vocabulary all reports share |
| `Reports` | the queries of dashboard, charts, tables and transactions |
| `DecisionSupport` | ABC classes, demand, customer segments, market basket |
| `Requests` | the pipeline: log line, limit, token, role, validation, handler, error filter |
| `Panels` | an analytics page over `Requests`: controls, query keys, React Query's fetches and retries |
| `MCSessions`, `MCWebSession`, `MCForecast`, `MCAdmin`, `MCReports`, `MCPanels` | instances and symmetry sets for TLC |
| `SessionsProofs` | theorems about `Sessions` and `SessionLineage` |
| `WebSessionProofs`, `CacheProofs` | theorems about `WebSession` and `ResponseCache` |
| `RunsProofs` | theorems about `ForecastRuns` and `ForecastPage` |
| `BackupProofs` | theorems about `Backup`, `DemoSeed` and `Maintenance` |
| `AdminProofs` | theorems about `ResourceManager`, `UsersPage` and `AdminScreens` |
| `PipelineProofs` | theorems about `Requests` and `Panels` |
| `ReportsProofs` | theorems about `SalesFacts`, `Reports`, `DecisionSupport` and `ForecastModel` |

How they compose: `Sessions` extends `UsersService`, that `AuthService`, that
`AuthTables`, and instantiates `SessionLineage`; `ForecastPage` extends
`ForecastRuns`; `DemoSeed` extends `MasterData`, and `Maintenance` both it and
`Backup`; `AdminScreens` runs `ResourceManager` and `UsersPage`; `Reports`,
`DecisionSupport` and `ForecastModel` all extend `SalesFacts`; `Panels` extends
`Requests`. `WebSession` stands alone: its server answers a request in one step,
which is what `ImplementsLineage` lets a client assume while no two requests
present one token at the same moment.

### From code to model

* A Prisma call is one SQL statement and is atomic; the guard of an action is the
  statement's `where` and the handler's condition on what it returned. What the
  handler does up to its next `await` is the same action. `refresh`, for example,
  is `RefreshFind` (or `RefreshReused`, `RefreshRejected`), then `RefreshClaim`,
  then either `RefreshRevokeAll` or `IssueCreate`, `IssueLink`, `IssuePrune` and
  `Reply`.
* Errors are part of the actions: `adminUser.update` on an account that is gone
  throws (`LoginTouch`, `UpdateWrite`, `OwnPasswordWrite`), the foreign key
  refuses a row for such an account (`IssueCreate`), `refreshToken.update` throws
  when the row was pruned meanwhile (`IssueLink`). The slot is given back and
  what was written stays.
* A refresh token is the number of its row. `rows` are the ids in the table,
  `revoked` and `expired` sets of ids, `links` the `replaced_by_id` column. A
  token is presented only if it reached a client (`known`).
* Time is `Expire` (a refresh token) and `ExpireAccess` (an access token). All
  refresh tokens have one lifetime and a family's are created one after another,
  so a family expires in that order.
* The password and the profile are abstracted to `epoch[u]`, a counter of the
  changes that must end u's sessions; `minted[t].since` is the epoch the login
  of t's family had read. `parent`, `family`, `overtaken`, `late` and
  `interrupted` are history: no guard reads them, except that `minted[t].family`
  orders expiry. `interrupted` holds the accounts a change of which has not been
  followed by its revocation: the request was cut off, or it compared the new
  role with one another request had changed since (`Overlooks`).
* Who may send a management request is decided from the role in an access token,
  as `jwt.strategy.ts` and `roles.guard.ts` do; the account is not consulted.
  The tokens an administrator starts with come from logging in.
* `AbortCaller` and `AbortManager` end a request between two statements: a failed
  statement, a lost connection, a stopped process, or, at `reply`, a lost response.

In `WebSession`:

* `tab[w]` is the memory of a page: `isLoading` (`state`), `user`, the access
  token as the account it names and whether it is still good, and of the query
  cache the accounts whose answers are in it. A reload is `Load`.
* An auth request is sent (`Load`, `StartLogin`, `StartLogout`, a first 401 in
  `AnswerCall`) with the cookie of that moment, answered (`Serve...`), and handled
  (`Receive...`); any of the three kinds overlaps the others. The handler and
  everything that runs before its next `await` is one action, and so are the
  continuations of one promise, as `ReceiveRefresh` for all who share
  `inFlightRefresh`.
* `Lose` breaks a request before or after the server has done its work,
  `RefreshFails` is an error inside the rotation, `Throttle` a 429.
* `queryClient.clear()` forgets the answers in flight as well: `kept` says
  whether the answer of a request still has a place in the cache.
* Tokens are `live`, `expired` (unrevoked), or else revoked: presenting one of the
  last ends the account's sessions. A cookie that ran out is still presented;
  the server's answer to it leads where a dropped cookie does.

In the other modules:

* *An answer is what its query saw.* In `ResponseCache` a report is the number of
  master-data changes before it was computed; `late` records that the rows were
  already old when they were stored, `owed` that a clear failed or a script wrote
  past the cache. `CacheInterceptor` stores nothing after a failing read,
  `loadMonthlyHistory` does; both are kept apart.
* *Readiness* sends its two probes side by side. What arrives after the three
  seconds reaches a promise nobody waits for; the probe goes on working on its
  key all the same, and a clear may remove that key between its write and its
  read.
* *A run's id comes from a sequence* before its insert commits, so runs may
  appear out of order. `made` is what each run was made with, `gone` the users
  deleted. A prune is two statements: the threshold is read, then everything up
  to it is deleted.
* *A list a page reads* is asked for, then read at the server, then received.
  `invalidateQueries` starts it again; a changed parameter is a new key with no
  data. The disabled state of a button is a guard.
* *Tables of master data* are abstracted to whether they have rows: a row needs
  one in each parent, a table is emptied only when no child has one. This is
  what `ON DELETE RESTRICT` and the order of the script's statements depend on.
* *The demo script* stops anywhere; `leftover` remembers whether a stopped run
  left rows and whether the API touched them since, `raced` that the API created
  a row during the wipe.
* *The backup loop* has `set -u` and not `set -e`: a failing rename does not end
  the script, it prunes (`stuck` records it). `find -mtime +N` is more than N whole
  days. A dump reads one snapshot (`pg_dump`'s own transaction), so `whole` is
  fixed when it begins.
* *The reports* are operators over a state that grows by receipts and days. A
  money amount is an integer, a division a pair of sum and count, a percentage a
  pair; what the SQL leaves to the database (the order of ties) is every order.
  A day has several instants where a query compares instants, and `DATE` columns
  are compared as the server in UTC does.
* *The forecast's regression* is any member of a set of predictions, since its
  properties hold whatever the solver answers.
* *The pipeline* runs the guards in the order the modules register them; the
  handler and the exception filter give any of the answers the code can. The
  request log listens to `finish` and `close`.

## 3. Properties

*Rotation.* `OneLivePerFamily`: no two usable tokens of one login, and none
beside a replacement on its way. `OneSuccessor`: a token is exchanged at most
once, ever (proved together with the former, and in no run). `ReplayRecognised`: rows vanish only by expiry or with the account.
`FamilyTraceable`: `replaced_by_id` is truthful, and complete while nothing dies.
`OrphanOnlyAfterPrune`: the only way a usable token reaches nobody. 
`ImplementsLineage`: the rows and the requests between claim and insert behave
as `SessionLineage`.

*Accounts.* `StaleSessionsExplained`: a session older than its account's last
change exists only while the revocation is pending, after it was cut off, after an
update that took another request's role change for none of its own, or because
its own request was between read and insert. `SuperadminRemains`: there
is an active superadmin. `RevocationTakesEffect` (liveness): a due revocation
ends the sessions it is for.

*Web session.* `SignedInIsRenewable`: a single page at rest shows an account only
with a cookie that can renew that very account, whatever overlapped or was lost.
`ReplayExplained`: a single page whose messages arrive and that does not log out
never presents a spent token. `Settles` (liveness): a loading page becomes
ready and a request that met a 401 ends, whatever the refresh answers, so no
refresh waits for itself.

*Cache and health.* `StaleExplained`: an answer older than the master data is
stored only while a clear is to come, after one that failed, or because it was
computed before a change and stored after it. `StaleIsBrief` (liveness): it does
not stay. `ReportExplained`: a degraded readiness report met a cause, one that
is ok met none.

*Forecast.* `NewestRunsStay`: a deleted run has `RETAINED_RUNS` newer ones, however
many prunes overlap. `RetentionHolds`: more rows than that only with a prune ahead
or after one that failed. `ResultIsItsRun`: number and scenario on screen belong to
one saved run. `ScreenExplained`: at rest the screen has what was asked for last.
`OwnRunListed`: a run one was told is saved is in one's list. `ForecastHolds`: the
city and region maps agree, months follow one another, shares add up, profit is
sales less cost and a change has the sign of the difference.

*Maintenance.* `WipeBlockedExplained`: a foreign key blocks the wipe only because of
a row the API created meanwhile. `SeedStartsClean`: the script never adds to what
an interrupted run left. `LastGoodStays`, `RecentDumpsKept`, `DumpsComplete`: what
survives failures, stops and prunes. `DumpsRestorable`: a dump taken while the
tables are wiped or filled satisfies the foreign keys.

*Management.* `EmptyPageExplained`: the list says there is nothing only when rows
changed under it. `OwnWritesListed`: it shows the screen's own writes.
`UpdatesExplained` (action): an update changes a field only when its user did or
somebody else did before, in which case it is taken back. `PasswordExplained`: a
password is set for the account whose form it was typed in, unless the form was
switched while it held one.

*Reports.* `ReportsAgree`: trends, running totals, breakdowns, heatmaps and
rankings add up to the same totals. `WindowsPartition`: current and previous
period split their days. `PagesCoverReceipts`: paging shows every receipt once.
`CatalogFiguresHold`: average costs, cost rows and previous prices are what they
say. `DecisionSupportHolds`: classes, demand, segments and baskets mean what the
page says.

*Pages and pipeline.* `PanelShowsItsControls`: figures and controls belong
together in whatever order answers arrive, and a list is never before its first
or past its last page. `RefusalIsFinal`: a 4xx is not repeated.
`FetchSettles` (liveness): a spinner ends. `PipelineHolds`: one log line per
request, and data only to a role the route names.

## 4. Runs

| Run | Instance | What it shows |
|---|---|---|
| `MCRotation` | 1 account, 3 callers, 3 tokens, 1 abort | the rotation properties and the refinement |
| `MCPasswords` | 1 account, 2 callers, 1 manager, 3 tokens, 1 management request, fairness | a password change against two logins or refreshes: revocation takes effect |
| `MCAccounts` | 2 accounts, 2 roles, 1 caller, 1 manager, 2 tokens, 3 management requests, 1 abort | every management operation after another, also with an access token older than a demotion, against a login or refresh |
| `MCOneTab` | 1 page, 2 API requests, 2 accounts, 3 tokens, 1 lost message, 1 logout, 1 page load, 1 access expiry, fairness | the page's safety properties and `Settles` |
| `MCCache` | 1 reader, 2 writers, 2 probes, 2 keys, 2 changes, 1 fault, fairness | reports and history against overlapping writes, probes against both |
| `MCForecast` | 2 users, 2 scenarios, 1 retained run, 3 runs, 1 user who can be deleted, 1 screen followed | overlapping runs, prunes, restores and lists |
| `MCMaintenance` | the API writes 2 tables, retention 1, 2 days | script, API and backup on one database |
| `MCAdmin` | 2 names, 2 plates, pages of 1, 2 ids, 2 writes, 3 users | the two screens with other managers |
| `MCReports` | 3 branches, cashiers and products, 4 customers, 3 years of 2 two-day months, days 4 to 6, 3 receipts, 3 lines | every report on every such history |
| `MCPanels` | 2 metrics, 2 heatmap kinds, 2 periods, 1 product, 1 branch, limit 1, pages of 1, 2 changes of the controls, 2 fetches at once, fairness | pages over the pipeline |
| `MCTwoTabs` | 2 pages, 1 account | **violated**: `TabsAreNoThieves` |
| `MCStaleHistory` | 1 reader, 1 writer, no faults | **violated**: `HistoryNeverOutlivesAChange` |

*Bounds.* `MaxTokens`, `MaxManaged` and `MaxAborts` bound the tokens ever
created, the management requests ever admitted and the requests that die. Three
callers are what a race on one token needs beside a third party (a logout, a
login that prunes); three tokens are a login, its refresh and a rival login, or a
chain of two refreshes. Two accounts are what the last-superadmin rule and
acting on somebody else need; one management request is a change against
logins, two are a change and its reversal or retry, and three let a demoted
superadmin act with a token from before. The callers are interchangeable, and so
are managers and accounts, whence the symmetry sets; the runs with liveness use none.

For the web session `MaxLost`, `MaxLogouts`, `MaxLoads` and `MaxStale` bound lost
messages, logouts, page loads and access-token expiries, and `MaxTokens` the
tokens, after which the server answers 429. Two API requests are what sharing one
refresh needs; three tokens are the cookie of an earlier visit, a refresh and a
login that overlap; two accounts are a change of user.

For the cache two writers are a clear that overtakes another change, two keys a
cached route and the monthly history, two probes one that disturbs the other; one
reader suffices because readers meet only in an entry, which a reader and a
writer disturb in every way two readers can. For the forecast one retained run and
three runs are two overlapping prunes with different thresholds; one screen is
followed and the other user only runs, since screens meet only in the run table;
`PageStep` and `MaxLimit` are the list's batch and its largest size. Two days are a
dump that is as old as the retention and one that is older; regions and cities
are a parent and a child of it, the two the script's order can trip over. Two
cities and pages of one are a second page that vanishes. Three receipts and lines,
three years, a product sold below its cost and a customer who never comes are
what the report properties tell apart: ties, empty groups, a previous year that
has no price, losses. Days start at 4 so that the windows before today are not
empty by construction. Two fetches at once are a stale answer beside the one
that was asked for.

*Deadlock* is checked except in two runs: a rejected request leaves the state as it
is, so the API can always answer one; a page that shows nobody offers the login
form, and one that shows somebody can send a request. `MCReports` ends when its
receipts and days are used up, and in `MCPanels` a user may stop.

*Fairness.* `FairSpec` of `Sessions` asks for weak fairness of each request in
flight: an awaited statement settles and the event loop resumes its handler, and
Prisma's statements have no lock to wait for. Nothing is assumed about requests
arriving, tokens expiring or requests dying. In `WebSession` a refresh that was
sent is answered (or refused by the throttler), its answer is handled, and API
requests are answered: the browser settles every request, with an error if need
be. Nothing is assumed about what the user does, and nothing about login and
logout. In `ResponseCache` every key expires: each is stored with a time to live
and Redis keeps to it. In `Panels` a queued request is sent and is answered or
loses its connection, and its page sees that.

### Where code and documentation disagree

1. *Two tabs end each other's session* (`MCTwoTabs`). A refresh in flight is shared
   within a page, the cookie by the browser; the second tab to present it is a
   replay (`AuthProvider.tsx:38`, `login-throttle.ts:17`).
2. *The monthly history can outlive a change* (`MCStaleHistory`). It is queried
   and stored (`spatial-forecast.service.ts:314`) with nothing that ties the two
   to a clear in between, and then stays for its hour; `:76` says the entry cannot
   outlive a change to the geography.

Six more are stated in the modules and can be reproduced by putting their names in
the place of a configuration's invariants (6 and 8 are action properties):

3. `ReuseEndsFamily` (`MCSessions`, `MCRotation.cfg` with 2 callers): *a replay does
   not end the family it replays.* Two refreshes present one token; the one that
   finds it revoked or loses the claim (`auth.service.ts:95`, `:124`) revokes every
   row before the winner inserts the next one, which stays usable. The comment at
   `auth.service.ts:78` and `README.md:347` say the family is revoked.
4. `AccountChangeEndsSessions` (`MCAccounts.cfg` with 2 callers): *a password
   reset, deactivation or role change does not end every session.* A login that
   read the account before and inserts its row after the revocation is missed
   (`users.service.ts:136`, `:151`; `README.md:351`).
5. `SuperadminRemains` (`MCAccounts.cfg` with 2 managers): *the last superadmin can be removed by two
   requests at once* (`users.service.ts:200`; `README.md:299`).
6. `AnsweredRoleUpdateIsComplete` (`MCAccounts.cfg`): *a repeated role change
   revokes nothing* when the first attempt failed after its write: the role read
   is already the new one (`users.service.ts:134`).
7. `CacheIsOwn` (`MCTwoTabs.cfg` with 2 accounts, 4 tokens, 1 access expiry): *a page can go on
   with another account's cached answers.* The 401 handler takes over the user of
   whatever cookie the browser holds and does not clear the cache
   (`AuthProvider.tsx:78`, against `:58`).
8. `OnlyLoginSignsIn` (`MCTwoTabs.cfg` with 1 page, 1 logout, 1 access expiry): *a refresh in flight undoes a
   logout*: it sets the token, the user and the cookie again
   (`AuthProvider.tsx:21`, against `:114`).

Behaviours of the models that no property forbids:

* a refresh that fails before its claim leaves a live token while its cookie is
  cleared (`auth.controller.ts:83` says it is dead);
* a logout whose request is lost leaves a cookie the server accepts
  (`queries.ts:39` says there is nothing left to protect);
* an update that compares its new role with the role it read revokes nothing
  when another request has changed the role in between, although it changes it
  back (`users.service.ts:134`);
* two changes of one's own password are checked against the same old hash
  (`users.service.ts:159`), and the later write stays;
* a dump whose rename fails is followed by pruning all the same
  (`ops/pg-backup.sh`, `set -u` without `-e`);
* the demo script counts three tables before it fills all: rows in the others
  alone do not stop it;
* the dashboard's list "Son 30 Gün" (`DashboardPage.tsx:356`) covers 31 dates, and
  the ABC window likewise one day more than its number;
* `orders` of `/charts/trend` leaves receipts without lines out,
  `/tables/ranking` counts them;
* the dashboard divides a change by the signed previous figure, the forecast by
  its absolute value;
* a product that alone makes more than 95% of the revenue is in class C, and a
  customer who never bought can be a champion when more than half never did.

## 5. Theorems

Assumptions: those named in the modules (`NoUser` is no user, the roles are
those of the schema and include SUPERADMIN, a page holds at least one row, the
bounds are naturals). The sets of accounts, requests, pages, keys and routes are
arbitrary, and so are the bounds. A theorem is about the specification its
property's run checks, except those about pruning and about the backup loop, which
are stated of `ForecastRuns` and of `Backup` alone; `PagesKeepRuns` and
`MaintenanceHolds` carry them over.

*Rotation* (`SessionsProofs`)

* `TypeCorrect`: `Spec => []TypeOK`. One lemma per kind of step.
* `RotationCorrect`: `Spec => [](OneLivePerFamily /\ OneSuccessor)`. Neither is
  inductive alone. `RotationInv` adds `NumbersGrow` (a family is numbered by a
  token that exists, so a login opens a new one) and `Unreplaced` (a live token, or
  one claimed and not yet replaced, has no successor). `StepShape` shows that
  every step is one of three: quiet (live tokens and renewing requests only
  disappear), spending (a live token becomes a renewing request) or minting (a
  renewing request, or a login, becomes a live token); the invariant is then
  preserved by three shapes instead of some thirty actions.
* `RotationImplementsLineage`: `Spec => ImplementsLineage`, from the same shapes:
  quiet steps close families, spending is `Spend`, minting is `Open` or `Replace`.
* `LineageSingleUse`: the abstract specification by itself keeps at most one
  accepted token per family.

*Accounts* (`SessionsProofs`)

* `ReplayAlwaysRecognised`: `Spec => []ReplayRecognised`. The invariant adds that
  an account which was never created owns no token, so that creating one revives
  nothing.
* `FamiliesAlwaysTraceable`, `OrphansAlwaysExplained`. `FrameInv` relates what a
  request carries between its statements to the rows it names: nothing is made
  before the insert, a refresh has its token's owner and login, and the token is
  spent by the time its replacement is created or linked. With it, and with
  `ReplayInv` for a row that is gone when it is to be linked, the two properties
  are inductive (`TraceInv`).
* `StaleSessionsAlwaysExplained`. A request about to create a row needs the same
  explanation as a row, and a refresh has that of its token: `StaleInv` is the
  property with `ExplainedCaller` for the requests. The argument failed at first at
  an update whose target's role another request had changed since it was read: the
  fourth reason is what the proof found.
* `SuperadminAlwaysRemains`: with at most one management request in flight,
  `Spec => []SuperadminRemains`. `Vouched` says what the request established about
  its target when it comes to write: the role it read is still the role, and if
  the write takes a superadmin away another one is active. Two managers refute it,
  so the assumption is needed.

*Web session* (`WebSessionProofs`)

* `WebTypeCorrect`: `Spec => []TypeOK`, for any number of pages; the types include
  what each message carries, and that a page loads or a request waits just while
  a refresh of that page is under way.
* `ReplayAlwaysExplained`, `SignedInAlwaysRenewable`, for one page (`SessionInv`). A
  message is harmless when what it will set is a token nobody else presents or
  sets (`TokensApart`); the cookie is the user's whenever no refresh and no logout
  is on its way (`Renewable`); and while nothing is lost, whatever is presented is
  unspent, and so is the cookie unless the answer that replaces it is arriving
  (`Honest`). The two properties need one another: a replay ends the sessions
  `Renewable` speaks of, and it is `Honest` that excludes a replay.

*Cache and health* (`CacheProofs`)

* `CacheTypeCorrect`, `StaleAlwaysExplained`: `StaleExplained` is inductive with the
  types: a change leaves its own clear pending, a clear leaves no entry, and a
  store that comes too late says so.
* `ReportAlwaysExplained`: `ReportInv` adds what a probe without a report has met:
  no failure, and a key that is gone means a clear.

*Forecast* (`RunsProofs`)

* `RunsTypeCorrect`, `NewestRunsAlwaysStay`: `PruneInv` says that every threshold that
  was read, like every run that was pruned, has `Retained` rows above it. An
  insert adds rows; another prune deletes only what is below its own threshold,
  and of two thresholds the rows above the higher one stay, which is why prunes
  do not add up.
* `RetentionAlwaysHolds`. Where there are too many rows and no prune has failed,
  somebody has still to read the threshold, or has read one that has no more than
  `Retained` rows above it now (`SweepInv`). That such a threshold exists is an
  induction over a finite set; it is carried out as a descent to a least element
  under the strict subset ordering, whose well-foundedness the library states.
* `PageTypeCorrect`, `ResultAlwaysItsRun`, `ScreenAlwaysExplained`,
  `OwnRunAlwaysListed`. `RequestInv` says that what a request carries is what the
  sequence and the table have for its id; `ScreensInv` says of each page that it
  names runs that were drawn (`Ranges`), that a list on its way has the page's own
  run unless newer ones pushed it out (`Listed`), and that what was asked for last
  is on screen or is the one answer to come (`Screen`). Runs only lose rank
  (`Grows`), so no step of another page disturbs one.
* `PagesKeepRuns`: every step of the pages is one of `ForecastRuns` or leaves its
  variables alone, so what is proved of the latter holds beneath the pages.

*Maintenance* (`BackupProofs`)

* `BackupInvariant`, and from it `LastGoodAlwaysStays`, `RecentDumpsAlwaysKept` and
  `DumpsAlwaysComplete`: the files under a final name are the days taken, less
  what is older than the retention; while pruning after a good rename today's dump
  is among them, so pruning never takes the last one.
* `SeedInvariant`: the foreign keys hold at every statement (`Whole`), what the wipe
  emptied stays empty while the API created nothing (`WipedStays`), and what an
  interrupted run left includes its regions until the API deletes them
  (`LeftoverSeen`), so that counting the regions finds it. From it
  `BlockedWipeAlwaysExplained` (with `ChildFirst`: in the script's order every child is
  emptied before its parent) and `SeedAlwaysStartsClean`.
* `BackupRefined`: `Maintenance` implements `BackupSpec`, whence `MaintenanceHolds`;
  `DumpsAlwaysRestorable` since a dump begins in a state that is `Whole`.

*Management screens* (`AdminProofs`)

* `AdminInvariant`, with `AdminTypeCorrect`. The rows are finite and told apart by
  their ids (`TableInv`); a field of a form that was not typed holds what the form
  was opened with, and so does the request made of it (`FormInv`); of a read under
  way, the first of its two statements is still right unless something was
  written since (`ReadInv`), and until rows change or go the page begins at a row
  that is there and no total is too large (`Shrinks`).
* `EmptyPageAlwaysExplained` needs that an offset below the number of rows has a
  row: `RowAt` finds, by a least element, the row with exactly that many before
  it, and `PageBegins` concludes that a page is empty just when its offset is not
  below the total.
* `OwnWritesAlwaysListed`: a read that answers has begun after the write it has to
  show, because a success starts the read again.
* `UpdatesAlwaysExplained` (action property), from `Untouched`.
* `PasswordAlwaysExplained`: a closed password form holds no password, and one with
  another account's was switched (`ResetInv`).

*Pages and pipeline* (`PipelineProofs`)

* `PipelineAlwaysHolds`: `Sound(r)` relates each request's phase to its status and
  its log lines, and an answer with data to the guards it has passed.
* `RefusalAlwaysFinal`, `PanelsAlwaysShowTheirControls`. What the answer to a key is
  about is settled by the key alone (`AskedByKey`), so it does not matter which
  controls asked; every entry keeps only that (`Kept`), and the pager moves only
  between pages that exist (`ControlsOK`). A list's total is a constant
  (`TotalOf`): one that changes between two answers is outside the model.

*Reports* (`ReportsProofs`)

The catalog, the calendar, the visits, the tiers, the periods and the filters are
constants; `SalesAssumption` and `CatalogAssumption` say that the tables of master
data are finite, that every product and year has a positive price, that costs are
not negative, and that a receipt names rows that exist and a year that is priced.

* `SalesKept`: `SalesSpec => []SalesInv`: a receipt is there only once every price is
  and is never dated ahead, and a line carries the price, cost and margin of its
  receipt's year and region. Every later step is about one state with `SalesInv`.
* The sums. `MapThenSumSet` is a recursive function that takes a chosen element out of
  the set. `SumUnfolds` to `SumChosen` show that this function exists and is unique
  on the subsets of a finite set; the library's induction theorems take an
  operator, so `SubsetInduction` puts a set of sets in its place and follows from
  the well-foundedness of the strict subset ordering. From it the laws the
  figures obey: the parts of a set (`SumParts`), groups by a key (`SumGroups`), other
  names for the same things (`SumRenamed`), positive terms (`SumPositive`).
* `ReportsAlwaysAgree`. Each breakdown is `Grouped` by a key of the lines
  (`RankingGrouped`, `WeekdayHourGrouped`, `YearMonthGrouped`); orders are counted in
  groups because a period is a function of the receipt (`OrdersGrouped`). A ranking
  row, from the entity outward, and a chart's group, from the lines inward, are
  sums over one set of lines (`TableRowHolds`, `DimensionGroup`, `RankedValue`). The last
  row of a running total is a sum over the list of periods, which names every
  period once (`PeriodsListed`, `RunningSum`).
* `WindowsAlwaysPartition`: half days to days (`WindowHolds`), then the parts of a set;
  the previous window sells nothing just when it has no line since prices are
  positive.
* `PagesAlwaysCoverReceipts`. `Newer` is a strict total order (`NewerOrders`), so the
  receipts can be listed in it (`ListExists`, by their last element); a page is a
  `Piece` of that list, pieces joined are the list (`ChunksJoin`), and the totals of the
  headers are `SumRenamed` and `SumGroups` by receipt.
* `CatalogFiguresAlwaysHold` follows: a line is under one cost row (`RowOf`), which is where
  its cost comes from (`RowCost`).
* `DecisionsAlwaysHold`. Along a ranking the running totals ascend, so a Pareto class
  is a head of it and the next product would exceed the share (`RankingRanks`,
  `CutHolds`, `ParetoHolds`). The newest `Rows` days are the head of a list of the days
  (`LatestHolds`). A tile ends at a fixed place (`TilesEnd`), so who is strictly ahead in
  a key, and so placed later, has no smaller score (`ScoresAscend`), and `Segment` is
  monotone (`SegmentsAscend`); whoever never bought shares the first places, which
  are in the first two tiles while they are half of the customers. A co-count is a
  set of receipts, the same from either product (`CoCountIs`).
* `ForecastsAlwaysHold`. The history has one row per city and month with a sale
  (`HistoryIs`), and a series adds the rows of an area's cities (`SeriesIs`), so a
  region's figures are sums of its cities' (`AreasHold`). Over as many months as there
  are the baseline takes in the whole series (`AllMonths`), which is the sum the mean
  divides. Consecutive months meet every remainder once (`MonthIsReached`). A product
  belongs to one category, so the shares add up. A simulated profit is a difference by
  construction, but the values without changes, the gain of a discount and the
  sign of a change are `SimulationHolds` and `SignedHolds`: scales are positive and a
  change divides by the magnitude of its baseline, a negative one included. The theorem
  rests on fitted sums that are not negative, as the code makes them with `Math.max`.

*Only model-checked.* `RevocationTakesEffect`, `Settles`, `StaleIsBrief` and
`FetchSettles` are liveness under fairness, which is out of the prover's reach.
The order of a list is `Ordered`, by its elements, and not `SortSeq`, which is built
in and which no prover can unfold. The counterexamples of section 4 are of course
checked only.

## 6. Not modelled

* *Configuration*: it is read once before any request; a malformed value stops the
  process or takes a default. Its values are constants of the modules.
* *Map geometry, shared contracts, container and CI files*: data that is passed on,
  types, and deployment descriptions.
* *Floating-point least squares* (`ols.ts`): a prediction is any member of a set.
  The run's totals and the order of its areas are left out.
* *Tokens, hashing and bcrypt*: a token is its row, a password an epoch. Profile
  fields and the uniqueness of usernames and e-mail addresses only add error
  answers.
* *Reads of one row*: `findOne`, `getProfile`, the detail of a receipt.
* *In the browser*: a reload while requests are in flight, React's double mounting
  in development, API requests of a session that fail for other reasons than a
  401; the panel for one's own password, the ranking panels of charts and
  tables, which have one query each; rendering, wording, maps.
* A database transaction is not modelled because no handler has one.
* *Counting windows*: the rate-limit window ends for all routes at once.

## 7. Limits of the instances

The models are checked one subsystem at a time: the report figures are not run
through the cache, nor the pages through the session. The requests of `Panels` carry
the token of a user who may read, a 401 being `WebSession`'s matter; `ResponseCache` does not
know what a report contains; `WebSession` assumes of the server what
`ImplementsLineage` shows, and that the two fit together is an argument made here
and in no module.
