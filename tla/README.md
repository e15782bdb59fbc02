# SyntaxWP in TLA+

SyntaxWP is a control plane (TypeScript, Postgres, graphile-worker) that watches
WordPress sites and repairs them by sending *work orders* to a PHP plugin on each
site. This directory holds TLA+ models of that system, the TLC configurations that
check them and the proofs about them. Paths below are relative to the repository.

## 1. The system

### Components

| Component | State it keeps | Operations | What makes it correct |
|---|---|---|---|
| Policy engine (`packages/shared/src/policy.ts`, `actions.ts`) | none: the action whitelist and the static risk of each action | `policyDecision(action, tier)` | nothing of medium or higher risk passes without a human; `blocked` passes nowhere |
| Work orders (`packages/db/src/repositories/work-orders.ts`, `apps/api/src/routes/work-orders.ts`, claim route in `routes/sites.ts`, expiry sweep) | `work_orders` rows: status, action, expiry | issue, approve, decline, claim, report, expire, mark reverted | no unapproved order is served; a refusal is final; an order is served once; every pending order is resolved |
| Dead man's switch and revert (`worker/tasks/dead-mans-switch.ts`, `snapshots/revert.ts`, restore points in `routes/dashboard.ts`) | a graphile-worker job per order, `snapshots` rows | arm, disarm, fire, `executeRevert`, revert a restore point | armed only after a success that is on record; an armed switch takes effect; one corrective order per reverted order |
| Audit trail (`repositories/audit-log.ts`, migrations 0001 and 0006) | append-only `audit_log` | insert; a trigger refuses update and delete | never says more than happened; misses nothing |
| Plugin executor (`packages/plugin/core/WorkOrderPoller.php`, `safety/*`, `wp7/*`, `mu-watchdog`) | WordPress options and transients: kill switch, safe mode, failure counter, nonces; the site's own plugins | poll and claim, validate, execute, report; the signed MCP endpoint | executes only what was signed, whitelisted, unexpired, once; three failures stop it |
| Site link (`auth/site-auth.ts`, nonce repository, `middleware/rate-limit.ts`, `core/Heartbeat.php`, `core/EventQueue.php`) | used nonces, token buckets, the site's `kill_switch` column and its copy on the site, the event queue | authenticate, heartbeat, toggle, push, flush | no request counts twice; the kill switch reaches the site; events are not lost |
| Incidents and fix pipeline (`routes/ingestion.ts`, `routes/sites.ts` events, `worker/tasks/fix-pipeline.ts`, `diagnostics.ts`, `routes/dashboard.ts`) | `incidents` and `fixes` rows, jobs | open, diagnose (plugin bisection, LLM), test on staging, fix, health check, resolve, approve, decline, roll back | one fix at a time per incident; a declined incident is taken up again only by an approval (a job that is queued already is not called off); nothing ends stuck |
| Detectors (`heartbeat-drift.ts`, `core-integrity-check.ts` with `IntegrityScanner.php`, `synthetic-checkout.ts`, `performance-ping.ts`, `performance-collector.ts`, `ssl-domain-watch.ts`, `vulnerability-sync.ts`) | incident rows, snapshots of measurements, expiry dates | cron jobs | what stays wrong has an unresolved incident |
| Safe update (`worker/tasks/safe-update-verifier.ts`, `safety/SafeUpdate.php`) | a job, a backup, staged tables on the site | pre-flight, update, verify, roll back, clean up | nothing broken is verified; a failed update ends with the site as it was |
| Snapshot retention (`worker/tasks/snapshot-retention.ts`) | `snapshots` rows and objects in storage | delete rows, delete objects | no row without its content |
| Live streams (`/api/stream`, `/api/stepper/:id`, `lib/stream-context.tsx`) | what was sent last, a cursor | notify, poll, send, refetch | the page comes to show what the database holds |
| Scores and reports (`packages/shared/src/health-score.ts`, read routes of `routes/dashboard.ts`) | none | compute | bad news never helps; every fix is in one report |
| Dashboard UI (`apps/dashboard`) | forms, dialogs, batches in a browser | click, hear, roll back | never shows what is not so |
| LLM router (`router/router.ts`) | none | ask models in turn | an answer is an intent of the schema |
| Probes, signing | none | | see section 7 |

### How they interact

* Issuers (the approval flow, reverts) insert rows; the plugin *pulls* them: it polls
  the claim route, executes, and reports the result. Nothing is pushed to the site,
  except calls of the fix pipeline to the signed MCP endpoint.
* A report of a success arms the dead man's switch, a delayed job of
  graphile-worker keyed by the order. When it fires it calls `executeRevert`, which
  issues a new, corrective order that the plugin pulls like any other.
* Every handler is a sequence of SQL statements **without a transaction**: another
  request may run between any two of them, and a process that dies leaves the rest
  undone. Jobs are delivered at least once; requests are not retried.
* The plugin's own state lives in WordPress options, written read-modify-write by
  PHP requests that run concurrently. The claim's answer and the report may be lost.

### What is hard

Interleavings of handlers over one row (claim against sweep, claim against claim,
approve against decline, job against restore-point revert); crashes between two
statements of a handler or job; at-least-once jobs; lost answers and reports; checked
values that are stale when used (the kill switch before a claim, a nonce before it is
stored, an inventory that a heartbeat overwrites); a window (five minutes) that closes
while an order is on its way; rollbacks of which one part fails; answers that reach a
browser in another order than the requests left it. The full
list, each at its line, is `hazards` in `PROJECT.json`.

## 2. Modules

| Module | Models |
|---|---|
| `Policy` | `WORK_ORDER_ACTIONS`, `ACTION_RISK_MAP`, `policyDecision`, `INVERSE_ACTION` |
| `ApprovalGate` | abstract: what the policy and the approval endpoints promise together |
| `ExecutionPromise` | abstract: what the control plane and a site that polls with one request at a time promise together about what is executed, undone and recorded |
| `WorkOrders` | the control plane's side of a work order, statement by statement |
| `PluginExecutor` | the site's side: PHP requests that poll, validate, execute and report |
| `WorkOrderSystem` | both sides joined by the claim, its answer and the report |
| `FixPipeline` | incidents of a site, the requests that open and decide them, the job that repairs |
| `SafeUpdate` | the update of a plugin or theme: the worker's job and the site's call, step by step |
| `SiteLink` | signed requests of a site: heartbeat, kill switch, events, rate limit, silence |
| `Detectors` | the other scheduled checks, and snapshot retention |
| `Console` | pages with a stream, a form, a batch or a card, and the routes that feed them |
| `Panels` | site switcher and updates list, restore dialog, kill switch, progress stream |
| `Reports` | scores, store and security figures, monthly reports and their export |
| `MCWorkOrders`, `MCWorkOrderSystem`, `MCFixPipeline`, `MCSafeUpdate`, `MCParts` | what TLC's runs give the constants; `MCParts` runs the last five modules side by side |
| `WorkOrdersProofs`, `WorkOrderSystemProofs`, `FixPipelineProofs`, `SafeUpdateProofs`, `SiteLinkProofs`, `DetectorsProofs`, `DashboardProofs`, `PartsProofs` | theorems, with their proofs; `DashboardProofs` is about `Console`, `Panels` and `Reports`, `PartsProofs` about `MCParts` |

`Policy` is extended by `WorkOrders` and `PluginExecutor`. `WorkOrders` instantiates
`ApprovalGate` under a refinement mapping (`GateSpec`); `WorkOrderSystem` extends
`WorkOrders`, instantiates `PluginExecutor` and, under the mapping `PromiseSpec`,
`ExecutionPromise`: the phase of an order is read off its status, what is recorded off the
audit trail, and what is executed off the site's effects.

### `WorkOrders` and the code

*One step is one SQL statement*, because the statements are not wrapped in
transactions. The claim is the exception: `UPDATE ... WHERE id = (SELECT ... LIMIT 1)`
evaluates its subquery against the statement's snapshot and takes no lock there; the
outer UPDATE waits for the row lock and re-checks only `id = ...`, so the claim is two
steps, `ClaimSelect` and `ClaimUpdate`.

| Variable | Code |
|---|---|
| `status`, `action` | the columns of `work_orders`; "none" while the row does not exist |
| `lapsed` | whether `expires_at` is in the past: time is reduced to that moment |
| `snapshots` | the orders that a `snapshots` row is linked to |
| `audit` | `audit_log` rows `<<event, order>>`; a report is one event per outcome |
| `todo` | the statements a handler has still to execute after its first one |
| `armed` | orders with a scheduled `dead_mans_switch_fire` job (the job key is the order) |
| `claim[p]`, `revert[r]` | where each claim request and each run of `executeRevert` stands |
| `grant`, `undoes` | history: who let the order pass, which order a corrective one undoes |
| `crashes` | how many processes have died |

Rows are numbered in the order of `issued_at`. They are the rows of one site: the claim
and result routes restrict every query to the authenticated site. The plugin is the
environment: it polls and reports at any time. An order whose action has an inverse
always names a plugin (`executeRevert` issues the inverse only if the order has a
target). `executeRevert` reads only columns that never change, so its reads need no
step. In the repository `captureSnapshot` and `disarmDeadMansSwitch` are called by tests
only; the constants `Capturing` and `Disarming` say whether a caller exists.

Operators commented `Fault:` are deliberate mistakes, each next to the definition it
would replace. They are used by no specification: they show that a property notices.

### `PluginExecutor`, `WorkOrderSystem` and the code

| Variable | Code |
|---|---|
| `killSwitch`, `safeMode`, `failures` | the options of `KillSwitch` and `SafeMode` |
| `nonces` | the `syntaxwp_nonce_` transients; `clear_transients` deletes them all |
| `request[w]` | where `poll()` stands in each PHP request, and the order it holds |
| `reports` | reports on their way: sent without waiting, delivered once or never |
| `effects`, `streak` | history: what was executed, and failures recorded in a row |

*One step is one read or write of an option, a transient or the site.* PHP requests run
concurrently: `LAST_POLLED_OPTION`, which spaces polls out, is itself read and then
written, so two requests can poll together. `validate` is three steps: the window, the
look-up of the nonce, its storage together with the whitelist. Signatures are taken as
unforgeable, so the payload is the row's action and expiry. The outcome of `execute` is
arbitrary for actions that call WordPress or an upgrader, success for the purges and
failure for what is not implemented. A nonce's lifetime (600 s) exceeds the window (300
s), so its own expiry needs no step. `SafeMode::reset` is called by tests only, so safe
mode is never left; `RecordFailure` sets it and takes the counter back
to zero in one step (`SafeMode.php:37-38`): a request that dies in between leaves a counter that
nothing looks at any more, as safe mode stops polls. The kill switch may be flipped at any time
by the heartbeat.

In `WorkOrderSystem` the API's claim request and the PHP request that waits for it share
a name. The PHP request gives up after five seconds while the API carries on: the order
is then claimed and nobody has it. A report that finds the order in any status but
`claimed` gets a 409 and changes nothing.

### `FixPipeline` and the code

*One step is one await of `fixPipeline` or of the search, or one statement of a request.*
The worker holds one job at a time, as graphile-worker runs here.

| Variable | Code |
|---|---|
| `status`, `cause` | `incidents.status`, `incidents.root_cause`; an incident is its fingerprint |
| `jobs` | the `fix_pipeline` jobs in order |
| `work` | where the job stands: `pc` names the await, `asked`, `cand`, `half`, `todo` the arguments of `binarySearchPluginConflict` and its loop, `intent` what the router proposed |
| `request[r]` | where each request stands: report, ingestion, approve, reconsider, roll back |
| `listed`, `active` | `plugin_inventory` rows marked active, and the plugins active on the site |
| `culprit` | what breaks the page now: a plugin while it is active, something else, or nothing |
| `beat` | the plugin list of a heartbeat that is on its way |
| `allowed`, `killed` | the settings and the kill switch |
| `wanted`, `faults`, `orphans` | history, for the properties |

The recursion of the search is the loop split, disable, check, relist, restore, narrow.
A call goes to the REST endpoint (loopback only, and not while the kill switch is on) or,
for a deactivation on a site with the must-use plugin, to the watchdog, which asks for
neither. The health check is modelled by its outcome, the model's text by an arbitrary
intent of the schema. `SiteKinds` says what a site has and which faults may befall it.

Two groups of statements are one step, because nothing reads what lies between them: `Begin`
sets the status, writes the audit row and reads the inventory (`fix-pipeline.ts:34-51`, without
its cap of 100 rows), `Undo` writes the rows of a fix that is taken back
(`fix-pipeline.ts:193-207`).

### `SafeUpdate` and the code

The worker's job and the PHP call it waits for are two processes. A version is a number
with a quality (good, or what is wrong with it); `plugin` holds the version of the code,
the tables and the options, which an update, a migration and a rollback change in steps of
their own. `kept` is what the site could go back to: the download URL, the copied
directory, options and columns. A call is one job of the worker and up to seven steps on
the site, any of which may be the last (`Die`), and whose answer may be lost (`GiveUp`).
Pixel and markup comparison is reduced to whether two versions look alike. The baseline is
taken of the home page whatever its HTTP status, as in the code, so that two error pages look
alike; a page that does not load ends the job. The site serves one call of the worker at a time
(`Call` waits for the one before, which may still be running unheard), and the news of a theme
whose rollback failed is left out, as no row but the log's depends on it.

### `SiteLink` and the code

Time is counted in intervals of a heartbeat and kept as ages. A slot of `calls` is a
signed request with the age of its timestamp, the copies the network still holds, the age
of its row in `site_auth_nonces`, and what the handler and the waiting page load know of
it. `pending` and `pusher` are the event queue's option and a page load between reading
and writing it. `drift` is what the check for silence has read before it looks at the
alarm; looking up the alarm and writing it is one step (`DriftAct`). A kind of site says how
far its clock is ahead, what it does and what may go wrong.

### `Detectors`, `Console`, `Panels`, `Reports` and the code

The tasks share no state, nor do the pages, so a behaviour is about one of them: `watch`
(`page`, `panel`, `topic`) says which, and the other variables hold that one's state:
`truth`/`job`/`rows` are the world, the task's memory and the database;
`server`/`shown`/`wire` and `held`/`seen`/`requests` are the control plane, the browser
and what is under way between them. `Reports` has the routes as operators, and actions
that change the rows they read.

## 3. Runs

| Run | Instance | Shows |
|---|---|---|
| `orders_claims` | 2 orders, 2 claim requests, 2 actions | the gate and `AuditIsBacked`, with claims, approvals, sweep and reports interleaved |
| `orders_reverts` | 2 orders, 1 worker, snapshots and disarms enabled | no switch, revert or corrective order without its reason on record |
| `orders_live` | 1 order asked for and 2 rows for what is issued to undo it, 2 actions, 1 worker, 1 crash, fairness | pending orders are resolved; an armed switch has its order marked as reverted although the worker dies, also between issuing the corrective order and marking |
| `system_overlap` | 1 order, 2 PHP requests, 1 crash, 3 actions | what is executed was let pass, what is on record happened |
| `system_promise` | 2 orders, 1 PHP request, 1 worker, 1 crash, threshold 2 | the system implements `ExecutionPromise`: an order is executed once and when it was let pass, a corrective order never overtakes the one it undoes, a success on record happened; failures in a row trip safe mode |
| `fix_pipeline` | 1 incident, 3 plugins, 2 requests, 9 kinds of site | the search is exact, a fix survives, nothing open is forgotten, a declined incident that is at rest stays so until an approval, nothing stays stuck unless its job died |
| `safe_update` | 3 versions, plugin or theme, 55 kinds of site and release | nothing broken passes, a failed update is undone, the way back is kept, a plugin that is gone is reported, the queue drains |
| `parts` | see below | the switch and the events arrive, a request is served once, silence and damage are noticed, no row dangles, pages and panels are truthful, reports count once, bad news never helps |
| `orders_double_claim` | 1 order, 2 claim requests | **violated**: two overlapping polls get the same order |
| `orders_double_revert` | 3 orders, 1 worker, 1 crash | **violated**: a job run again issues a second corrective order |
| `orders_lost_audit` | 1 order, 1 crash | **violated**: a claim without its audit row |
| `system_executed_twice` | 1 order, 2 PHP requests | **violated**: both requests execute it |

### Bounds and why they are enough

* `MaxOrders`. Handlers touch one row, the claim compares two (oldest first), a revert
  relates two. Two orders make every such pair; the double revert needs three rows (the
  original and two corrective orders). So does `orders_live`: with two rows the corrective
  order of the first try would use up the table, and what becomes of a worker that dies
  between the issue and the mark would not be seen. `Asked` leaves the other rows to
  corrective orders there.
* `Pollers`, `Runners`: two requests make every overlap of two statements; the table has
  no state that counts requests. Symmetry is used in safety runs only.
* `Actions`: one that asks a human and has an inverse, one that is allowed at once and
  has none, and (for the plugin) one that is not implemented. `system_promise` has the one with
  an inverse; that an order may erase the nonces in between is covered by the proof, which
  is for all actions. `Tiers` is `full_auto`, in
  which the policy still decides both ways; `manual` only removes behaviours.
* `MaxCrashes`: one death anywhere. It bounds a history, not the code.
* `FailureThreshold` is 2 where two orders are all there are, 3 in the code. The proofs
  are for every threshold.
* `orders_live` and `system_promise` have one poller. With two, the double claim (its own
  run) can take an executed or reverted order back to `claimed` and have it executed again
  after its corrective order: `RevertedAsRecorded` and `PromiseSpec` both fail,
  through that one cause.
* `Capturing` and `Disarming` are FALSE where a property is about what runs in
  production (`RevertedAsRecorded`, `PromiseSpec`): with a snapshot linked to an
  order that was never executed, the restore-point route logs a revert that did not
  happen.
* `fix_pipeline`: three plugins make an odd split, a split of two and a list of one; two
  requests make every overlap of two statements. `events` bounds what comes from outside:
  a report, a decision and one more. Kinds of site are chosen so that faults that meet
  (a crash, a lost call, a stale heartbeat) are combined, and others are not. One incident
  is enough for the search; the proofs are for any number of them.
* `safe_update`: three versions, so that a release may come out during an update, and every
  pair of faults that touches one rollback. Two or three events.
* `parts`: `Window` 1, `Drift` 2, two slots, two events and a limit of two requests per
  interval: one request within the window, one outside, one too many. Each kind in
  `SomeLinks` has the faults of one question. Two core files, two snapshots and one failure
  of a task. Two sites, two slugs, two restore points. `MaxVersion` 1: an update and a
  notification that overlap. `Named`: the name "q" contains "p", and no other name another. One
  of the two restore points has an action with an inverse. `Known`: two incidents for the
  store, so that one may be lost while the other counts, and one elsewhere. `MaxClock` 15 for
  the months, from November: four of them over the turn of a year, each with its first instant,
  a middle, its last day and the fraction after 23:59:59; 5 ticks of two hours for the store,
  of which `ThirtyDays` 3 are the window it looks back on, so that incidents grow out of it.
  `SslDays` and `DomainDays` are the values on either side of the thresholds. `MaxMoves`,
  `MaxClicks`: two overlapping actions and one after them.
* `CHECK_DEADLOCK FALSE` everywhere: once the rows are used up and settled nothing is
  left to do, by the bound.

### Fairness

`FairSpec` assumes weak fairness of what runs without anybody's help: time going by
(`Lapse`), the expiry sweep (a cron task of graphile-worker, every minute), the next
statement of a handler or job that has started, and a worker that picks up a job that is
due. It assumes nothing about people or sites: nobody has to approve, poll or report.
Weak fairness is enough because each of these stays enabled until it happens.
`SwitchTakesEffect` excepts a worker that finds no row left for its corrective order
(`OutOfRows`): three rows are enough for one order and one crash, so that it comes to that only
when the corrective order is itself executed and reverted; the table itself has no such limit.

* `FixPipeline`, `SafeUpdate`: weak fairness of the worker's next await, of a request's next
  statement and of the site's next step in a call. A call answers or times out, so that an
  await always ends; nothing is assumed of crashes, owners or heartbeats.
* `LinkFairness`: time passes, and a site that is up sends its heartbeat and flushes its
  queue. These are strong, because a slot may be taken and given back in between: a page
  load that finds something due does send it. A request under way, the second half of a
  push and the drift check are weakly fair.
* `DetectorsFairness`: a task goes on while nothing stops it (weak) and the hours pass
  (strong: a change of hour waits for a task that is running). `ConditionsAreReported` is
  true although `MaxFailures` failures are spent on the way.
* `ConsoleFairness`: the server answers, the page shows an answer and the stream's interval
  goes round. Nothing is assumed of a stream's staying open: `ViewCatchesUp` is about one
  that does.

## 4. Findings

Each is a run whose property is violated, with the trace TLC prints.

* *Claims are not exclusive* (`work-orders.ts:232`): the comment argues that the
  subquery's row lock makes the claim atomic; the subquery takes no lock and the outer
  condition does not repeat the status.
* *A revert is not idempotent* (`dead-mans-switch.ts:54`): the guard that the comment
  relies on is evaluated after the corrective order has been issued, and its result is
  ignored.
* *The audit row is not in the claim's transaction* (`sites.ts:312`), while
  `docs/features/audit-trail.md` says it is.
* *The replay nonce is checked and stored in two calls* (`WorkOrderValidator.php:55`).

### What the passing runs except

Modelling met further places where the code does less than one may expect. The properties
that they touch name the exception, and hold otherwise; they are listed here because a reader
of a property should know what its exception stands for.

*Site link*
* A nonce's row is pruned five minutes after its receipt, a timestamp up to five minutes
  ahead stays good for longer: `ServedOnce` is stated for clocks that are not ahead.
* The heartbeat's answer is not asked for its status, so a refusal's body reads as "switch
  off"; the next heartbeat that is answered puts it right (`SwitchArrives`).
* `EventQueue` loses what one page load adds while another writes or deletes the option; the
  watchdog keeps nothing (`dropped` in `EventsArrive`).
* The drift alarm's fingerprint is constant: a second outage after a resolved one raises
  none (`OutageIsAlarmed` is about the first).

*Fix pipeline*
* A job that dies or throws leaves its incident busy for good (`orphans`).
* Deactivation may go by the watchdog, which does not ask for the kill switch; activation
  may not. With the switch on, what the search turns off stays off (`faults = {}` in
  `OnlyFixesStay` and `FixesSurvive`: a refused call is one). So with a lost call.
* A heartbeat that was under way during a fix lists the plugin again (`stale`).
* An approval names a plugin, in the audit row "deactivate_plugin <rootCause>"
  (`dashboard.ts:914`); the job it queues carries only the incident, searches again and
  deactivates what it finds now (`fix-pipeline.ts:130-165`). No property says that it is the
  plugin of the approval, because it need not be.
* The job's guard lists "resolved", "escalated" and the busy statuses, not "declined"
  (`fix-pipeline.ts:22`): a job that is queued when the owner declines goes on and may deactivate a
  plugin. `DeclinedIsLeftAlone` is about an incident of which nothing is under way (`AtRest`).
* With a staging URL health is checked on staging while plugins are toggled in production
  (`SearchIsExact` excepts it), and on a page that is healthy the search blames somebody
  (`clean` asks for a page that is broken when the search begins).
* Isolation by `vulnerability-sync` does not change the inventory.

*Safe update*
* "Pre-update state automatically restored by plugin" (`safe-update-verifier.ts:152`) is also said
  after a lost answer, a dead request, a failed download and a failed rename of the local copy
  (`NothingLost` in `FailureRestores`). In the last two cases the plugin's files are gone, and
  with a failed rename the only copy goes with the clean-up that follows the rollback.
  Migrations outside dbDelta are not undone (`AsBefore`).
* A worker that dies after an update runs it again: the second run backs up the version that
  was never verified (`clean`). So does an update by hand.
* A theme has no way back of its own: `FailureRestores` and `WayBack` are about plugins.

*Detectors*: a breach is resolved by a scan that repaired everything, not by a clean one; a
failing checkout raises one incident per hour; pings without an answer leave no row and are
skipped by "three in a row"; a sweep that dies leaves objects without rows.

*Pages*: two saves that overlap roll each other back (`overlapped`); a batch is over early
when the log already has its slugs, or when a slug contains another, because the route looks for
`summary LIKE %slug%` (`dashboard.ts:554`): the ending of "woocommerce-payments" is taken for
that of "woocommerce", though the comment at `page.tsx:180` says that a batch is done "once
every queued slug has reached a terminal event" (`mixed`); a stale refetch may overwrite the
stream (`stale`); a card may say "fixed" after a rollback that failed (`late`); after a switch
of sites with requests under way another site's list may stay (`mixed` in `Panels`); a lost
answer shows the kill switch off while it is on (`lost`); a restore dialog that is opened for
another point shows the first one's end (`crossed`). The restore dialog says that the action
"has been reverted on your site"; when it does, a corrective order waits for the site to poll
it, or nothing was done at all, if the action has no inverse: `executeRevert` returns and the
route answers "success" (`revert.ts:57-94`, `dashboard.ts:1120-1121`). `RestoreIsQueued` states
what is true of it.

*Figures*: a certificate that expires stops counting against the score; a month's first
instant and what follows 23:59:59 on its last day are in no report (`InGap`); when nothing counts
for the protected revenue any more the page shows 14280 (`dashboard.ts:1200`), so that re-opening
the only resolved checkout incident raises what is shown (`Protected' = {}` in
`BadNewsNeverHelps`).

## 5. Proofs

The theorems are proved by TLAPS for every value of the constants that the named assumptions
of the modules allow. These say what a constant stands for, and no more:
`WorkOrdersAssumption` that the bounds are numbers and that actions and tiers are those of the
schema; `SystemAssumption` that the threshold is positive; `PipelineAssumption` that the
plugins are finitely many and none is called like a marker; `LinkAssumption` that the windows
are numbers and the limiter lets something through; `DetectorsAssumption` names the checks;
`SafeUpdateAssumption`, `ConsoleAssumption`, `PanelsAssumption` and `ReportsAssumption` that
versions, pages, panels and figures are of their kinds, and that there is a tier and a site.

Six theorems have a hypothesis of their own, written out in their statements and in the table
below: `OneClaim` (a site polls with one request at a time), `~Capturing` (no restore points)
and `~Disarming` (nobody disarms a switch). The last two are true of the code: nothing calls
`captureSnapshot` or `disarmDeadMansSwitch`. The first is what the plugin's schedule aims at but
does not enforce: the runs `orders_double_claim` and `system_executed_twice` show what becomes
of a site that breaks it. In the bounds every number, and the number of crashes, is arbitrary.

| Theorem | Establishes |
|---|---|
| `TypeCorrect` | `TypeOK` |
| `GateInvariant` | `GateInv` (inductive, with `TypeOK`) |
| `NothingUnapproved` | `NothingUnapprovedIsServed`, from `GateInv` |
| `ImplementsGate` | `WorkOrders` implements `ApprovalGate` |
| `SwitchInvariant` | `SwitchInv` (inductive, with `TypeOK`) |
| `ArmedAfterSuccess`, `RevertsAreJustified` | the two properties of the switch, from `SwitchInv` |
| `AuditBacked` | `AuditIsBacked`, from `RecordInv` (inductive given `GateInv`) |
| `RevertedRecorded` | `RevertedAsRecorded`, assuming `OneClaim`, `~Capturing`; from `RevertedInv` |
| `ClaimsAreAudited` | `ServedIsAudited` as long as no process has died, from `LoggedInv` |
| `CompleteUnlessCrashed` | `CompleteWithoutCrash`, assuming `OneClaim`, `~Disarming`; from `LoggedInv`, `WatchedInv` |
| `ImplementsControlPlane` | `WorkOrderSystem` implements `WorkOrders` |
| `SystemTypeCorrect` | `SysTypeOK` |
| `SiteInvariant` | `SiteInv` (inductive, with `SysTypeOK` and `GateInv`) |
| `NothingUnapprovedIsExecuted` | `ExecutedWasGranted`, from `SiteInv` and `NothingUnapproved` |
| `RecordTruthful` | `RecordIsTruthful`, from `SiteInv` and `ArmedAfterSuccess` |
| `FailuresTrip` | `FailuresTripSafeMode`, assuming `OneClaim`; from `StreakInv` |
| `ExecutedOnce` | `ExecutedAtMostOnce` (which `system_executed_twice` refutes for two requests), assuming `OneClaim`; from `OnceInv` |
| `CorrectiveIsLast` | `CorrectiveComesLast`, assuming `OneClaim`, `~Capturing`; from `UndoneBefore`, `RevertedInv`, `ExecutedOnce`, `RevertsAreJustified` |
| `ImplementsPromise` | `WorkOrderSystem` implements `ExecutionPromise` (`PromiseSpec`), assuming `OneClaim`, `~Capturing`; from `SiteInv`, `OnceInv`, `GateInv`, `SwitchInv`, `RevertedInv` |
| `WorthOfPromise` | `ExecutionPromise` implies `ExecutedAtMostOnce` and `CorrectiveComesLast`; from `WorthInv` |
| `PipelineTypeCorrect` | `TypeOK` of `FixPipeline` (inductive) |
| `BusyOwned` | `BusyIsOwned` (inductive, with `TypeOK`) |
| `OpenQueued` | `OpenIsQueued` (inductive, with `TypeOK`) |
| `DeclinedRests` | the action property `DeclinedIsLeftAlone`, from `TypeOK` |
| `FixesOnlyStay` | `OnlyFixesStay`, from `StaysInv` |
| `FixesOutlive` | `FixesSurvive`, from `FixesInv` |
| `DiagnosisIsExact` | `SearchIsExact`, from `SearchInv`, the invariant of the search's loop |
| `TypeCorrect` (`SafeUpdateProofs`) | `TypeOK` of `SafeUpdate` (inductive) |
| `MissingIsReported` | `GoneIsReported`, from `GoneInv` |
| `BrokenNeverPasses` | `NothingBrokenPasses`, from `PassInv` and `Coupled` |
| `WayBackIsKept` | `WayBack`, from `WayInv`, `Tidy` and `Coupled` |
| `RollbackBringsBack`, `FailureBringsBack` | the action properties `RollbackRestores`, `FailureRestores`, from `WayInv` |
| `LinkTypeCorrect` | `LinkTypeOK` |
| `OnlyServedOnce` | `ServedOnce`, from `AllOnce` (inductive, with `LinkTypeOK`) |
| `RowsHaveContent` | `NoDanglingRow`, from `RowsFirst` (inductive) |
| `PanelsTellTheTruth` | `PanelsAreTruthful`, from `CatalogInv`, `RestoreInv`, `SwitchInv`, `ProgressInv` |
| `PagesTellTheTruth` | `PagesAreTruthful`, from `SettingsInv`, `UpdatesInv`, `CardInv` |
| `FixesAreReportedOnce` | `EveryFixIsReportedOnce`, from `ResolvedInv` |
| `NoBadNewsHelps` | `[][Worsens /\ ~CertificateExpires => NothingImproves]_reportVars`, which is `BadNewsNeverHelps` but for the sum that is shown; from `Measured`, `ResolvedInv`, `ScoreFalls` and `RevenueFalls` |
| `DetectorsTypeCorrect`, `ReportsTypeCorrect` | `DetectorsTypeOK`, `ReportsTypeOK` (inductive) |
| `ConsoleTypeCorrect` | `ConsoleTypeOK`, from `ConsoleTypeInv` |
| `PanelsTypeCorrect` | `PanelsTypeOK`, from `PanelsTypeInv` |
| `PartsTypeCorrect` | `PartsTypeOK`, from `PartsTypeInv` |
| `PartsAreSafe` | of the parts side by side: `ServedOnce`, `NoDanglingRow`, `PagesAreTruthful`, `PanelsAreTruthful`, `EveryFixIsReportedOnce`; from `PartsInv` |
| `PartsTakeNoComfort` | the same of the parts side by side, from `PartsInv` |

Why the invariants are what they are. *Gate*: "a served order was let pass" is not
inductive, because the claim's update takes a row without looking at its status; what
saves it is that the subquery had seen the row `pending`, and that no step takes a row
back to an undecided status. So `GateInv` speaks of claims in flight and of `grant` from
the moment a row may be claimed. *Switch*: the reason for a revert must be carried from
the audit trail to the scheduled job, to the running job, to the corrective order, each of
which outlives a crash of the one before; `SwitchInv` has a conjunct for each. *Record*:
audit rows are written after the fact, so the invariant speaks of the rows still to come
as well. *Site*: an order is served before its answer leaves the API, and a success
travels from the site's effects through the request and the report to the handler's
`todo`; `SiteInv` follows it.

*One claim at a time*: the claim's update takes a row whatever its status, so that with two
claims a row may go back from "reverted" to "claimed", and nothing about the later statuses
is stable. With one, `OnePassInv` says that the row a claim has picked is still undecided or
expired, and every row passes through its statuses once; from there `RevertedInv` follows the
revert job from its look at the status to its audit row. A restore point breaks it, because
its route does not look. `LoggedInv` needs neither: each claim writes its own row. `WatchedInv`
hands a switch from the handler's `todo` to the schedule and to the worker, which is where a
crash would drop it. *Executed once*: the plugin's own defence, the nonce, is gone once an
order erases the transients, so that the proof rests on the other side: `OnceInv` says that
what a claim is about to bring has not been executed yet, and `OnePassInv` that it will not be
picked again. *Corrective orders*: the reason of a corrective order (`RevertIsJustified`) is a
success on record, `RecordIsTruthful` puts that success among the site's effects, and
`ExecutedAtMostOnce` says that it does not come again; `UndoneBefore` remembers the order of
the two. *Safe mode*: the counter is the true streak as long as no request holds a stale copy
(`StreakInv`), which two requests would.

*The promise*: `ExecutionPromise` has seven actions and no requests, jobs, crashes or answers.
Of the system's steps few are visible in it: the insert of an order asks for it and decides it
when the policy does, approving and declining decide it, the insert of a revert is its `Undo`,
the plugin's `execute` is its `Execute`, and the audit row of a success is its `Record`. All
other steps map to stutters, among them claims, answers, the marking as reverted and every
crash. The guards of the abstract actions are where the invariants are used: an order is
executed when it was let pass (`SiteInv`, `GateInv`) and for the first time (`OnceInv`), it is
undone when its success is on record (`SwitchInv`), and a success is recorded that happened
(`SiteInv`). That a phase which was decided stays so, though the claim takes a row whatever
its status, is `GateInv` again. `WorthOfPromise` is about the abstract module alone: the two
properties one would ask for follow from it, so that nothing was lost in the abstraction.

*Fix pipeline*: the first three invariants (`TypeOK`, `BusyIsOwned`, `OpenIsQueued`) are
inductive as they stand, given the types, because
`work` and `request` carry what the code has in its local variables. The lemmas on effects
(`WorkerEffect`, `SiteEffect`, `RequestEffect`) say once what a step may do to statuses and
jobs, so that the proofs need no case for each of some forty actions. `DeclinedIsLeftAlone` needs no
invariant but the types: that an incident is at rest is a state of which every step can be
judged alone, once one knows that the worker stirs only what it holds or what is queued
(`Stirs`). What the search leaves behind is not inductive: `StaysInv` adds that what is still
to be turned off belongs to the half in hand, `FixesInv` that whatever the search may turn on
again, and whatever the inventory lists, is wanted or on its way back by an owner's rollback,
`JustBegun` that a job starts with empty hands. `SearchInv` is the invariant of the loop: the
culprit, if it was asked about, is still a candidate, what is off is what is in hand, and a
verdict is about the half that was off; it holds of every split that `Half` allows, so of every
order in which the database lists the plugins.

*Safe update*: everything rests on `Coupled`, which says where the site's call may be when the
job is at a given step, and that a call nobody waits for any more runs only before the next
job's first call. `GoneInv` follows a plugin whose files are gone through the rollback until it
is reported. `PassInv` says that what a check has found is still so while the next one runs.
`WayInv` ties `kept` to the job's `before`: at each step of a call, what is not yet back is
kept, file copy or download, options and tables separately; it needs `Tidy`, that an
update's leftovers are gone before the next one begins, for else a copy of an older version
would pass for the way back. *Dashboard*: each page or panel has an invariant of its own, as a
behaviour looks at one of them. What they have in common is that they speak of the answers
under way: `OneSite`, that each is for the site that is chosen or that nothing is shown yet;
`Finished`, that a slug counted as over has no job that waits and gets none from the request
under way; `Slice`, that a round of the progress stream begins at the next row or before it.
`ResolvedInv` says only that an incident was resolved at some tick; that the months neither
overlap nor leave more than the named gaps is arithmetic about the calendar. `ScoreFalls` says
that the health score is monotone in all eleven of its figures. The protected revenue that is
shown is a sum over incidents; what is proved is that no incident adds more to it
(`RevenueOf`), for that a sum grows with its parts would be an induction, and the shown sum is
left to the run.

*Site link*: "served once" is not inductive, because the nonce that refuses the second copy is
pruned by a job with a clock of its own. `AllOnce` says why this is safe: a nonce is never
older than its request's timestamp, so that the prune takes it only when the timestamp is out
of time, or when the site is gone. It is here that a clock that is ahead breaks the argument.
*Types of the parts*: those of the detectors and the reports are inductive as they stand. A
panel's cursor is bounded only because a round that was read is a slice of the log
(`ProgressInv`), and what a form takes back is a tier only because what it remembers is one
(`SettingsInv`), so that the types rest on the invariants above. A part that rests stays in a
state that its invariant allows, which is why `PartsInv` needs no case for it. *Retention*:
what the sweep has still to delete has no row any more (`RowsFirst`); a crash forgets the list,
which only makes it smaller.

Because `WorkOrderSystem` implements `WorkOrders`, the second module's proofs cite the
first's theorems instead of repeating them.

Model-checked only:

* liveness, which the prover does not support: `PendingIsResolved`, `SwitchTakesEffect`,
  `WorkEnds`, `QueueDrains`, `SwitchArrives`, `EventsArrive`, `OutageIsAlarmed`,
  `ConditionsAreReported`, `ViewCatchesUp`;
* the revenue that is shown, in `BadNewsNeverHelps`: a sum over incidents;
* nothing is proved of a site that breaks a hypothesis of the six theorems that have one: with
  two claim requests `RevertedAsRecorded`, `ExecutedAtMostOnce` and `PromiseSpec` are
  false.

The invariants that only the proofs use (`GateInv`, `SwitchInv`, `RecordInv`, `SiteInv`,
`SysTypeOK`, `WayInv` and the others of the table) are defined beside them.

## 6. Plan

Done: all parts of section 2, with their runs; proofs of every safety and action property and
of both refinements that a passing run checks, but for the sum in `BadNewsNeverHelps`.

What is left, were the project to go on:

1. A composition of `SiteLink` and `FixPipeline`, in which the heartbeat that lists a plugin
   again is the same one that carries the kill switch.

## 7. Not modelled, and why

* *Signing and canonical JSON*: pure functions, pinned by shared test vectors in both
  languages. Signatures are taken as unforgeable.
* *The trigger of the audit table*: it refuses updates and deletes, and no code tries one, so
  that a model of it would have nothing to say.
* *Registration of abilities with WordPress* (`AbilitiesRegistrar.php`) and the choice
  between the two executors (`CapabilityRouter.php`): done once per page load, from what is
  installed.
* *Text*: what a model writes, what a log says, which error a report describes. The router is
  modelled as far as it chooses, fails and falls back.
* *Revenue loss and analytics*: sums over floating-point figures, with unit tests. The hour
  at which revenue is counted is in `Reports`.
* *Probes*: a stateless loop; what it reports is what `FixPipeline` is given from outside.
* *Pages that show an answer and keep nothing*: incidents, security, store,
  performance, design, reports, login.
* *Creation of orders*: `issueWorkOrderWithPolicy` has no caller in production, so its
  inputs are arbitrary actions and tiers.
* *Restarts of the database or of object storage*: the code relies on them as they are.
