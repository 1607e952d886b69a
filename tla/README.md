# IronClad Sentinel: TLA+ models and proofs

IronClad Sentinel scans source trees for security problems. The scanner is a
command line (`cli.py`) over an engine (`core/`) and a set of scanners
(`scanners/`). Around it stands a platform (`platform/`, `api/`, `web/`): a REST
API, a dashboard and worker processes that share one SQLite or PostgreSQL
database. This directory models both: the platform as concurrent sessions on
shared rows, the tool as sequences of commands over the algorithms that decide
what is reported. TLC checks the models, TLAPS proves the central theorems.

Paths below are relative to the repository's `src/ironclad/`; `docs/` and
`tests/` are the repository's.

## 1. The system

| component | state | operations | interacts through |
|---|---|---|---|
| database (`platform/database.py`) | transactions | `session_scope`, `build_engine` | every other component's sessions |
| migrations (`platform/database.py`) | `schema_migrations` | `run_migrations` at each start | all processes of a deployment |
| job queue, worker (`platform/jobs.py`) | `jobs` table; the worker's session | `enqueue`, `claim`, `finish`, `cancel`, `run_pending`, `Worker.run` | API (enqueue, cancel), handlers |
| scan pipeline (`platform/scanning.py`, `worker_jobs.py`, `api/routes.py`) | `scans`, `findings`, `sbom*` | `request_scan`, `_run_scan_inline`, `handle_scan_run`, `perform_scan`, `cancel_scan` | job queue, engine, events |
| account access (`api/routes.py`, `web/app.py`, `platform/security.py`, `password_reset.py`) | `users`, `sessions`, `password_reset_tokens` | login, logout, change, request and redeem a reset | rate limiter, mail, audit |
| rate limiter (`platform/ratelimit.py`) | hits per key, in memory or in the database | `check`, `reset`, `retry_after` | login, reset, token routes |
| findings and triage (`platform/triage.py`, `scanning.py`) | status of each finding, its events | resolve by a later scan, suppress, resolve, reopen | scans, users |
| policies of an organization (`api/routes.py`, `scanning.py`) | policy rows, one default | upsert, delete, `resolve_policy`, the result of a scan | scans |
| audit log (`platform/audit.py`) | append-only rows | `record`, `iter_export`, `purge_expired` | every route |
| roles, tenancy (`platform/rbac.py`, `tenancy.py`, `api/deps.py`) | role and scopes of a principal | `get_context`, `can`, `get_for_org`, project, token, user and integration routes | every route |
| integrations, egress (`platform/integrations`, `egress.py`) | allow-lists, integration rows | `deliver`, `resolve_target`, `effective_allowlist` | DNS, endpoints, routes |
| command line (`cli.py`) | settings and baseline files, licence | `scan`, `baseline`, `policy`, `license`, `config`, `advisories` | engine |
| engine and configuration (`core/engine.py`, `config.py`, `walker.py`) | none | `IronCladConfig.load`, `discover`, `run_scan` | scanners, policy, baseline |
| policy evaluation (`core/policy.py`) | none | `from_dict`, `to_dict`, `apply_to_config`, `evaluate_policy` | engine, CLI, platform |
| baseline (`core/baseline.py`) | entries with an expiry | create, load, diff, prune | engine, CLI |
| dependency scanner, advisories (`scanners/dependency.py`, `osv.py`, `advisories.py`) | advisory database, overlay | parse, match, import a feed, look up | engine, CLI |
| licence expressions (`core/spdx_expr.py`, `scanners/sbom.py`) | none | `parse_expression`, `classify` | engine |
| Python data flow (`scanners/ast_python.py`, `python_flows.py`) | tainted names, while a scope is walked | `visit_Assign`, `visit_Call`, `check_call` | engine |
| other scanners, reporting, events, mail, schemas, observability, password hashing | none, or rows nobody reads back | match, render, publish, send | see section 6 |

### What is hard here

**On the platform**, nothing takes a row lock explicitly (`SELECT ... FOR UPDATE`
does not occur) and hardly any UPDATE tests the row's present state. Every
handler reads rows, decides from the copies and writes later, so correctness
rests on the isolation the database happens to give:

* **SQLite** (WAL, explicit `BEGIN`, see `build_engine`): a transaction that has
  read and then writes after somebody else committed is refused at once. This
  protects the code from lost updates, at the price of refused writes.
* **PostgreSQL** (READ COMMITTED): the write goes through. Every
  check-then-write of the code can be overtaken.

The ORM adds subtleties that the models keep: a column is written only if it
differs from the value loaded (`Overwrite`, `Cleared`, `Written`); pending
changes are flushed by the next ORM query (`CancelFlush`, `Select`); a rollback
expires the session's objects, so that they are read again (`Reload`); and, as
`session_factory` sets `expire_on_commit=False`, a commit does not
(`InlineLoad` tests the status its own session wrote).

On top come worker crashes, the stale timeout that hands a live worker's job to
another one, retries with backoff, cancellation at any moment, processes that
migrate the same schema at the same time, clocks read before the row is written,
names that resolve differently each time, and endpoints that redirect or hang.

**In the tool**, what is gated depends on everything that happened before:
layers of settings, policies, baselines with expiries, edits of the code, the
licence's last day. What is reported depends on translations between formats
that each have corners: version ranges, prereleases, OSV events, licence
operators, the order in which statements are visited.

`PROJECT.json` lists the hazards line by line, with the properties on each.

### What makes each component correct

* Queue: an enqueued job never disappears; success is acknowledged only after
  its handler returned; failure only when the attempts are used up; a claim
  takes only a runnable row; every job is settled in the end.
* Migrations: a process that serves has its whole schema, each file applied once
  and in order; one with genuine files comes up in the end.
* Scan: results and final status appear together, once, and agree with the job;
  a settled scan stays settled; every requested scan is answered.
* Account: a token is spent once, one token is live, sessions do not outlive
  their password, every failure is counted, a granted login is not lost.
* Findings: an open finding is one that the scan which ended last reported or a
  user reopened; a scan never undoes a suppression and resolves only what earlier
  scans found (it does not, section 3); the history tells the present status.
* Policies: the default is handed over without a moment of two or none; the
  result of a scan is recomputed from the document that gated it.
* Audit: a delivered export is the whole trail in order; a purge leaves no gap.
  Tenancy: a change touches one organization and is on its trail.
* Limiter: never more than the limit in a window (in memory and on SQLite);
  `Retry-After` is enough.
* Delivery: connections only to permitted, public addresses; every test ends.
* Tool: the gate follows what was accepted; no policy widens a scan; decisions
  survive storage; of what the parsers read to the end, what must be vulnerable
  is reported and what cannot be is not; silence about a licence means it is
  allowed; untrusted data that an analysis follows to a sink is reported.

## 2. Modules

```
Transactions ─> JobQueue ──> ScanPipeline ─> MCScanPipeline, ScanPipeline_proofs
  │  │  │  │      │  │ └─> MCJobQueue, JobQueue_proofs ──────────┘
  │  │  │  │      │  └─ Promise == INSTANCE DurableQueue
  │  │  │  └─> Migrations ─┴─────────> MCDeployment
  │  │  └─> AccountAccess ───────────> MCAccountAccess
  │  └─> FindingLedger, PolicyGate, Tenancy, AuditLog ┐
  │                                     RateLimiter ──┴─> MCPlatform
  └─> Delivery ──────────────────────> MCDelivery

Baseline, PolicyDecision ─> ScanEngine ─> CommandLine ─> MCCommandLine ───────┐
AdvisoryMatch ─> Manifests, AdvisoryFeed ─> DependencyScan ─> MCDependencyScan┤
                          LicenseExpression ──> MCLicenseExpression ──────────┼─> MCTool
                                PythonFlows ──> MCPythonFlows ────────────────┘

Transactions_proofs ─> AccountAccess_proofs, FindingLedger_proofs, Migrations_proofs
FindingLedger_proofs ─> Organization_proofs (PolicyGate, Tenancy, AuditLog,
                                             RateLimiter, Delivery, MCPlatform)
Tool_proofs (CommandLine, LicenseExpression, DependencyScan, PythonFlows)
```

The modules whose names end in `_proofs` hold the theorems of section 4 about the
modules they are named after, or that stand next to them in parentheses.

`MCDeployment`, `MCPlatform` and `MCTool` each check several components in one
run: their variable `part`, chosen by the first state, says which component is
at work, and the others rest. The components they join do not share variables
other than the transactions.

Each module holds a few operators marked `Fault:`. They are deliberate errors,
substituted for the definition that follows them to show that a property can
fail; nothing else refers to them.

### Platform

**Transactions** (`platform/database.py`). `snap[p]` says whether session `p`
has read in its transaction, and whether another commit came since; `writer` is
the session that holds SQLite's write lock. `Read`, `Flush`, `Commit` and
`Rollback` are the four things a session does; the modules conjoin one of them
with each step. `MayWrite` is the guard that makes SQLite refuse a write.

**JobQueue** (`platform/jobs.py`). `job` holds the committed rows
(status, attempts, whether the row is stale), `ready` the rows with
`scheduled_at <= now` in claim order. A worker is a program counter:

| `pc[w]` | where in the code | steps |
|---|---|---|
| `idle` | `Worker.run` before `run_pending` | `Select`, `Poll` |
| `selected` | `claim`, between SELECT and UPDATE | `Claim`, `Locked` |
| `claimed` | `claim`, before `session.get` | `Load` |
| `running` | the handler | `HandlerFlush`, `HandlerCommit`, `HandlerReturns`, `HandlerRaises` |
| `raised`, `reloaded` | the `except` of `run_pending`, `finish(error=...)` | `Reload`, `FinishError`, `Locked` |
| `next` | the loop of `run_pending`, then `Worker.run`'s commit | `Select`, `EndBatch`, `Locked` |

`done[w]` is the success that `finish` has set in memory only: it becomes
durable with the next claim or at the end of the batch, and is lost by a crash
or a refused commit. The handler is abstract. Clients enqueue, cancel (select
first, commit later) and otherwise only open transactions that collide with the
workers'. The size of a batch is left open, and the error text and the payload
are left out. `Load` reads the row anew; the code's `session.get` may return the
object of an earlier claim of the same job by the same session, whose status
differs in memory only.

**DurableQueue** is what `jobs.py` promises under "Guarantees", without workers
or transactions. `JobQueue` implements it under the mapping
`state[j] = job[j].status`, `attempts[j] = job[j].attempts`.

**Migrations** (`run_migrations`). A process has a release, that is, the
contents of each of its files; `applied` is `schema_migrations` with the
checksums taken for the contents, `ran` counts how often a file's statements
were committed. A start goes through its files one by one (`SkipApplied`,
`RefuseEdited`, `FindOutstanding`, then `Apply` or `ApplyRefused`); whatever
refuses it ends the process, which the deployment starts again.

**ScanPipeline** extends `JobQueue`: each of its actions is a queue action with
the part of the scan added, so that the handler gets a body. A scan and its job
are created by one commit and share an id. `phase[e]` says how far a session is
with its scan, `seen[e]` is the status of its copy, `rowLock` the row lock that
a flushed UPDATE holds on PostgreSQL. The engine reports any set of
fingerprints; the unique constraint `(scan_id, fingerprint)` is the guard of
`CompleteScan`.

**AccountAccess** models one active account. A password is the number of changes
that led to it, `opened` the passwords behind the sessions that are not revoked.
`redeemed` and `failures` are history variables. Volume limits are a refusal
that may come at any time; the limiter's own connection (`LimiterWrites`) is
modelled because it commits in the middle of a login, and of a password change
(`LimitChange`, between the load of the user and the test of the old password).
With the database limiter on SQLite both are refused their write, as
`account_limiter` shows of the login. The lock may expire at any
time after it was set, which also absorbs the shift that
`locked_until.timestamp()` makes of a naive UTC value. The dashboard's login has
no limiter and does not touch `locked_until`.

**FindingLedger** (`_resolve_previous_findings`, `triage.py`, the PATCH route).
The findings of one project over all its scans. A scan takes the lock of its row
(`StartScan`), selects what it finds gone (`SelectOpen`) and writes it together
with what is new (`SaveScan`); a user loads a finding and writes a decision
(`LoadFinding`, `ApplyTriage`). Nothing stops a scan from being started again: one
that has failed is retried, and one that a worker has completed may be run by the
inline request that still holds it as queued; only the unique constraint on
`(scan_id, fingerprint)` can refuse what a second run finds (`SaveScan`). A scan
resolves the open findings of *all other* scans, later ones included. `latest` is
the scan that ended last, which need not be the one requested last.

**PolicyGate** (policy routes, `POST /scan`, `GET /scan/{id}/result`,
`resolve_policy`). An upsert selects, flushes the row and then the update of
everybody else's default flag, and commits. That update reaches the rows that
are there when it is flushed (`Others`), and on PostgreSQL it waits for those
that another transaction has written (`LockedBy`) but does not see those it has
inserted; so there two new defaults may come to stand side by side. A scan names a policy, brings a
document or relies on the default; the document it was gated on is kept with it.

**Tenancy** (`rbac.py`, `tenancy.py`, `deps.py`, routes). The principal is read
in one transaction, the route acts in another with that principal's role and
scopes, so roles may change in between. A route is a record: its permission, the
kind of row it loads, the state it asks of it and the state it leaves.

**AuditLog** (`audit.py`). A record takes its time before its id; an export pages
through the ids, each page a set of rows that is known by how many rows lie between
the last one and it; a purge computes its cutoff, records itself, and computes
the cutoff again. Ids are given by the database and lost with a rollback.

**RateLimiter** (`ratelimit.py`), one key, in memory, on SQLite or on PostgreSQL. A
caller reads the clock and its hit arrives later. A hit is its time and its number
in the order of arrival: the memory store prunes from the front of its deque, up to
the first hit that is recent, the database deletes by time. In memory (under the
lock) and on SQLite (the transaction writes first) recording and counting are one
step, `Check`; on PostgreSQL a caller counts the committed hits and its own
(`RecordHit`) and commits later (`CommitHit`), so callers who count at the same time
do not count each other.

**Delivery** (`integrations/__init__.py`, `egress.py`, integration and egress
routes). A host is a sequence of labels or a literal address; the DNS answers
anything each time it is asked. `Resolve` is `resolve_target`, which checks all
addresses and pins the first; `Redirects` starts over with another host,
`Fails` is the retry of `_post`. `OrgAllowlist` is `None` because no code binds
the organization (section 3).

### Tool

**Baseline**, **PolicyDecision** and **ScanEngine** are pure operators named as
in the code (`diff_baseline`, `evaluate_policy`, `run_scan`, ...). A finding is a
record of what the filters look at; the code of a project is the set of findings
that engines would report on all its files, which configuration then narrows by
directory, path, engine, entropy, rule, severity, policy and baseline in the
code's order. A layer of settings is a record of what it sets, and `Over` puts
one on another.

**CommandLine** (`cli.py`) runs commands one after another while code, files and
days change: `Scan` and `ScanRefused`, the baseline commands, `policy validate`,
`license verify`, `config init`, and `PlatformScan`, which is `perform_scan`'s
use of the same engine. `outcome` is the exit code and what was found;
`accepted` is a history of who accepted what, until when, in which file.

**AdvisoryMatch** (versions, ranges, `normalize_spec`, the decision of
`scan_dependencies`), **Manifests** (the walker's globs and the parsers),
**AdvisoryFeed** (`record_to_entries`, `import-osv`, overlay and remote sources)
and **DependencyScan**, in which manifests, feeds and imports meet. A file is
what it lists, a version its numbers, its prerelease and whether that is set off by
a hyphen; a name is its words and the mark between them; text is good, broken or
empty. `Tomllib` says whether Python has a TOML parser (it has since 3.11; the
project supports 3.9), and the syntax of each format is in `Syntax`. A database is a set of entries, each with the place where it was read
(`at`: the record and the item in it), which is what the order of the code's
lists decides by: the first entry on a vulnerability is kept (`KeepFirst`), a
later overlay file replaces an earlier one (`Overlay`), and what one source has
under an id hides what the next has (`Merged`). The database starts out empty
and is imported once. The reference definitions (`Installable`, `AffectedBy`) say
what the package managers and the OSV schema mean.

**LicenseExpression** (`spdx_expr.py`, `scan_license_compliance`). A text is a
sequence of tokens, generated together with the sets of licences among which it
leaves the choice (`Licence`, `With`, `Or`, `And`) and whether it is SPDX: licences
one after the other (`Row`), and what contains them, are not. So the parser is
compared with the meaning and not with itself.

**PythonFlows** (`FunctionTaintVisitor`, `FlowTracker`). First the analyses run:
`tracker` holds for each of them the statements visited, the names tainted and
the sinks found. `VisitText` is a step of `scan_python_file`, in the order of the
text; then `VisitWalk` is one of `scan_python_flows`, in the order of `ast.walk`,
breadth first (`WalkedBefore`). The parameters of a function are positional-only,
keyword-only or ordinary, and each analysis marks some kinds only (`MarkedParams`). A
statement `bind` is an assignment with an annotation, an augmented one or one with
several targets, at which neither analysis looks. An expression is the set of its
branches: a name, a source or a literal, and the operators above it, displays of
lists and tuples among them. After the analyses (`Analysed`)
the scope is executed, with all branches (`Assign`, `CallSink`, `Enter`, `Leave`,
`Raise`), and each value carries the sources it was built from.

## 3. What TLC checks

| run | instance | shows |
|---|---|---|
| `queue_sqlite` | 2 workers, 1 client, 2 jobs, 1 crash, 2 attempts | `TypeOK`, `QueuedHasAttemptLeft`, `ClaimTakesRunnable`, `ImplementsDurableQueue` |
| `deployment_postgres` | start: 2 processes, 3 releases, 5 starts each, 1 death; serve: 2 workers, 1 client, 1 job, 1 crash; fair | `StartedMeansMigrated`, `GenuineComesUp`; `RunningIsLookedAfter`, `EveryJobSettles` |
| `scan_sqlite` | 2 workers, 1 client, 2 scans, 1 crash | `ScanTypeOK`, `DoneJobMeansSettledScan`, `ResultsExactlyWhenSucceeded`, `SettledScanStays`, `UsesJobQueue` |
| `scan_postgres` | 2 workers, 1 client, inline scans, 1 crash, fair | `EveryScanAnswered` |
| `account_sqlite` | 3 requests, 2 tokens, 2 changes, 1 fault | `TokenSpentOnce`, `OneLiveToken`, `SessionsUseCurrentPassword`, `FailuresAreCounted` |
| `platform_sqlite` | 2 sessions for each part; 3 scans, 1 fingerprint; 2 policies, 2 documents, 1 scan; 2 organizations, 3 users, 1 object; 4 records, pages of 2, 0 or 1 days; 3 stores, 2 callers, limit 2, window 3, delay 1 | `HistoryExplainsStatus`, `OpenIsReported`, `TriageOutlivesScans`; `DefaultHandedOver`, `RecomputedFromSameDocument`; `ChangesAreAccountedFor`; `DeliveredExportIsTheTrail`, `PurgeLeavesNoGap`; `AdmitsAtMostLimit`, `RetryAfterSuffices`; `PlatformTypeOK` |
| `delivery_sqlite` | 2 sessions, 3 names, 2 addresses, 3 answers of the DNS, 1 redirect, 2 attempts, fair | `ConnectionsArePermitted`, `TestsEnd` |
| `tool` | 3 commands, 2 days, 3 findings, 3 settings, 7 sets of options; 1 package in every manifest format and some 30 declarations, 6 feeds; expressions of up to 3 licences; all scopes of 3 statements and with 2 levels of blocks over a grammar of 14 | `GateMatchesAcceptance`, `PolicyWidensNothing`, `DecisionSurvivesStorage`; `ReportsWhatMustBeVulnerable`, `ImportIsFaithful`; `SilenceMeansAllowed`; `UntrustedSinksAreReported` |

Four further runs each find a documented statement violated; see below.

### Bounds

Two workers and one job show every race for a row; the second job shows a
success that is committed together with the next claim. `MaxAttempts = 2` is the
least at which retry and give-up both happen. `MaxFaults` bounds crashes;
`MaxClaims` bounds how often a row becomes stale, and is large enough in the
fair runs that the bound itself cannot keep a row running (two attempts, one
more from a claim that collided, one more from a crash). Three requests are what
it takes for one to set up and two to race; two password changes let a token of
an older password meet a newer one.

`MCDeployment`: two processes race for each file; the releases are an older one,
a newer one with a file more, and one whose second file was edited. Each start
that fails is either refused by another process's commit, of which there are at
most three, or by a death, so five starts do not run out for a process whose
files are genuine. `MCPlatform`: two sessions show every race of two handlers;
three scans let one end late between an earlier and a later one; a scan that
names a policy, brings a document or names nothing meets upserts and deletions
of two policies; an export of up to three records needs two pages, the second
partial or empty; a purge with 0 days or one meets four days (`MaxClock = 3`); the
limiter sees windows of three seconds slide past five (`MaxTime = 4`) with callers
late by one. `MCDelivery`: one name lies below another, one
is local, and the DNS may answer nothing, a public address, or a public and a
private one. `MCTool`: three commands are the least that accept, let pass or
change, and gate; one day passes between any two of them, so entries expire. The
code starts with all three findings and loses or regains one at a time; of three licences
in a text, the first is named by a list.

Interchangeable sessions, jobs, tokens, names and documents are symmetric in the
runs without liveness. Deadlock is checked where the system cannot stop; the
configurations that switch it off say why.

### Fairness

`Worker.run` loops without end, so a worker that can step does
(`WF(WorkerStep(w))`, including the exceptions and lock refusals it catches);
nothing is assumed about whether a handler succeeds. A request ends
(`WF(RequestAbort(c))`, `WF(RequestFails(c))`). Time passes: backoffs elapse and
rows become stale. The fair queue runs use PostgreSQL, because on SQLite fairness
of each process does not exclude that they refuse each other for ever. Liveness
also presupposes that clients fall silent (`ClientsFallSilent`, `RequestsStop`),
since a cancellation can be undone and a client can cancel again and again.

`MigrationsFairness`: the deployment restarts a process that stopped and lets it
run (`restart: unless-stopped` in `docker-compose.yml`); deaths are bounded, not excluded.
`DeliveryFairness`: every attempt has a timeout, so a connection ends one way or
the other; nothing is assumed about how, and the transaction of a test that
cannot commit fails.

### Where the code departs from its documentation

Each of these runs checks one documented statement and finds it violated by the
code's behaviour:

| run | statement | what happens |
|---|---|---|
| `account_limiter` | "`database` shares counters across processes"; a limiter "fails open" | on SQLite the limiter's commit outdates the snapshot of the login that called it: every correct password is answered 500 |
| `delivery_org_policy` | "each organization can set its own allowlist" | `current_org_id()` is `None` outside tests, as nothing calls `set_org_context`: the organization's list has no effect on deliveries |
| `python_constant_flow` | "constant-only flows never produce a finding" | the walk is breadth first: `x = 'a'; open(x); x = input()` reports the open of a constant |
| `ledger_order` | "Mark findings from earlier scans that no longer appear as resolved" (`scanning.py:288`) | a scan that was requested first and ends last, because it was retried or was slower, resolves the findings of later scans too |

More configurations show the same pattern and are kept for reference. In each,
TLC refutes every property it names when that one is checked by itself:

| configuration, module | property | what happens |
|---|---|---|
| `JobQueueDisputed.cfg`, MCJobQueue | `AttemptsBounded` | `claim` never looks at the attempts of a stale row: a job that kills its worker is claimed without end ("retried up to `max_attempts`"), on SQLite as well |
| | `OneWorkerPerClaim` | both UPDATEs succeed: `WHERE status IN (queued, running)`, and the row count is ignored ("two workers cannot claim the same row") |
| | `CancelledNeverRequeued` | `finish` puts a job back in the queue that was cancelled while its worker failed (`test_cancelled_job_is_never_executed`), on SQLite as well |
| `ScanDisputed.cfg`, MCScanPipeline | `FailedJobMeansSettledScan` | the failed status is rolled back with the exception that reports it ("Always leaves the scan row in a terminal state"), on SQLite as well |
| | `FinishedScanNotCancelled` | the status is tested on a copy; a scan that finishes meanwhile becomes cancelled, with results ("409 ... cancelling a finished scan") |
| | `RerunIsNoOp` | an inline request and a worker both complete a scan, which gets two SBOMs (`handle_scan_run`: "a no-op") |
| `AccountDisputed.cfg`, MCAccountAccess | `TokenSpentOnce` | two requests that read the token before either commits both change the password ("Reuse is impossible") |
| | `OneLiveToken` | two requests leave two live tokens ("Only the most recent request is redeemable") |
| | `SessionsUseCurrentPassword` | a login that verified the old password commits its session after the change has revoked the others |
| | `LockoutClearsItself` | the counter outlives the lock; `lockout_decision` refuses until a reset ("time-based and self-clearing"), on SQLite as well |
| `ToolDisputed.cfg`, MCTool | `AcceptedDoesNotGate` | `--max-risk-score` counts findings that the baseline suppresses ("Accepted findings stop gating") |
| | `LockedVersionsAreMatched` | the default globs exclude `*.lock`, so six of the parsers never see a file ("Lockfiles are preferred when present") |
| | `FeedNeverNarrower` | an import keeps the first item of a record on a package: a record with one item for each series of releases loses all but the first ("never silently narrower than the feed") |
| | `UnparseableIsReported` | a text that is no expression, such as `MPL-2.0 OR MIT GPL-3.0`, is read as a choice among the three, of which one is allowed, and nothing is reported ("Anything unparseable or missing is `unknown` and is never mapped to permissive", `spdx_expr.py:16`) |
| | `IgnoredIsReported` | `unknown_action: allow` reports nothing of a text that cannot be read ("the finding is still reported") |

So the account properties hold on SQLite and not on PostgreSQL, and the queue's
`ClaimTakesRunnable` and `QueuedHasAttemptLeft` likewise; what holds on both is
what the two PostgreSQL runs check.

Three statements are defined in the modules and not listed in a configuration;
TLC refutes each in `MCPlatform`: `AdminRemains` of Tenancy (two administrators
demote each other; `docs/API.md:99` names only self-demotion); `PurgeRecordSurvives`
of AuditLog (`audit.py:250`, with a retention of 0 days, which `schemas.py:415`
accepts: the cutoff of the deletion is later than the record of the purge); and
`PurgeRecordCounts` (when the day changes between the two cutoffs, or on PostgreSQL,
the record of a purge names another number than it removes; `docs/CHANGELOG.md:189`).

On PostgreSQL the limiter admits more than its limit when callers count at the same
time; no document says otherwise, so nothing is refuted by it.

### What the parsers do not understand

`ReportsWhatMustBeVulnerable` speaks of declarations that are `Understood`. The
others are, with what the code makes of them:

* `pyproject.toml`, `[project]`: the whole requirement is taken for the
  declaration, so nothing is pinned, and a vulnerable pin with a known fix is
  passed over.
* `Cargo.toml`, a bare version: read as equality, a caret range to Cargo.
* `!=v`: read as equality. `~=`, `==1.*`, a comparator with a space after it, and
  in `composer.json` a `~`: not translated, so a finding with a known fix is passed over.
* `setup.py` and `Gemfile`: of several bounds the first is read, as the pattern for
  a requirement ends at a comma and the one for a gem at the first constraint. So
  `left>=1.0.0,<1.2.0` is `>=1.0.0`, which admits a fix at 1.2.0.
* A Python name with a dot or an underscore: the parsers write it with a hyphen
  (PEP 503), the databases keep it as published, in lower case, and the two never match.
* `^0.0.x`: widened to all of `0.0`.
* Ranges whose only bound is one they exclude (`<x`, `>x`): looked up at that
  bound, a version they do not admit.
* A version with a prerelease in a manifest counts as a range; `go.sum` skips
  such lines and `go.mod` drops the suffix. Only a hyphen sets off a prerelease:
  in `1.2.0rc1` its number is read as a fourth one, so that it comes after `1.2.0`.
  Prereleases are compared as text, `rc10` before `rc2` (`ReadRight`).
* TOML where Python has no parser for it (3.9 and 3.10, `Tomllib`): `pyproject.toml` and
  `Cargo.toml`/`Cargo.lock` are silently empty, `poetry.lock` and `Pipfile` become one
  finding that says so. The run has a parser; the theorem takes either.
* No version, a URL, a property of Maven: an error or nothing.

An OSV range that is open at both ends is lost if the item has another range or
version; only the first `fixed` event of an item is kept (`Simple` excludes the
former). Malformed `go.mod`, `go.sum`, `yarn.lock`, Gradle, `Gemfile`,
`packages.config` and `.csproj` files, and a `setup.py` whose requirements are
computed, are silently empty, though the docstring of `dependency.py` says "Malformed manifests are reported as findings".

### Also noticed

* Policy: `apply_to_config` drops the configured source of advisories; an
  empty list of engines is lost in `to_dict`; a policy's lower entropy threshold
  widens the secrets engine; a block for one ecosystem applies to all.
* Command line: `scan --update-baseline` still gates, and ignores a configured
  `baseline_file`; `IRONCLAD_IGNORE_RULES` and the file's `ignore_rule_ids` have
  no effect on `scan`; `baseline prune --write` without a licence removes entries
  of engines that the trial does not run; `--expires-in-days 0` never expires; a
  malformed baseline is an internal error (5) of `scan`, not a configuration
  error (3).
* Licences: names in a row are read as if joined by AND, with an OR beside them as
  a choice among all (`UnparseableIsReported`). What `VerdictFollowsLists` says of any
  text is about its words only. `scan_license_compliance` uses the default lists,
  never the organization's.
* Python: the first analysis marks ordinary parameters only, the second also
  keyword-only ones, neither positional-only ones. Annotated and augmented
  assignments and those with several targets are not followed. A list or tuple,
  whatever is in it, clears a name for the second analysis.
  `Followed` states what the property leaves out for these reasons.
  `x = secure_filename(x)` does not clear `x`; a sanitizer anywhere in
  the argument of a sink suppresses the finding; `FunctionTaintVisitor` never
  clears a name. Data carried from one iteration of a loop to the next is missed
  by the first analysis, which the property exempts (`again`).
* Platform: two defaults, possible on PostgreSQL, make every scan without a
  policy fail; a policy that is deleted before the scan runs leaves it ungated;
  on SQLite an export or the test of an integration during which anybody commits
  is answered 500, the test after its payload was delivered; `change_password`
  revokes every session, its own included, while the API documentation says
  "all other"; a suppression does not carry over to the next scan's finding.

## 4. What is proved

TLC shows the properties of section 3 on the instances it runs. The theorems hold
for every set of workers, clients, sessions and rows and for every value of the
bounds. 34 of the 47 state a property that a run checks: every safety property
and every action property of the runs that pass. The others are the types of
components that one run checks together, a form of `StartedMeansMigrated` that
needs no assumption about the releases, the step-by-step part of `TestsEnd`, what
the translation of a declaration means, and which words of a licence decide.

| module | theorem | shows | holds |
|---|---|---|---|
| `JobQueue_proofs` | `TypeCorrect` | `TypeOK` | always |
| | `RefinesDurableQueue` | `ImplementsDurableQueue` | on both dialects |
| | `QueuedJobsHaveAttemptsLeft` | `QueuedHasAttemptLeft` | on SQLite |
| | `ClaimsAreRunnable` | `ClaimTakesRunnable` | on SQLite |
| | `RunningJobsAreLookedAfter` | `RunningIsLookedAfter` | on PostgreSQL, while no worker has crashed |
| `ScanPipeline_proofs` | `ScanTypeCorrect` | `ScanTypeOK` | always |
| | `PipelineUsesJobQueue` | `UsesJobQueue` | on both dialects |
| | `ScansKeepQueuePromise` | `ImplementsDurableQueue` | on both dialects |
| | `DoneJobsHaveSettledScans` | `DoneJobMeansSettledScan` | on both, inline scans included |
| | `ResultsArePublishedOnce` | `ResultsExactlyWhenSucceeded` | on SQLite, without inline scans |
| | `SettledScansStay` | `SettledScanStays` (succeeded or cancelled) | on SQLite, without inline scans |
| `AccountAccess_proofs` | `AccountTypeCorrect` | `TypeOK` | always |
| | `TokensAreSpentOnce` | `TokenSpentOnce` | on SQLite |
| | `TokensAreAlone` | `OneLiveToken` | on SQLite |
| | `SessionsEndWithTheirPassword` | `SessionsUseCurrentPassword` | on SQLite |
| | `NoFailureIsLost` | `FailuresAreCounted` | on SQLite |
| `FindingLedger_proofs` | `LedgerTypeCorrect` | `LedgerTypeOK` | always |
| | `HistoryIsTrue` | `HistoryExplainsStatus` | on SQLite |
| | `OpenFindingsAreReal` | `OpenIsReported` | on SQLite |
| | `ScansRespectTriage` | `TriageOutlivesScans` (suppressed findings) | on SQLite |
| `Migrations_proofs` | `MigrationsTypeCorrect` | `MigrationsTypeOK` | always |
| | `StartedHasItsSchema` | `HasItsSchema` of every process | on both, for any releases |
| | `MigratesInOrder` | `StartedMeansMigrated` | on both, for `AppendOnly` releases |
| `Organization_proofs` | `PolicyTypeCorrect` | `PolicyTypeOK` | always |
| | `DecisionsAreReproducible` | `RecomputedFromSameDocument` | on both dialects |
| | `DefaultPassesOn` | `DefaultHandedOver` | on SQLite |
| | `TenancyTypeCorrect` | `TenancyTypeOK` | always |
| | `TrailIsComplete` | `ChangesAreAccountedFor` | on SQLite |
| | `PurgesTakeTheOldest` | `PurgeLeavesNoGap` | on SQLite, for any retention |
| | `AuditTypeCorrect` | `AuditTypeOK` | always |
| | `ExportsAreTheTrail` | `DeliveredExportIsTheTrail` | on SQLite |
| | `LimiterTypeCorrect` | `LimiterTypeOK` | always |
| | `WindowIsNeverOverfull` | `AdmitsAtMostLimit` | in memory and on SQLite |
| | `RetryAfterIsTrue` | `RetryAfterSuffices` | with each of the three stores |
| | `PlatformTypeCorrect` | `PlatformTypeOK` | always |
| | `DeliveryTypeCorrect` | `DeliveryTypeOK` | always |
| | `ConnectionsStayWithinPolicy` | `ConnectionsArePermitted` | on both dialects |
| | `TestsAreBounded` | `TestsComeNearer` | on both dialects |
| `Tool_proofs` | `CommandTypeCorrect` | `CommandTypeOK` | always |
| | `PolicyCannotWiden` | `PolicyWidensNothing` | always |
| | `StoredDecisionsHold` | `DecisionSurvivesStorage` | always |
| | `GatesOnWhatIsNotAccepted` | `GateMatchesAcceptance` | for `LapsesAreReal` |
| | `VerdictsFollowLists` | `VerdictFollowsLists` | for any text |
| | `TranslationIsExact` | `normalize_spec` admits what may be installed | for the operators in `Translated`, without a prerelease |
| | `DependencyReportsAreSound` | `ReportsWhatMustBeVulnerable` | for entries in the `Syntax` of their format that are `Understood`, every feed of records |
| | `ImportLosesNothing` | `ImportIsFaithful` | for every feed of records |
| | `UntrustedDataIsReported` | `UntrustedSinksAreReported` | for any scope of the grammar that an analysis has `Followed` |

`Transactions_proofs` holds the lemmas they share. The proofs have one step per
action.

### Assumptions

* The `ASSUME`s of the modules on their constants, which TLC evaluates in every
  run: sets of numbers are sets of numbers, None is none of the rows, workers and
  processes are sessions, and so on.
* "On SQLite" means that SQLite's rule of section 2 (no write on a snapshot that
  is not current) holds. On PostgreSQL these properties can fail; the violating
  steps are those that "Also noticed" and the hazards describe.
* `AppendOnly`: no release has a file below one that it shares with another
  release and that the other lacks. The code does not enforce it.
  With releases of files {1, 3} and {1, 2, 3}, the second applies 2 after 3, and
  `StartedHasItsSchema` still holds while the order of `StartedMeansMigrated`
  does not. The releases of the run are append-only but for contents, which
  `AppendOnly` leaves open.
* Without inline scans (`NoInlineScans`): the copy from which an inline scan
  decides is older than the transaction in which it writes.
* `LapsesAreReal`: `--expires-in-days 0` is not used, and no file holds an
  acceptance of 0 days. The code reads 0 days as no expiry.
* Of DependencyScan. `TreesAssumption`: a declaration is in the `Syntax` of its
  format, with a version unless the operator goes without.
  `FeedsAssumption`: a feed is a sequence of OSV records, and what a record calls
  fixed it does not call affected; a record that contradicts itself there can be
  reported for a range whose way out is the affected version. `VersionsAssumption`:
  the versions that the properties quantify over include every release that a
  manifest or a fix names, are compared as the ecosystems do (`ReadRight`), and 0
  comes before all of them. Properties speak of
  `Understood` declarations and of `Usable`, `Simple` items, as in the run; the
  events of such an item take turns (`InTurns`), as the OSV schema asks.
* Of PythonFlows. `ScopesAssumption` is the grammar: sequences of statements, no
  parameter that is spelled as a source or a literal, and one kind for each
  parameter. The property asks that the analysis has `Followed` the scope: it marks the
  parameters whose names make them untrusted, no assignment that it overlooks
  adds anything to a name, and the operators are those it knows.

### Arguments

* **The snapshot.** Where SQLite matters, every proof has the same form. A
  session decides from copies of rows it has read; its strengthening (`Fresh` in
  JobQueue, AccountAccess and FindingLedger, `TrueCopy` in ScanPipeline,
  `DefaultInv`, `LoadedInv`) says that while the session's snapshot is
  current, the copies are the rows. It is inductive because a commit leaves no
  other snapshot current (`NobodyCurrent`), and until then no row changes
  (`SnapshotOfOthers`). SQLite refuses every write on a snapshot that is not
  current (`CommitsOnCurrent`), so what is written is decided from true copies.
  This is the one reason why an UPDATE by id is safe there, and it is what fails
  on PostgreSQL.
* **JobQueue.** `TypeOK` is not inductive, because a worker that reports must hold
  a job: `TypeInv` adds `Holding`. The refinement rests on `Known`: jobs that are
  held, done or about to be cancelled exist; those in `done` have returned; the
  attempts of a reloaded row are at most the table's. Every step moves each row
  by `AbstractMove`, and such moves only let the table grow (`Grows`), which is
  why what a session knows stays true until it writes.
  `RunningIsLookedAfter` speaks of several workers that hold the same job; `Tended`
  follows one whose report will take, because the status it will write differs
  from the one it has loaded. `DoneAside` adds that a success waits only where its
  worker has turned to the next job.
* **ScanPipeline.** `PipelineUsesJobQueue` needs `PipelineTypes`, because a
  cancellation hands its scan to the queue as a job. `DoneJobMeansSettledScan`
  rests on `Answered`: a job that has succeeded has a handler that returned, which
  has left its scan in a terminal status (`Executing`), out of which nobody takes
  it (`TerminalStays`). For the two results on SQLite, `OnceInv` adds `Unrequested` (a scan whose job does not
  exist has no row) to the true copies.
* **AccountAccess.** Next to the true copies, a request about to redeem has chosen
  only tokens that are unspent, and one that invalidates has chosen every live
  one. With `Spent` (a token that changed the password is used) and `SingleLive`
  the four properties are inductive together.
* **FindingLedger.** The types need `Present` (a finding that was loaded for triage,
  or chosen to be resolved, exists). On SQLite, `Gone` as read is what a completing
  scan resolves. Nothing is assumed about who executes a scan or how often:
  `OpenIsReported` allows for what an earlier run of the same scan has left open.
* **Migrations.** `MigrationsInv` says that a process has passed what it has no
  longer left (`Passed`), that the file it has found is the least of those
  (`Taken`), and that a version has run exactly as often as it is applied
  (`RanOnce`). The primary key and the tables a file creates are what makes the
  last part inductive on PostgreSQL.
* **Policies.** `GateInv` relates three places in which the document of a scan is
  kept: what the scan used, its column `policy_document`, and its `policy_id`,
  which a deletion clears. `DefaultInv` says that there is at most one default and
  that whoever is about to write one has cleared all the others.
* **Tenancy.** An object id is used again after a deletion, which the database
  does not do: the theorem holds all the same, since a route that found a row is
  refused if anybody committed since (`LoadedInv`). Principals are read in a
  transaction of their own, so their role may be out of date, but never
  their organization (`Member`).
* **Audit log.** The types already need `AuditInv`: a purge counts what it removes,
  and that count has a bound only because no two records share an id. So a session
  that has flushed a record owns its id, and no time is later than the clock; the
  clock moves at most once between the record of a purge and the purge. On SQLite,
  `TrailInv` adds `UpToDate`: while nobody else has committed, a session that has
  taken a time is the latest to have done so, one that has flushed has the last
  id, and one that exports pages through what is stored. Commits of such
  sessions keep ids and times in the same order. `Paged` says that the pages read so
  far are all rows up to the last of them. `NextPage` carries it on: a page
  chosen by counting has no gap, and one that is not full leaves nothing behind.
* **Rate limiter.** `LimiterInv`: whoever was let in recently still has a hit of
  its own in the store, since a hit is only pruned when it is older than the
  window less the delay of an arrival. The callers let in within a window
  are thus injected into the hits counted when the last of them was, at most
  `Limit`. For `Retry-After`, the hits behind the one that decides are fewer than
  the limit, and at the promised time that one has left the window; on the memory
  store this needs the hits to have arrived in the order of their times, which is
  the condition of the property.
* **Platform.** Each component's invariant speaks of the transactions by their type
  only, so a component at rest keeps it whoever else is at work (`AtRest`).
* **Delivery.** `ConnectionsArePermitted` is inductive with the types.
  `TestsAreBounded` is the part of `TestsEnd` that needs no fairness: every step
  of a test is another hop or another attempt, of which there are finitely many.
* **Tool.** `PolicyCannotWiden` follows the layers of a configuration: each is an
  override (`Over`), what a policy may set is a narrowing, and the options come
  last. `StoredDecisionsHold` shows that deciding reads no key that storing drops
  (`SameKeysSameDecision`). `AcceptanceInv` relates the history of the commands to
  the files: on today's and every later day, the entries in force in a readable
  file are the acceptances made in it that still hold; deciding on a day says
  nothing of the next, so this is what pruning and rewriting must keep.
  `VerdictsFollowLists` says which licences named in a text decide about it
  (`ClassifiedByLists`), without a word about how the text is read.
* **Dependencies.** Versions are compared number by number (`NumberByNumber`), which
  is a strict weak order (`Irreflexive`, `Transitive`): two versions that compare equal
  have the same four numbers and the same prerelease (`EqualNumbers`), so they satisfy
  the same ranges (`EqualSatisfy`). The code's comparators rely on this and never
  state it. `TranslationIsExact` goes through the operators of the package
  managers; only where it holds can a range be trusted to exclude the fix.
  `DatabaseInv` says that the database holds entries of the feed, and that a report
  from it is what the present files and entries give; the rest is about that one
  set of findings, format by format. A range must be reported when all it
  admits is affected: the lowest version it names is one of them, and the fix is
  not. `ImportLosesNothing` needs that the alternatives made from a sequence of
  events admit exactly what the last event below a version says (`RangeAsMeant`), by
  way of the lower bound that each upper bound takes from the event before it; and
  that the first record on a vulnerability is the one that is kept (`FirstIsKept`).
* **Data flow.** `EvalInv` speaks of a labelling that is not in the program: for each
  place in the text, the names tainted when the first analysis came there
  (`Marks`). Nothing clears a name there, so the labels grow along the text, and while no
  loop is repeated the untrusted names that are bound are in the label of a place
  that the execution has been to (`MarkedIfUntrusted`). At the header of a loop that it
  went through, that place is the end of the body (`Been`), which is unique
  (`OneEnd`). `OpenInv` is about the breadth-first walk: if every name is assigned
  once and at the top, then a statement that comes after an assignment is walked after
  it (`TopAssignmentsFirst`, `WalkedOneWay`), so no verdict about a statement
  whose names were all given before it is changed by a later visit (`Judged`).
  The execution only gets to such statements (`GivenBefore`), because
  assignments lie outside of blocks: going back to the header of a loop passes
  none of them (`BoundStays`).

### What stays with TLC

* Liveness (`EveryJobSettles`, `EveryScanAnswered`, `GenuineComesUp`, `TestsEnd`,
  `GrantedLoginSucceeds`): fairness and ENABLED are out of the prover's reach.
* `SilenceMeansAllowed`, that is, what a licence expression means: the parser
  recurses over the text, and induction over data is out of reach, as is the
  recursive grammar that generates the expressions. TLC compares parser and meaning
  for expressions of up to three licences: all that are SPDX, and those that
  are not unless they contain an OR, where the code departs from its
  documentation (`UnparseableIsReported`).
* What is violated, and whatever PostgreSQL admits, the window of the limiter among
  it.

## 5. Plan

Models came first, proofs followed: all modules of section 2 and the theorems of
section 4 are done. What would come next:

1. LicenseExpression: `SilenceMeansAllowed` for expressions with one kind of operator,
   with the tokens read by a recursive function; what it computes for every text
   remains an induction.
2. PythonFlows: `else` branches and functions in functions, for which the walk order
   is as the code has it and the execution needs a stack.
3. On PostgreSQL, each of the disputed properties could be proved of the model with
   a row lock or a conditional UPDATE, to show that the change suffices.

## 6. What is not modelled, and why

* Secrets, rule packs and infrastructure files (`scanners/secrets.py`,
  `rule_engine.py`, `iac.py`): patterns matched line by line, without state and
  without an order that matters. The same holds of `StructuralVisitor`, which
  judges single calls, and of the sinks' lists. In PythonFlows, functions in
  functions, `else` branches, attributes and parameter names that merely contain
  a hint are left out; `eval` and `open` stand for the sinks.
* Collection of components for an SBOM, SPDX documents and reports: rendering.
* Events: rows added in the transaction they describe, which FindingLedger keeps
  where they matter. The product subscribes no handler. `default_bus.published`
  grows without bound and includes events of transactions rolled back.
* Mail: one message over SMTP. Its place before the commit that makes the link
  valid is listed as a hazard; a link that does not work is answered like any
  other.
* Idempotency keys: a unique constraint decides between two requests; what
  remains is the answer to the second. Registration, CSRF tokens and read-only
  routes decide nothing about rows that others decide about.
* Cryptography, password hashing, the signature of a licence, tokens'
  randomness: outside a state model.
* Payloads of the providers, output formats, schemas, application wiring, health
  and metrics endpoints: no shared state.
* Dashboard: its login is in AccountAccess and its triage form in FindingLedger;
  its pages render data.
