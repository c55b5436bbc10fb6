# Traefik Manager: a TLA+ verification project

Traefik Manager is a FastAPI/SQLite backend and a Next.js frontend that edit the dynamic
configuration of a Traefik reverse proxy (services, redirects, middlewares, Authentik
authentication, Cloudflare DNS), plus a set of host scripts that deploy the manager itself and
update Traefik. This directory holds TLA+ models of the parts of it in which several processes,
requests, failures and restarts meet, and of the pages whose state is more than one variable; the
TLC configurations that check them on small instances; and proofs, checked by TLAPS, that the
safety properties hold for every value of the constants.

## 1. The system

Paths are relative to the repository root. `PROJECT.json` has the complete list of components
and hazards; this is the map.

| Part | State | Operations | What makes it hard |
|---|---|---|---|
| Blue-green deployment (`scripts/blue-green-deploy.sh`, `manager-blue-green-*.sh`) | route file, Traefik's loaded route, containers of three slots, state file, history, flock | one long script with a rollback trap | any command can fail, the rollback too; SIGKILL skips the trap; two releases run side by side |
| Background supervisor (`backend/app/background_task_supervisor.py`) | lease file (flock), leader task | poll the route, take the lease, lead, release | two backends poll a file that changes under them |
| Migrations (`persistence/blue_green_preflight.py`, `migration_runner.py`) | Alembic revision of the shared database | preflight verdict, upgrade at start | old and new release share the schema; an old image refuses a newer one |
| Traefik patch update, API side (`traefik_update_requests.py`, routers) | one request file | validate, publish by hard link, ask for an alert retry | validated against a status that is old when used |
| Traefik patch update, host runner (`scripts/traefik-update-runner.py`, `traefik_update_*.py`) | Compose files, backup, container, history, heartbeat, audit base line, lock | observe, preflight, back up, replace, pull, up, validate, roll back, alert | killed between any two of these; rollback of a rollback |
| Safe recreation tool (`scripts/traefik_safe_recreate.py`, `traefik_recreate_checkpoint.py`) | checkpoint, recovery state | recreate, save checkpoint, recover | shares lock, container and audit with the runner |
| Service lifecycle (`application/proxy/*`) | database row, route file, Authentik objects, DNS record | create, update, delete, roll back | four stores, one transaction that covers only the first |
| Start-up synchronisation, maintenance expiry | the same rows and files | rewrite at start; periodic transition | further writers of the same files |
| Accounts and sessions (`application/auth/*`, `interfaces/api/dependencies.py`) | users, sessions | log in, admit and touch, log out, revoke, change, delete, create, roll back | checks and writes separated by awaits; whole rows written back |
| Alert delivery and retry (`infrastructure/notifications/*`) | audit rows that describe deliveries | send, record, retry automatically or by hand | send and record are not atomic; attempt, run and window limits |
| Audit retention and archives (`persistence/audit_retention.py`, `audit_archives.py`) | audit rows, archive files | archive, delete, restore | two backends; threads that outlive their run |
| Dashboard: pages whose state is in the browser | React state, query string, `localStorage`, form fields | filter, sort, page, edit, save, import, reload, follow a link | the same thing is computed in several places and kept in several stores |
| Dashboard: pages with requests under way (services, settings, backup, users, certificates, monitors, updates) | caches of the query client, mutations, selections | save, preview, import, bulk change, retry, poll | answers arrive late, after another entry was opened or another administrator changed it |
| Dashboard: pages that wait (diagnosis, smoke run, health, login) | timers, generations, stored notices, session store | poll, retry, give up, announce | lost answers, chains of timers, other tabs |
| Storefront watchdog, smoke rotation (`scripts/*`) | state file; script, Node program and Chrome | probe, alert; rotate, check, record | runs killed at any step; three processes that end in any order |
| Redirects and templates (backend), certificate monitors, utility timers, installers, CI | | | not modelled, see section 6 |

How they interact: the API and the periodic jobs share one SQLite file. The jobs run only in the
backend that leads, which is the one whose slot the route file names and which holds the lease;
the deployment script rewrites that route file. The API hands Traefik updates to the host through
a single file that the runner polls; runner and recreation tool exclude each other with one flock
and explain every container change to the recreation audit.

Properties that make each part correct: the deployment never routes to a slot that is not
started and never interrupts service because of one fault; there is one leader and there is
always one again; migrations in between are compatible; history and state file tell the truth; an
update request is answered once and never downgrades; the container, the Compose file and the
last good checkpoint agree between runs; a recreation by the tools is never reported as
unmanaged and an unmanaged one is always reported; route file, row, DNS record and Authentik
objects of a service agree when nothing is in flight, a failed deletion can be retried, a restart
repairs the files, a maintenance ends; an administrator remains, a revoked session and a replaced
password are not accepted again; an alert is attempted within its limits; no audit row is lost.
Of the dashboard: a link restores what is shown, what is shown agrees with the data, what is sent
is what was chosen, a result belongs to what it names, whatever is waited for comes or is given up.

## 2. Modules

| Module | Models |
|---|---|
| `ActiveSlot` | abstract specification: an active slot, the running slots, the slots doing background work; requests move only to a running slot, the active slot is never stopped, at most one slot works |
| `BlueGreen` | deployment script, containers, Traefik's reload, migrations, supervisors |
| `TraefikUpdate` | request publication, host runner, recreation tool, recreation audit |
| `ServiceRoutes` | service requests over row, route file, Authentik, Cloudflare and the shared middleware file; start-up synchronisation; maintenance monitor |
| `AccountSessions` | users and sessions under overlapping requests |
| `AlertRetry` | deliveries, their rows, the sweep and the retries by hand |
| `AuditRetention` | retention runs of two backends, their threads, restorations |
| `SettingsForms`, `BackupImport`, `ServicesPage`, `MiddlewareAssignment`, `CatalogPages`, `AuditActions`, `UpdatePanel`, `CertificatesPage`, `MonitorBoard` | nine pages with requests under way |
| `ManagerParts` | composes these nine pages with `AccountSessions`, `AlertRetry` and `AuditRetention` |
| `AuditFilters`, `HistoryPanels`, `MiddlewareTemplates`, `FailureMetadata` (with its saved filters), `SmokeHistory`, `ArtifactLinks`, `MaintenancePanel`, `ServiceForm` | twelve pages and forms whose state is in the browser |
| `ViewPages` | composes these |
| `ServiceDiagnosis`, `ManualSmokeRun`, `HealthBoard`, `AuthSession`, `StorefrontWatchdog`, `SmokeRotation` | five pages that wait and two jobs of the host |
| `WaitingPages` | composes these |
| `Browser` | what the pages share: a page that is not mounted has no state |
| `MCBlueGreen`, `MCTraefikUpdate`, `MCManagerParts`, `MCViewPages`, `MCWaitingPages` | values of the constants for TLC; the `.cfg` files of `ServiceRoutes` need none |
| `BlueGreenProofs`, `TraefikUpdateProofs`, `ServiceRoutesProofs`, `BackendPartsProofs` (of `AccountSessions` and `AlertRetry`), `ManagerPartsProofs`, `ViewPagesProofs`, `WaitingPagesProofs` | theorems; those about `AuditRetention` are at its end |

In the first two models a step is one command or one file operation of the program, a killed process
stops between two steps, and local variables of a script are variables of the model with the
same meaning. In all modules, operators named `X_something`, or with a comment "Bug:" or "In place
of `X`", stand before an operator `X` and are altered versions of it that the project uses to show
that each property can fail; `Next` never reaches them.

### BlueGreen

`route` is the slot named in the file-provider YAML, `traefik` the slot of the configuration
Traefik has loaded: `TraefikReload` copies the one to the other at any time, as the file watcher
does. `backend[s]` and `frontend[s]` are containers (missing, exited, starting, up) with the
release they run; `starting` includes a container in Docker's restart loop. `pc` walks through
the script: `Prepare`, `MigrationPreflight`, start and wait for the candidate pair, `VerifyCandidate`,
`StartProbe`, `RenderRoute` (the switch), `WaitTraefikRoute`, `StopPreviousBackend`,
`WaitBackgroundLeader`, `PublicProbe`, `WriteState`, `StopPreviousFrontend`, `RecordSuccess`.
Every command that can fail leads to `EnterRollback`; the candidate counts as started from the
first `compose up` on, even when that very command fails. Before the switch it is removed,
after it the previous pair is restarted, the route rendered back, the state file restored.
`RollbackFails` is the branch in which one of those fails and the candidate is kept.
`ScriptKilled` is SIGKILL: no trap runs, the probe survives. `HostReboots` restarts the
containers Docker would restart. `sup[s]` is the loop of `supervise_background_tasks` in the
backend of slot `s`; `lease` the holder of its flock; `synced[s]` whether the log of that
container has the line the script waits for. A backend becomes ready only if its image knows the
schema revision (`CanMigrate`), and upgrades it.

### TraefikUpdate

Compose files, backups and checkpoints are their content: an image version and an option, so
that a Compose hash is the content itself; `Broken` says which contents do not become healthy.
`container` has an id that every recreation increases, the content it was created from and who
created it; the last is history only, used by properties. `api` is a request that has been
validated and not yet linked into place. The runner's labels follow `main`: observe the
container, notify, read the request, preflight, back up, replace, pull, up, record, validate,
roll back, unlink, alert. `mjob` and the `m_` labels are the recreation tool. `guard` is the
clock: within the guard time around each quarter hour the runner returns without touching the
request. `faults` counts calls that failed, `gaps` recreations that could not be recorded,
`kills` killed processes; properties that need it say how many they tolerate.

### ServiceRoutes

The backend is one event loop, so a step is what a coroutine does between two awaits at which
another one can run. `job[n]` is the coroutine of request `n` (0 is the maintenance monitor):
where it is, its operation, its entity (`svc`) and the row that `save` found (`base`). `rows` is
the committed table, keyed by the unique domain; `files`, `mwFile`, `provs`, `apps`, `pols` and
`dns` are the stores no transaction covers. `CreateBegin`, `UpdateBegin`, `DeleteBegin` and
`ExpireBegin` read the row and decide on the way through Authentik; then follow
`create_proxy_provider`, `create_application`, `clear_group_policy`, `sync_group_policy` or
`teardown` (the last three with `DeleteBinding` and `DeletePolicy`, a remote call each), `delete_application`, `delete_provider`, `CountServices`; then
`sync_cloudflare_record`, `WriteRoute`, `save` and `Commit`, or `delete_cloudflare_record` (with
the file), `DeleteRow`, `CountServices` and `Commit`. `save` looks the row up once more, because
the session holds the object it read only weakly, and `Commit` writes the columns that differ
from what it found then, inserts when there was none, and fails on a domain that is taken. The
count in a deletion flushes it, which holds SQLite's write lock until the commit (`Flushed`).
`sync` is the synchronisation of a new leader: `SyncRead` takes all rows, `SyncWrite` writes one
file at a time beside running requests, `SyncMiddleware` counts and writes the shared file.

Mishaps have a kind: a call is refused before it does anything, or done with its answer lost; an
Authentik deletion is answered by an error status, which the client does not look at; a file
cannot be written; a transaction is refused; the process is killed. A property says by
`seen` or `failed` which it tolerates.

A write of the route that fails and a look-up in `save` that fails leave by the same `RollBack`:
a create removes the file and the record it made, any other run just ends.

A policy has the application it is bound to, or none: created and not bound yet, or with its
binding deleted and the policy itself still to go.

Abstractions: the look-up of a group and the lookup and write of a DNS upsert are one call each; the slug is the domain; the data of a row is its
mode, authentication and group. A maintenance always has an end time, which may come at once.
A `roll back` is an update. Services that exist at the start are known by their domain, later ones
by the number of the request that created them. The other slot's backend is not modelled: it shares the tables, but
Traefik sends it no requests and it does not lead.

### AccountSessions

A step is what a coroutine does between two awaits. `users` and `sessions` are the committed
tables, `reqs[n]` the request `n`: its operation, where it is, the rows it has read and what it will
write. `get_current_user` admits a request (session there, not revoked, not expired, user active,
version current) and touches the session: the repository writes the whole row back, as
`Session.merge` does. An update of a user reads, checks that an administrator remains, and writes
the whole row; a changed password or deactivation raises `token_version`. A login reads the user,
issues a session for the version it read and writes it. Clean-up removes expired sessions.
History variables say with which password a session was opened, which sessions were revoked while
nobody had them in hand, and whether an update has written back a row that changed since it was
read (`overwritten`). A *campaign* says which operations are explored together, which of them
several at a time, and whose time may end: six campaigns cover updates beside each other, updates
beside logins, all changes in sequence, deletions beside creations, revocations beside touches, and
expiry.

### AlertRetry and AuditRetention

`rows` are the audit rows about deliveries, `sweep` the periodic run with the rows it will send, the
one in hand and those flushed but not committed; the first flush takes SQLite's write lock, so that
a new alert and a retry by hand wait for it or give up. `aged` is the window of hours, `Window` the
newest 200. In the retention model a row is a number and an archive the set of its rows; a cancelled
run leaves its thread writing.

### Pages

Each page is one record variable, its handlers are the actions, the query string a function from
the names of its parameters to values, a request under way a field or a set. The server's side is
modelled as far as the page can tell: answers in any order, refused, lost, or about data another
administrator has changed. In `AuthSession` every 401 clears the stored session and,
unless it answers a sign-in or the check of the session, leads to the login page, a sign-out's
too; a sign-in that fails otherwise keeps what is stored. In `ManagerParts`, `ViewPages` and `WaitingPages` a behaviour is one
visit of one page, or the life of one backend part or host job; the other variables rest. That is
sound because the router shows one page at a time and what two pages share is on the server, where
the model lets others change it, or is stored by the first before the second is opened, where
`Mounted` starts with every stored value.

The properties are conjunctions of named parts, each commented in the module of its page:

| Property | Says |
|---|---|
| `LinksRestore` | the location holds what is on screen |
| `ShownAgreesWithData` | counts, orders, statistics, notices and editors agree with the lists they are made of |
| `SentAsChosen` | payloads, exports, clean-ups and stored filters are what the user chose and the code accepts |
| `ChangesAsAsked` | action property: a step does what its button says |
| `AnswersBelong` | a result, error or badge is about the entry, input and attempt it is shown with |
| `WritesConfined` | action property: a write touches what it names and loses nothing else |
| `AdminRemains`, `RevokedStays`, `OldPasswordRefused` | of `AccountSessions` |
| `RetriesBounded` | automatic attempts stay within the limit for each failure and each retry by hand, plus one for each lost row |
| `NoLogLost` | a row that is not in the table is in an archive, unless a run that found archiving off deleted it |
| `AnnouncementsTrue` | alerts, banners, notices and results are true |
| `WaitsEnd` | liveness: whatever is waited for comes, or is given up and reported |

## 3. Runs

Each finishes within five minutes with two workers.

| Run | Shows |
|---|---|
| `bluegreen_faults` | two deployments and any two failed commands, crashes or kills: one leader, routed slot started, no interruption with a single fault, fresh leader line, faithful state file and history, rollback fails only after a second fault, refinement of `ActiveSlot` |
| `bluegreen_migrations` | three releases with growing schema, one migration marked compatible: two releases up at once meet only compatible migrations; deployments end; the routed slot leads again and again |
| `bluegreen_rollback_after_migration` (violation) | with a migration, one fault suffices for `rollback_failed` |
| `traefik_update_faults` | three requests, a broken release, two mishaps: container and Compose agree between runs, a stale request never downgrades, outcomes are final, no request is lost, a sent rollback alert stays sent whatever stale retry follows |
| `traefik_update_manual` | recreation tool against runner, an operator's change, one mishap: no false unmanaged report, healthy checkpoints; the request is consumed |
| `traefik_update_lost_alert` (violation) | a kill after the base line has moved loses the alert of an unmanaged recreation |
| `services_serial` | two requests one after the other, two domains and one middleware file, one mishap of any kind: route file, DNS record and Authentik agree with the row; a repeated deletion leaves nothing behind |
| `services_overlap` | two overlapping requests for one domain, the monitor, the synchronisation, two mishaps: the synchronisation repairs, rows are never replaced or removed by another service's request, every maintenance ends |
| `services_middleware_lost` (violation) | an update that fails after it left Authentik has deleted the middleware file |
| `dashboard_views` | `ViewPages`: `LinksRestore`, `ShownAgreesWithData`, `SentAsChosen`, `ChangesAsAsked` |
| `manager_parts` | `ManagerParts`: `AnswersBelong`, `WritesConfined`, and the properties of accounts, retries and retention |
| `dashboard_waiting` | `WaitingPages`: `AnnouncementsTrue`, `WaitsEnd` |

Bounds. The counters (`Max...`) bound the environment only: how often somebody deploys,
publishes, clicks or edits, and how often something fails. No bound limits what the program does in
answer.

* `BlueGreen`: three slots are all there are. Two releases suffice where only "old or new"
  matters, three where a release is skipped. Two deployments let the second start from what the
  first left behind, failed rollbacks included; two mishaps are the fewest that reach a failed rollback.
* `TraefikUpdate`: a second request meets the outcome of the first, and a third can be the
  alert retry after it; two options make a broken edit by an operator possible.
* `ServiceRoutes`: two requests suffice for one that fails and its repetition; two domains are
  the fewest that share the middleware file; `MaxActive` is 1 where the property is about
  requests in sequence, 2 where they, the monitor and the synchronisation overlap.
  `services_serial` leaves out disabled services, `services_overlap` the remote stores; the other
  has them.
* `AccountSessions`: two users are the fewest of which one can be the last administrator, three
  sessions one for each user and a second for one of them; two requests overlap, three are made in all.
* `AlertRetry`: a window of two rows is small enough to push a failure out of it; two alerts
  compete for the one retry of a run; one retry by hand starts a second chain.
* `AuditRetention`: two rows and batches of one make a second batch; two backends.
* Pages: two or three entries of each kind, so that another one can be open when an answer
  comes; two or three requests; a limit of lists and windows below the number of entries. The
  comments of the constants say what each bounds.

Deadlock is checked for `TraefikUpdate` only, which never stops: the timer starts the runner again.
The others may stop: nobody deploys any more and the leader works on; no request is left and no
maintenance is due; nobody clicks, and the bound of requests is reached.

Fairness. Nothing obliges an operator or user to act, or anything to fail, except where a part of
`WaitsEnd` is about what follows an action.

* `BlueGreen`: weak fairness of the script (every wait in it has a time limit, the commands
  return), of Traefik's reload (it watches the directory), of containers that can become
  healthy, and of each supervisor loop (it polls for ever).
* `TraefikUpdate`: weak fairness of the steps of a started process; strong fairness of starting the
  runner outside the guard time (the systemd timer starts it every minute, and each quarter hour
  has eleven free minutes), of the clock, and of the recreation step that waits for a free window.
* `ServiceRoutes`: weak fairness of every coroutine (the event loop runs them, every call has a
  time limit), of the synchronisation (the supervisor starts the leader's tasks again) and of
  the monitor, which comes round every 30 seconds; none of starting a request.
* `WaitingPages`: weak fairness of answers to requests (the client gives up on those that do not
  come), of timers of the page that is open, of the periodic check of the health monitor, of the
  steps of the storefront script, of the rotation's script and Node program, and of systemd's
  time limit for it; strong fairness of loading the Turnstile script, of its token, of sending the
  form and of the login being processed, because a user who wants to sign in repeats what failed;
  and of the confirmation of an alert, because a delivery that is tried again and again does arrive.

## 4. Disagreements between code and documents

Each violation run has a finding in `PROJECT.json` with the quoted line. In short:

1. `docs/plans/2026-07-16-blue-green-deployment.md:80` promises an automatic rollback after a
   failed verification; once the candidate has migrated the database the previous image cannot
   start again, because `ensure_database_schema` runs `alembic upgrade head` and the image does
   not know the revision.
2. `docs/DEPLOYMENT.md:171` promises an alert for each unmanaged recreation; the base line moves
   before the alert is sent, and a kill in between loses it.
3. The docstring at `file_provider_writer.py:155` says the middleware file goes only when no service
   needs it; it goes before the steps that can still fail and leave the service as it was.

Observations that the models contain, and that the properties above step around by saying when they hold:

* two overlapping updates can leave no active administrator (`user_use_cases.py:71`, `:79`): both
  count before either writes. `AdminRemains` holds unless a user was written between a check and
  its write;
* two overlapping updates of a password can repeat a `token_version`, and a stale update can
  write an old password and version back, so that sessions which `entities/user.py:58` means to end
  go on. `OldPasswordRefused` holds until an update has written back a row that changed since it was read;
* the maintenance monitor writes the route of a row it read before an await, over an operator's change
  committed meanwhile (`maintenance_expiry_monitor.py:113`): the file stays wrong until the next
  synchronisation. `SyncRepairs` speaks of a synchronisation that ran alone;
* a touch writes the whole session row and takes back a logout committed meanwhile
  (`dependencies.py:112`; `docs/SECURITY.md:116` says a logged-out token is refused at once).
  `RevokedStays` is about revocations of sessions nobody else had in hand;
* a sweep that is cut off loses the rows of what it has sent, so that an alert can be sent more
  than three times (`security_alert_retry_monitor.py:58`; `docs/DEPLOYMENT.md:230`). `RetriesBounded`
  counts lost rows;
* the counters of a rejected login are rolled back with it (`database.py:66`), so the lock-out
  they are for does not accumulate;
* a failed import that overwrites leaves the routes of deleted entries gone (`backup_importer.py:53`);
* the recipients' text area drops a separator while it is typed (`SecurityAlertEmailFields.tsx:77`);
* a late success closes the dialog of another entry that was opened meanwhile;
* Chrome's death lets Node exit with 0 (`smoke-browser-cdp.mjs:119`), a load timer before the
  answer of the navigation leaves Chrome behind (`:77`), and SIGTERM leaves the status "running"
  (`rotate-smoke-viewer-password.sh:183`);
* a retention run keeps the policy it read at its start;
* the message "another Manager deployment is running" is also shown when a killed script's
  probe still holds the inherited descriptor of the lock;
* `docs/DEPLOYMENT.md:171` describes unmanaged recreations as those outside the tools; a kill
  between `up -d` and its record reports the tools' own (`NoFalseUnmanaged` excludes kills);
* `docs/ROADMAP.md:92` says DNS records are rolled back on failure; the INSERT of a create runs after
  `create_service` has returned, where nothing rolls the record back;
* the comment at `service_use_cases.py:84` says a failed save cleans up what was created as far as
  possible; the Authentik provider and application stay, and make the next attempt fail.

## 5. Proofs

Thirty-eight theorems in eight modules, all for arbitrary values of the constants. They rest on the
named assumptions of the modules only: bounds, limits, cooldowns and heads are natural numbers
(`BoundsAssumption` and the like, `RunsAssumption`, `HealthAssumption`, `BackupAssumption`,
`HistoryAssumption`, `MaintenanceAssumption`, `MetadataAssumption`, `LogAssumption`), the panels of
histories are the five there are (`PanelsAssumption`), stored services are services the form can have
saved and containers are finitely many, with a score (`StoredServicesAssumption`,
`ContainersAssumption`), broken
releases are releases and releases have three numbers (`ReleasesAssumption`), `None` and the absent
state file are no value of the type they stand beside, domains are no numbers (`IdsAssumption`), a
batch has at least one row and the log is finite, the services, templates, log rows, certificates and
checks a page shows are finite sets, and the names that pages use as marks are not among them
(`SectionsAssumption`, `RotationsAssumption`, `DiagnosticsAssumption`, `BoardAssumption`,
`StorefrontAssumption`). TLC evaluates each of them on the runs. The invariants below were tried
with TLC on small instances before they were proved.

**`BlueGreenProofs`** proves every safety property of the `BlueGreen` runs.

* `TypeCorrect`: `TypeOK`. `LeaderExclusion`: `SingleLeader`, from `LeaderInv`: whoever does
  background work holds the lease. It survives because a supervisor takes the lease before it works
  and gives it back after the cancelled task has been awaited, and because a container that dies
  loses both at once.
* `RouteAlwaysStarted` and `HistoryIsTruthful`, from `DeployInv`, which says for every label
  of the script where the route points, which containers are started with which release, and what
  the state file holds. It is needed because the slot a command may stop is only known not to be
  the routed one from where the script is. `ImplementsActiveSlot`: every step is a step of
  `ActiveSlot` or a stutter.
* `LeaderLineIsNew` (`FreshLogInv`: a log line belongs to the present life of a container),
  `MixedReleasesMarked` (`MigrationsInv`: the schema is at least the head of every backend that
  has been up, and what lies between is marked), `ServiceUninterrupted` (`ServiceInv`: with the
  faults that are left over, the pair Traefik forwards to is up).
* `RollbackFailureExplained` (`RollbackHasCause`): for any migrations, a rollback is given up only
  after a second mishap or because the candidate migrated past the previous release's head.
  `SecondFaultNeeded` and `StateFileTrue` (`FaithfulInv`) assume `SameMigrations`, that all releases
  ship the same head: the instance of `bluegreen_faults`. Without it they are false, as the
  violation run shows.

**`TraefikUpdateProofs`** proves the seven safety and action properties of its two passing runs
from one invariant of six parts: types, and what the locals of runner, tool and pending request
mean at each label; the flock is held exactly by the process that is away from idle; ids of
containers are fresh; between runs container, Compose file and backup agree; the checkpoint was
healthy; whoever created the container has recorded it. `UpdateTyped`, `NoDowngrade`,
`RequestsHaveOneOutcome`, `AlertsStaySent`, `CheckpointIsHealthy`, `ToolsSettle`, `ReportsAreTrue`.

**`ServiceRoutesProofs`**: `ServicesTyped`; `IdentityKept` (an id in a row stays with its domain,
and a coroutine's base is the row of its own service or an older one); `SynchronisationRepairs`
(while no coroutine begins, what the synchronisation has read is what is in the table, and what it
has written is in the files). With `MaxActive = 1`, as in the run `services_serial`:
`DeletionLeavesNothing` and `StoresFollowRows`, from an invariant that says for each point of the
one request under way how far each store is ahead of the rows (`OneAtATime`, `RoutesFollow`,
`RecordsFollow`, `AuthentikFollows`, `NothingLeft`, `IdsFresh`).

**`BackendPartsProofs`**, of `AccountSessions`: `AccountsTyped`; `AdministratorRemains` (`AdminInv`: a pending write
that nobody interfered with is harmless); `RevocationsLast` (`RevokedInv`: no request holds an
unrevoked copy of a session that counts as revoked, so that no write can bring it back);
`ReplacedPasswordsRefused` (`OpenedInv`: there is an assignment of a password and version to
each session number under which no session, copy or login is ahead of its user, and equal versions mean
equal passwords).

Of `AlertRetry`: `AttemptsBounded`. `RetriesBounded` counts and is not inductive. The
invariant says that an attempt is a row that was sent again and no row is in hand twice, that an attempt
is known by the root of its chain and its number there (a witness, since a root is defined
by recursion), and that roots are the alert's failure and the retries by hand; the bound
is then a product of cardinalities.

**`AuditRetention`**: `RetentionTyped`, `LogKept`, from: a run that archives is about to delete only
what is in an archive of that name.

**`WaitingPagesProofs`**: `WhatIsAnnouncedIsTrue` (`AnnouncementsTrue`), and two of its parts that are
about a step rather than a state, `ResultOfTheClick` (`ResultIsNew`) and `NoticeOnce`
(`NoticeShownOnce`). No part is inductive, because what is announced was decided several steps
before. The invariant (`WInv`) says for each page where its requests and promises are: the one live
chain of polls is at its timer or at one request, and none belongs to a later generation (`MRInv`);
what is due to a component is counted from its last alert (`HBInv`); after a sign-out no answer is
under way that says the opposite (`SSInv`); a token is in the form or spent (`LCInv`); a notice in
the storage has not been shown (`DGInv`); a stored failure was met by that many runs (`SWInv`);
every phase before the present one has passed unless an error was thrown, and Chrome runs only
between its start and its end (`RTInv`).

**`ManagerPartsProofs`**: `AnswersAreInPlace` (`AnswersBelong`) and `WritesAreConfined`
(`WritesConfined`), from `PartsInv`: the page that is not open is `Unmounted`, and the open one
satisfies its own invariant. A save differs from what it was read from only where something was typed
(`STInv`, `CTInv`); each task of the backup page has its own number and a file that is there, and what
was imported last fits rows and files (`BKInv`); each service of a bulk operation is waited for,
done, failed, gone or touched by somebody else (`SVInv`); updates under way are of the present save,
one for each service that is waited for (`MAInv`); a log row has one request for each action
(`ACInv`); an inspected call holds the version that ran, and the alert is sent exactly when its
state says so (`UPInv`); failure reports come newest first (`CEInv`); the newest row of a monitor
agrees with what it stored last (`MBInv`). The action property needs the invariant too: that a
repetition is harmless, for example, holds because the rows are what the last import left.

**`ViewPagesProofs`**: `LinksAlwaysRestore` (`LinksRestore`), `ChangesAreAsAsked` (`ChangesAsAsked`)
and `SentIsAsChosen` (`SentAsChosen`), from the conjunction of one invariant for each page
(`PagesInv`). That a changed location reads as what is
shown needs to know which filters can be shown at all: the values of a history's parameters, in line
with each other as its reading brings them (`HPInv`: every control hands over what keeps them so),
a search and status for each tab (`MFInv`), sub-filters that fit their status (`SHInv`), and for
failed runs an agreement between location and filters in which a custom period without a day, a
day that cannot be parsed and a cleared bound differ in the location only (`FMInv`).

What is sent rests on the parts of an audit location fitting each other (`AUInv`: an old filter name
selects the same rows as the new one); on saved filters being normal, with names that differ, in
the list, the storage and a backup that waits for its answer (`SFInv`); on a form that nobody
touched being what was stored, whatever was sent before (`FOInv`, `TFInv`); and on a list field
showing every key that was typed (`LFInv`). The last one does not hold of the recipients' text area,
which loses separators (section 4), and `SentIsAsChosen` has the hypothesis that it is not among the
fields; the two others satisfy it. `ChangesAreAsAsked` takes from them that a chip removes its
condition and no other, that a filter is lost only where the page says so, and that an extension
under way ends after the click and after the end that was on screen (`MPInv`).

What stays with TLC: liveness and fairness (`DeploymentEnds`, `LeaderFollowsRoute`,
`RequestConsumed`, `MaintenanceEnds`, `WaitsEnd`) and `ENABLED`, which are out of the prover's reach;
`ShownAgreesWithData` of `ViewPages`, which says what sums, orders and selections over lists
compute and would need induction over data; and the properties of the violation runs, which are false.

## 6. Not modelled, and why

The backend of redirect hosts and middleware templates writes the same directory under the same
discipline as the services. Certificate and encoded-path monitors have the shape of the health
monitor. Read-only aggregation (deployment statistics, drift reports), parsing of logs and ACME
files, YAML rendering, presentation, installers and CI have no protocol of their own. In the
modelled parts: wording of messages, timing statistics, retention of the history files, the
contents of single migrations, the hash/read window of the checkpoint, the lock-out of logins.
The container that `docker compose up` creates, Traefik's reload and Alembic's refusal of unknown
revisions are external and modelled from how the scripts use them; so are GitHub, Turnstile and
Chrome. In `ServiceRoutes`: the checks of a payload and of the upstream address, which come before
any change; the public dashboard route; that FastAPI sends the response before the commit; the
alert the audit record sends before it is flushed, which is only an await. `PROJECT.json` gives the
reason for each component that is left out or modelled in part.

## 7. Plan

1. The parts of `ShownAgreesWithData` that do not depend on folds and sorting, as theorems (the
   editor of `MaintenancePanel`, the notices of `HistoryPanels`).
2. An abstract specification of "who may act" that the session checks of `AccountSessions` implement.
3. The backend of redirect hosts and templates in `ServiceRoutes`' manner.
