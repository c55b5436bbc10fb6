------------------------------ MODULE BlueGreen ------------------------------
(***************************************************************************)
(* The Manager's blue-green deployment: scripts/blue-green-deploy.sh run   *)
(* on the host, the backend and frontend containers of the three slots,    *)
(* the file-provider route the script rewrites, Traefik's own copy of that *)
(* route, the deployment state file, the Alembic revision of the shared    *)
(* SQLite database, and the background-task supervisor of every backend.   *)
(*                                                                         *)
(* One action is one command of the script (or one step of a supervisor).  *)
(* A command that can fail has a failing outcome that consumes `faults`,   *)
(* so that properties can speak about how many things went wrong.          *)
(***************************************************************************)
EXTENDS Naturals

CONSTANTS
  Versions,      \* releases (version and git revision together)
  Head,          \* Head[v]: Alembic head shipped in release v
  Compatible,    \* Alembic revisions marked BLUE_GREEN_COMPATIBLE
  NoState,       \* the state file does not exist
  MaxDeploys,    \* bound: deployments started
  MaxMishaps     \* bound: failed commands, container crashes and kills, in all

Slots == {"single", "blue", "green"}
NoSlot == "none"

ASSUME HeadAssumption == Head \in [Versions -> Nat]
ASSUME CompatibleAssumption == Compatible \subseteq Nat
ASSUME BoundsAssumption ==
  MaxDeploys \in Nat /\ MaxMishaps \in Nat
ASSUME NoStateAssumption == NoState \notin [slot: Slots, ver: Versions]

VARIABLES
  route,        \* slot named by traefik-manager-self.yml
  traefik,      \* slot of the configuration Traefik has loaded
  stateFile,    \* blue-green-deployment.state
  schema,       \* alembic_version of the shared database
  backend,      \* backend[s]:  container of slot s
  frontend,     \* frontend[s]: container of slot s
  sup,          \* sup[s]: supervise_background_tasks in the backend of slot s
  lease,        \* holder of the flock on .background-tasks.lock
  synced,       \* synced[s]: the container log has the startup-sync line
  pc,           \* next command of the deployment script
  prev, cand,   \* previous_slot, candidate_slot
  ver,          \* release being deployed
  backup,       \* state_backup_file (NoState when state_existed=0)
  switched,     \* switched
  candStarted,  \* candidate_started
  probe,        \* the background 0.2 s health probe: off, ok or failed
  history,      \* last line of blue-green-deployments.jsonl
  deploys,      \* deployments started
  faults,       \* commands of the script, or background runs, that failed
  crashes,      \* containers that died and were restarted by Docker
  kills         \* SIGKILLs of the script and reboots of the host

containerVars == <<schema, backend, frontend>>
leaderVars == <<sup, lease, synced>>
localVars == <<prev, cand, ver, backup, switched, candStarted>>
countVars == <<deploys, faults, crashes, kills>>
vars == <<route, traefik, stateFile, containerVars, leaderVars, pc, localVars,
          probe, history, countVars>>

\* Things that went wrong so far.
Mishaps == faults + crashes + kills

-----------------------------------------------------------------------------
(* Containers.  "starting" covers a container that Docker keeps restarting *)
(* (restart: unless-stopped) as well as one whose health check has not     *)
(* passed yet.                                                             *)

NoVersion == "none"
Missing == [status |-> "missing", ver |-> NoVersion]
Container == {Missing} \cup [status: {"exited", "starting", "up"}, ver: Versions]

Up(c) == c.status = "up"
Started(c) == c.status \in {"starting", "up"}
Serving(s) == Up(backend[s]) /\ Up(frontend[s])
SlotStarted(s) == Started(backend[s]) /\ Started(frontend[s])

\* Bug: only the two colours have an opposite.
opposite_slot_of_colour(s) ==
  IF s = "blue" THEN "green" ELSE IF s = "green" THEN "blue" ELSE NoSlot

opposite_slot(s) == IF s = "blue" THEN "green" ELSE "blue"

StateRecord == [slot: Slots, ver: Versions]

\* The process of slot s is gone: its supervisor and its flock with it.
ProcessGone(s) ==
  /\ sup' = [sup EXCEPT ![s] = "off"]
  /\ lease' = IF lease = s THEN NoSlot ELSE lease

\* docker start: a running container is left alone.
DockerStart(c) == IF c.status = "exited" THEN [c EXCEPT !.status = "starting"] ELSE c
DockerStop(c) == IF Started(c) THEN [c EXCEPT !.status = "exited"] ELSE c

-----------------------------------------------------------------------------
(* Skipping a deployment that is already in place.                         *)

deployment_state_matches(s, v) == stateFile = [slot |-> s, ver |-> v]

container_matches_deployment(c, v) == Up(c) /\ c.ver = v

is_current_deployment_active(s, v) ==
  /\ s \in {"blue", "green"}
  /\ deployment_state_matches(s, v)
  /\ container_matches_deployment(backend[s], v)
  /\ container_matches_deployment(frontend[s], v)
  /\ ~Started(backend[opposite_slot(s)])
  /\ ~Started(frontend[opposite_slot(s)])

\* Bug: any migration ahead of the database will do.
check_migrations_unmarked(v) == schema <= Head[v]

\* check_blue_green_migrations: the database revision is one the candidate
\* ships, and every pending migration carries the marker.
check_blue_green_migrations(v) ==
  /\ schema <= Head[v]
  /\ \A r \in (schema + 1)..Head[v] : r \in Compatible

\* ensure_database_schema runs `alembic upgrade head' when a backend starts;
\* Alembic refuses a database revision the image does not ship.
CanMigrate(v) == schema <= Head[v]

-----------------------------------------------------------------------------
(* The deployment script.                                                  *)

BeforeSwitch == {"prepare", "preflight", "cand_backend", "wait_cand_backend",
  "cand_frontend", "wait_cand_frontend", "verify", "start_probe", "render"}
AfterSwitch == {"wait_route", "stop_prev_backend", "wait_leader",
  "public_probe", "write_state", "stop_prev_frontend", "record"}
RollingBack == {"rb_backend", "rb_wait_backend", "rb_frontend",
  "rb_wait_frontend", "rb_render", "rb_wait_route", "rb_restore"}
Labels == {"idle", "rb_stop_cand"} \cup BeforeSwitch \cup AfterSwitch \cup RollingBack

Outcome == {"success", "failed_before_switch", "rolled_back", "rollback_failed"}
NoHistory == [status |-> "none", from |-> NoSlot, to |-> NoSlot, active |-> NoSlot]
HistoryRecord == [status: Outcome, from: Slots, to: Slots, active: Slots]

\* The script gets past its own precondition checks with the lock in hand.
\* The flock is inherited by the background probe, so a probe that outlives
\* a killed script keeps the lock.
DeployBegin(v, force) ==
  /\ pc = "idle" /\ probe = "off"
  /\ deploys < MaxDeploys
  /\ Serving(traefik)
  /\ force \/ ~is_current_deployment_active(route, v)
  /\ prev' = route
  /\ cand' = opposite_slot(route)
  /\ ver' = v
  /\ backup' = stateFile
  /\ switched' = FALSE
  /\ candStarted' = FALSE
  /\ deploys' = deploys + 1
  /\ pc' = "prepare"
  /\ UNCHANGED <<route, traefik, stateFile, containerVars, leaderVars, probe,
                 history, faults, crashes, kills>>

Goto(from, to) == pc = from /\ pc' = to

\* dockerproxy and the candidate's images are built.
Prepare ==
  /\ Goto("prepare", "preflight")
  /\ UNCHANGED <<route, traefik, stateFile, containerVars, leaderVars,
                 localVars, probe, history, countVars>>

MigrationPreflight ==
  /\ Goto("preflight", "cand_backend")
  /\ check_blue_green_migrations(ver)
  /\ UNCHANGED <<route, traefik, stateFile, containerVars, leaderVars,
                 localVars, probe, history, countVars>>

\* Bug: the container is restarted instead of recreated and keeps its log.
StartCandidateBackend_same_log ==
  /\ Goto("cand_backend", "wait_cand_backend")
  /\ candStarted' = TRUE
  /\ backend' = [backend EXCEPT ![cand] = [status |-> "starting", ver |-> ver]]
  /\ ProcessGone(cand)
  /\ UNCHANGED <<route, traefik, stateFile, schema, frontend, synced, prev,
                 cand, ver, backup, switched, probe, history, countVars>>

\* start_candidate, first command: --force-recreate gives an empty log.
StartCandidateBackend ==
  /\ Goto("cand_backend", "wait_cand_backend")
  /\ candStarted' = TRUE
  /\ backend' = [backend EXCEPT ![cand] = [status |-> "starting", ver |-> ver]]
  /\ ProcessGone(cand)
  /\ synced' = [synced EXCEPT ![cand] = FALSE]
  /\ UNCHANGED <<route, traefik, stateFile, schema, frontend, prev, cand, ver,
                 backup, switched, probe, history, countVars>>

WaitCandidateBackend ==
  /\ Goto("wait_cand_backend", "cand_frontend")
  /\ Up(backend[cand])
  /\ UNCHANGED <<route, traefik, stateFile, containerVars, leaderVars,
                 localVars, probe, history, countVars>>

\* Bug: the frontend is waited for but never started.
StartCandidateFrontend_forgotten ==
  /\ Goto("cand_frontend", "wait_cand_frontend")
  /\ UNCHANGED <<route, traefik, stateFile, containerVars, leaderVars,
                 localVars, probe, history, countVars>>

StartCandidateFrontend ==
  /\ Goto("cand_frontend", "wait_cand_frontend")
  /\ frontend' = [frontend EXCEPT ![cand] = [status |-> "starting", ver |-> ver]]
  /\ UNCHANGED <<route, traefik, stateFile, schema, backend, leaderVars,
                 localVars, probe, history, countVars>>

WaitCandidateFrontend ==
  /\ Goto("wait_cand_frontend", "verify")
  /\ Up(frontend[cand])
  /\ UNCHANGED <<route, traefik, stateFile, containerVars, leaderVars,
                 localVars, probe, history, countVars>>

\* verify_candidate_chain around attach_candidate_backend.
VerifyCandidate ==
  /\ Goto("verify", "start_probe")
  /\ Serving(cand)
  /\ UNCHANGED <<route, traefik, stateFile, containerVars, leaderVars,
                 localVars, probe, history, countVars>>

StartProbe ==
  /\ Goto("start_probe", "render")
  /\ probe' = "ok"
  /\ UNCHANGED <<route, traefik, stateFile, containerVars, leaderVars,
                 localVars, history, countVars>>

\* switched=1 is set before the route is rendered, so that a render that
\* fails is rolled back as well.
RenderRoute ==
  /\ Goto("render", "wait_route")
  /\ switched' = TRUE
  /\ route' = cand
  /\ UNCHANGED <<traefik, stateFile, containerVars, leaderVars, prev, cand,
                 ver, backup, candStarted, probe, history, countVars>>

\* wait_traefik_route asks Traefik's API from inside the backend of slot s.
RouteLoaded(s) == traefik = s /\ Serving(s)

\* Bug: the old slot is drained before Traefik has picked up the new route.
WaitTraefikRoute_unconfirmed ==
  /\ Goto("wait_route", "stop_prev_backend")
  /\ UNCHANGED <<route, traefik, stateFile, containerVars, leaderVars,
                 localVars, probe, history, countVars>>

WaitTraefikRoute ==
  /\ Goto("wait_route", "stop_prev_backend")
  /\ RouteLoaded(cand)
  /\ UNCHANGED <<route, traefik, stateFile, containerVars, leaderVars,
                 localVars, probe, history, countVars>>

\* After the drain sleep; docker stop returns once the process has exited.
StopPreviousBackend ==
  /\ Goto("stop_prev_backend", "wait_leader")
  /\ backend' = [backend EXCEPT ![prev] = DockerStop(@)]
  /\ ProcessGone(prev)
  /\ UNCHANGED <<route, traefik, stateFile, schema, frontend, synced,
                 localVars, probe, history, countVars>>

WaitBackgroundLeader ==
  /\ Goto("wait_leader", "public_probe")
  /\ synced[cand]
  /\ UNCHANGED <<route, traefik, stateFile, containerVars, leaderVars,
                 localVars, probe, history, countVars>>

\* Public health and continuity probes, then stop_probe and its assertion.
PublicProbe ==
  /\ Goto("public_probe", "write_state")
  /\ Serving(traefik)
  /\ probe = "ok"
  /\ probe' = "off"
  /\ UNCHANGED <<route, traefik, stateFile, containerVars, leaderVars,
                 localVars, history, countVars>>

WriteState ==
  /\ Goto("write_state", "stop_prev_frontend")
  /\ stateFile' = [slot |-> cand, ver |-> ver]
  /\ UNCHANGED <<route, traefik, containerVars, leaderVars, localVars, probe,
                 history, countVars>>

StopPreviousFrontend ==
  /\ Goto("stop_prev_frontend", "record")
  /\ frontend' = [frontend EXCEPT ![prev] = DockerStop(@)]
  /\ UNCHANGED <<route, traefik, stateFile, schema, backend, leaderVars,
                 localVars, probe, history, countVars>>

Record(status, active) ==
  history' = [status |-> status, from |-> prev, to |-> cand, active |-> active]

RecordSuccess ==
  /\ Goto("record", "idle")
  /\ Record("success", cand)
  /\ UNCHANGED <<route, traefik, stateFile, containerVars, leaderVars,
                 localVars, probe, countVars>>

-----------------------------------------------------------------------------
(* A failing command enters rollback() through the EXIT trap.              *)

CannotStart(c) == c.status = "starting" /\ ~CanMigrate(c.ver)

\* Bug: the health of a restarted container is read once instead of polled.
CheckFails_unpolled ==
  \/ pc = "preflight" /\ ~check_blue_green_migrations(ver)
  \/ pc = "public_probe" /\ (probe = "failed" \/ ~Serving(traefik))
  \/ pc = "rb_wait_backend" /\ ~Up(backend[prev])

\* Checks that fail by themselves, with nothing further going wrong: the
\* preflight, an image that cannot open the migrated database, a health
\* check made while a container restarts, a probe sample that was not 200.
CheckFails ==
  \/ pc = "preflight" /\ ~check_blue_green_migrations(ver)
  \/ pc = "wait_cand_backend" /\ CannotStart(backend[cand])
  \/ pc = "verify" /\ ~Serving(cand)
  \/ pc = "public_probe" /\ (probe = "failed" \/ ~Serving(traefik))
  \/ pc = "rb_wait_backend" /\ CannotStart(backend[prev])

\* Any other failure of a command, a timeout included, is a fault.
CommandFails ==
  \/ CheckFails /\ UNCHANGED faults
  \/ ~CheckFails /\ Mishaps < MaxMishaps /\ faults' = faults + 1

\* Bug: the old route is put back before the old slot has been started.
EnterRollback_route_first ==
  /\ pc \in BeforeSwitch \cup AfterSwitch
  /\ CommandFails
  /\ probe' = "off"
  /\ switched' = (switched \/ pc = "render")
  /\ candStarted' = (candStarted \/ pc = "cand_backend")
  /\ pc' = IF switched' THEN "rb_render" ELSE "rb_stop_cand"
  /\ UNCHANGED <<route, traefik, stateFile, containerVars, leaderVars, prev,
                 cand, ver, backup, history, deploys, crashes, kills>>

\* rollback(), up to the first command it runs. candidate_started is set
\* before the compose up of the candidate's backend, switched before the
\* render: a failure of either command finds its flag set.
EnterRollback ==
  /\ pc \in BeforeSwitch \cup AfterSwitch
  /\ CommandFails
  /\ probe' = "off"
  /\ switched' = (switched \/ pc = "render")
  /\ candStarted' = (candStarted \/ pc = "cand_backend")
  /\ pc' = IF switched' THEN "rb_backend" ELSE "rb_stop_cand"
  /\ UNCHANGED <<route, traefik, stateFile, containerVars, leaderVars, prev,
                 cand, ver, backup, history, deploys, crashes, kills>>

\* start_existing_slot(previous_slot)
RestartPreviousBackend ==
  /\ Goto("rb_backend", "rb_wait_backend")
  /\ backend' = [backend EXCEPT ![prev] = DockerStart(@)]
  /\ UNCHANGED <<route, traefik, stateFile, schema, frontend, leaderVars,
                 localVars, probe, history, countVars>>

WaitPreviousBackend ==
  /\ Goto("rb_wait_backend", "rb_frontend")
  /\ Up(backend[prev])
  /\ UNCHANGED <<route, traefik, stateFile, containerVars, leaderVars,
                 localVars, probe, history, countVars>>

RestartPreviousFrontend ==
  /\ Goto("rb_frontend", "rb_wait_frontend")
  /\ frontend' = [frontend EXCEPT ![prev] = DockerStart(@)]
  /\ UNCHANGED <<route, traefik, stateFile, schema, backend, leaderVars,
                 localVars, probe, history, countVars>>

WaitPreviousFrontend ==
  /\ Goto("rb_wait_frontend", "rb_render")
  /\ Up(frontend[prev])
  /\ UNCHANGED <<route, traefik, stateFile, containerVars, leaderVars,
                 localVars, probe, history, countVars>>

RenderPreviousRoute ==
  /\ Goto("rb_render", "rb_wait_route")
  /\ route' = prev
  /\ UNCHANGED <<traefik, stateFile, containerVars, leaderVars, localVars,
                 probe, history, countVars>>

WaitPreviousRoute ==
  /\ Goto("rb_wait_route", "rb_restore")
  /\ RouteLoaded(prev)
  /\ UNCHANGED <<route, traefik, stateFile, containerVars, leaderVars,
                 localVars, probe, history, countVars>>

\* Bug: the state file is left as the failed deployment wrote it.
restore_state_skipped ==
  /\ Goto("rb_restore", "rb_stop_cand")
  /\ UNCHANGED <<route, traefik, stateFile, containerVars, leaderVars,
                 localVars, probe, history, countVars>>

restore_state ==
  /\ Goto("rb_restore", "rb_stop_cand")
  /\ stateFile' = backup
  /\ UNCHANGED <<route, traefik, containerVars, leaderVars, localVars, probe,
                 history, countVars>>

\* Bug: the candidate is stopped although the rollback did not complete.
RollbackFails_drops_candidate ==
  /\ pc \in RollingBack
  /\ CommandFails
  /\ pc' = "rb_stop_cand"
  /\ UNCHANGED <<route, traefik, stateFile, containerVars, leaderVars,
                 localVars, probe, history, deploys, crashes, kills>>

\* Bug: the history assumes that the previous slot is active again.
RollbackFails_assumes_previous ==
  /\ pc \in RollingBack
  /\ CommandFails
  /\ pc' = "idle"
  /\ Record("rollback_failed", prev)
  /\ UNCHANGED <<route, traefik, stateFile, containerVars, leaderVars,
                 localVars, probe, deploys, crashes, kills>>

\* One of the four parts of the rollback fails: the candidate is kept, the
\* history names the slot the route file names now.
RollbackFails ==
  /\ pc \in RollingBack
  /\ CommandFails
  /\ pc' = "idle"
  /\ Record("rollback_failed", route)
  /\ UNCHANGED <<route, traefik, stateFile, containerVars, leaderVars,
                 localVars, probe, deploys, crashes, kills>>

\* stop_slot(candidate_slot) ignores a docker stop that fails; the history
\* line is written after it.
StopCandidate ==
  /\ Goto("rb_stop_cand", "idle")
  /\ \E stopB, stopF \in BOOLEAN :
       /\ \/ stopB /\ stopF /\ UNCHANGED faults
          \/ ~(stopB /\ stopF) /\ candStarted
             /\ Mishaps < MaxMishaps /\ faults' = faults + 1
       /\ IF candStarted /\ stopB
            THEN backend' = [backend EXCEPT ![cand] = DockerStop(@)] /\ ProcessGone(cand)
            ELSE UNCHANGED <<backend, sup, lease>>
       /\ IF candStarted /\ stopF
            THEN frontend' = [frontend EXCEPT ![cand] = DockerStop(@)]
            ELSE UNCHANGED frontend
  /\ Record(IF switched THEN "rolled_back" ELSE "failed_before_switch", prev)
  /\ UNCHANGED <<route, traefik, stateFile, schema, synced, localVars, probe,
                 deploys, crashes, kills>>

Script ==
  \/ Prepare \/ MigrationPreflight \/ StartCandidateBackend
  \/ WaitCandidateBackend \/ StartCandidateFrontend \/ WaitCandidateFrontend
  \/ VerifyCandidate \/ StartProbe \/ RenderRoute \/ WaitTraefikRoute
  \/ StopPreviousBackend \/ WaitBackgroundLeader \/ PublicProbe \/ WriteState
  \/ StopPreviousFrontend \/ RecordSuccess \/ EnterRollback
  \/ RestartPreviousBackend \/ WaitPreviousBackend \/ RestartPreviousFrontend
  \/ WaitPreviousFrontend \/ RenderPreviousRoute \/ WaitPreviousRoute
  \/ restore_state \/ RollbackFails \/ StopCandidate

-----------------------------------------------------------------------------
(* What runs beside the script: Traefik's file watch, the probe, Docker.   *)

TraefikReload ==
  /\ traefik # route
  /\ traefik' = route
  /\ UNCHANGED <<route, stateFile, containerVars, leaderVars, pc, localVars,
                 probe, history, countVars>>

ProbeSampleFails ==
  /\ probe = "ok"
  /\ ~Serving(traefik)
  /\ probe' = "failed"
  /\ UNCHANGED <<route, traefik, stateFile, containerVars, leaderVars, pc,
                 localVars, history, countVars>>

\* The backend's lifespan: init_db migrates, then the supervisor starts.
BackendReady(s) ==
  /\ backend[s].status = "starting"
  /\ CanMigrate(backend[s].ver)
  /\ schema' = Head[backend[s].ver]
  /\ backend' = [backend EXCEPT ![s].status = "up"]
  /\ sup' = [sup EXCEPT ![s] = "standby"]
  /\ UNCHANGED <<route, traefik, stateFile, frontend, lease, synced, pc,
                 localVars, probe, history, countVars>>

\* The frontend's health check goes through the backend of its slot.
FrontendReady(s) ==
  /\ frontend[s].status = "starting"
  /\ Up(backend[s])
  /\ frontend' = [frontend EXCEPT ![s].status = "up"]
  /\ UNCHANGED <<route, traefik, stateFile, schema, backend, leaderVars, pc,
                 localVars, probe, history, countVars>>

BackendCrashes(s) ==
  /\ Up(backend[s])
  /\ Mishaps < MaxMishaps
  /\ crashes' = crashes + 1
  /\ backend' = [backend EXCEPT ![s].status = "starting"]
  /\ ProcessGone(s)
  /\ UNCHANGED <<route, traefik, stateFile, schema, frontend, synced, pc,
                 localVars, probe, history, deploys, faults, kills>>

FrontendCrashes(s) ==
  /\ Up(frontend[s])
  /\ Mishaps < MaxMishaps
  /\ crashes' = crashes + 1
  /\ frontend' = [frontend EXCEPT ![s].status = "starting"]
  /\ UNCHANGED <<route, traefik, stateFile, schema, backend, leaderVars, pc,
                 localVars, probe, history, deploys, faults, kills>>

\* SIGKILL: no trap runs and the probe, a child process, lives on.
ScriptKilled ==
  /\ pc # "idle"
  /\ Mishaps < MaxMishaps
  /\ kills' = kills + 1
  /\ pc' = "idle"
  /\ UNCHANGED <<route, traefik, stateFile, containerVars, leaderVars,
                 localVars, probe, history, deploys, faults, crashes>>

HostReboots ==
  /\ Mishaps < MaxMishaps
  /\ kills' = kills + 1
  /\ pc' = "idle"
  /\ probe' = "off"
  /\ traefik' = route
  /\ backend' = [s \in Slots |-> IF Started(backend[s])
                   THEN [backend[s] EXCEPT !.status = "starting"] ELSE backend[s]]
  /\ frontend' = [s \in Slots |-> IF Started(frontend[s])
                   THEN [frontend[s] EXCEPT !.status = "starting"] ELSE frontend[s]]
  /\ sup' = [s \in Slots |-> "off"]
  /\ lease' = NoSlot
  /\ UNCHANGED <<route, stateFile, schema, synced, localVars, history, deploys,
                 faults, crashes>>

-----------------------------------------------------------------------------
(* supervise_background_tasks in the backend of slot s.  The route check   *)
(* and the flock are separate steps, and a leader notices a route change   *)
(* only when its poll comes round.                                         *)

SupStates == {"off", "standby", "eligible", "syncing", "leading", "stopping"}
Working == {"syncing", "leading", "stopping"}

is_manager_slot_active(s) == route = s

SupervisorStep(s, from, to) == sup[s] = from /\ sup' = [sup EXCEPT ![s] = to]

SupervisorSeesActive(s) ==
  /\ SupervisorStep(s, "standby", "eligible")
  /\ is_manager_slot_active(s)
  /\ UNCHANGED <<route, traefik, stateFile, containerVars, lease, synced, pc,
                 localVars, probe, history, countVars>>

\* Bug: the lease file is opened but not locked.
try_acquire_lease_unlocked(s) ==
  /\ SupervisorStep(s, "eligible", "syncing")
  /\ lease' = s
  /\ UNCHANGED <<route, traefik, stateFile, containerVars, synced, pc,
                 localVars, probe, history, countVars>>

try_acquire_lease(s) ==
  /\ IF lease = NoSlot
       THEN SupervisorStep(s, "eligible", "syncing") /\ lease' = s
       ELSE SupervisorStep(s, "eligible", "standby") /\ UNCHANGED lease
  /\ UNCHANGED <<route, traefik, stateFile, containerVars, synced, pc,
                 localVars, probe, history, countVars>>

\* run_active_background_tasks has logged that the startup sync is complete.
StartupSyncDone(s) ==
  /\ SupervisorStep(s, "syncing", "leading")
  /\ synced' = [synced EXCEPT ![s] = TRUE]
  /\ UNCHANGED <<route, traefik, stateFile, containerVars, lease, pc,
                 localVars, probe, history, countVars>>

\* run_active() raises, in the startup sync or in one of the loops.
RunActiveFails(s) ==
  /\ sup[s] \in {"syncing", "leading"}
  /\ Mishaps < MaxMishaps
  /\ faults' = faults + 1
  /\ sup' = [sup EXCEPT ![s] = "stopping"]
  /\ UNCHANGED <<route, traefik, stateFile, containerVars, lease, synced, pc,
                 localVars, probe, history, deploys, crashes, kills>>

SupervisorSeesInactive(s) ==
  /\ sup[s] \in {"syncing", "leading"}
  /\ ~is_manager_slot_active(s)
  /\ sup' = [sup EXCEPT ![s] = "stopping"]
  /\ UNCHANGED <<route, traefik, stateFile, containerVars, lease, synced, pc,
                 localVars, probe, history, countVars>>

\* Bug: the handle is kept open after the task has been cancelled.
release_lease_forgotten(s) ==
  /\ SupervisorStep(s, "stopping", "standby")
  /\ UNCHANGED <<route, traefik, stateFile, containerVars, lease, synced, pc,
                 localVars, probe, history, countVars>>

\* The cancelled task has been awaited; only then is the flock released.
release_lease(s) ==
  /\ SupervisorStep(s, "stopping", "standby")
  /\ lease' = NoSlot
  /\ UNCHANGED <<route, traefik, stateFile, containerVars, synced, pc,
                 localVars, probe, history, countVars>>

Supervisor(s) ==
  \/ SupervisorSeesActive(s) \/ try_acquire_lease(s) \/ StartupSyncDone(s)
  \/ SupervisorSeesInactive(s) \/ release_lease(s)

-----------------------------------------------------------------------------

\* One slot is in service with some release; the state file exists unless
\* the single-slot installation has never been deployed blue-green.
Init ==
  /\ \E s \in Slots, v \in Versions :
       /\ route = s /\ traefik = s
       /\ stateFile = IF s = "single" THEN NoState ELSE [slot |-> s, ver |-> v]
       /\ schema = Head[v]
       /\ backend = [t \in Slots |-> IF t = s THEN [status |-> "up", ver |-> v] ELSE Missing]
       /\ frontend = backend
       /\ sup = [t \in Slots |-> IF t = s THEN "standby" ELSE "off"]
       /\ prev = s /\ cand = opposite_slot(s) /\ ver = v
  /\ lease = NoSlot
  /\ synced = [s \in Slots |-> FALSE]
  /\ pc = "idle"
  /\ backup = NoState
  /\ switched = FALSE /\ candStarted = FALSE
  /\ probe = "off"
  /\ history = NoHistory
  /\ deploys = 0 /\ faults = 0 /\ crashes = 0 /\ kills = 0

Environment ==
  \/ TraefikReload \/ ProbeSampleFails \/ ScriptKilled \/ HostReboots
  \/ \E s \in Slots :
       \/ BackendReady(s) \/ FrontendReady(s)
       \/ BackendCrashes(s) \/ FrontendCrashes(s) \/ RunActiveFails(s)

Next ==
  \/ \E v \in Versions, force \in BOOLEAN : DeployBegin(v, force)
  \/ Script
  \/ Environment
  \/ \E s \in Slots : Supervisor(s)

Spec == Init /\ [][Next]_vars

\* The script's commands return, Traefik watches its file, a container that
\* can become healthy does, and supervisors poll for ever.  Nothing obliges
\* anyone to deploy, or anything to fail.
Fairness ==
  /\ WF_vars(Script) /\ WF_vars(TraefikReload)
  /\ \A s \in Slots : WF_vars(BackendReady(s)) /\ WF_vars(FrontendReady(s))
                      /\ WF_vars(Supervisor(s))

FairSpec == Spec /\ Fairness

-----------------------------------------------------------------------------
(* Properties.                                                             *)

TypeOK ==
  /\ route \in Slots /\ traefik \in Slots
  /\ stateFile \in StateRecord \cup {NoState}
  /\ schema \in Nat
  /\ backend \in [Slots -> Container]
  /\ frontend \in [Slots -> Container]
  /\ sup \in [Slots -> SupStates]
  /\ lease \in Slots \cup {NoSlot}
  /\ synced \in [Slots -> BOOLEAN]
  /\ pc \in Labels
  /\ prev \in Slots /\ cand \in Slots /\ ver \in Versions
  /\ backup \in StateRecord \cup {NoState}
  /\ switched \in BOOLEAN /\ candStarted \in BOOLEAN
  /\ probe \in {"off", "ok", "failed"}
  /\ history \in HistoryRecord \cup {NoHistory}
  /\ deploys \in Nat /\ faults \in Nat /\ crashes \in Nat /\ kills \in Nat


\* At most one backend does background work: the reason the supervisor holds
\* a flock until the cancelled task has been awaited, although the route and
\* the containers change under it.
SingleLeader ==
  \A s, t \in Slots : sup[s] \in Working /\ sup[t] \in Working => s = t

\* No command of the script, on any path and killed anywhere, leaves the slot
\* named by the route file without its two containers started.
RoutedSlotStarted == SlotStarted(route)

\* A deployment that meets at most one failing command, with no container
\* crash and no kill, never interrupts what Traefik serves: the upstream is
\* switched between ready pairs in both directions.
UninterruptedService ==
  faults <= 1 /\ crashes = 0 /\ kills = 0 => Serving(traefik)

\* The line wait_background_leader_ready greps for is this deployment's: the
\* candidate's log cannot hold it before the route has been switched.
LeaderLineIsFresh ==
  pc \in BeforeSwitch \ {"prepare", "preflight", "cand_backend"} => ~synced[cand]

\* Between deployments that met at most one fault, the state file names the
\* routed slot and the release both its containers run.
StateFileFaithful ==
  (pc = "idle" /\ Mishaps <= 1 /\ kills = 0 /\ stateFile # NoState) =>
    /\ stateFile.slot = route
    /\ backend[route].ver = stateFile.ver
    /\ frontend[route].ver = stateFile.ver

\* A failed deployment whose rollback is not itself hit by a second fault is
\* rolled back.
SecondFaultForRollbackFailure ==
  history.status = "rollback_failed" => Mishaps >= 2

\* Every history line tells the truth about the moment it is written: the
\* slot it calls active is the routed one, a failure that claims to have
\* changed nothing has the old route and state file, and a success leaves
\* only the recorded slot running.
HistoryTruthful ==
  [][history' # history =>
       /\ history'.active = route'
       /\ history'.status \in {"failed_before_switch", "rolled_back"} =>
            route' = prev /\ stateFile' = backup
       /\ history'.status = "success" =>
            /\ stateFile' = [slot |-> route', ver |-> ver]
            /\ backend[route'].ver = ver /\ frontend[route'].ver = ver
            /\ ~Started(backend'[prev]) /\ ~Started(frontend'[prev])]_vars

\* While two releases share the database, the older one meets only schema
\* changes marked as safe for it.
MixedReleasesCompatible ==
  \A s \in Slots : Up(backend[s]) =>
    \A r \in (Head[backend[s].ver] + 1)..schema : r \in Compatible

\* A deployment always comes to an end, rolled back or not.
DeploymentEnds == pc # "idle" ~> pc = "idle"

\* Whatever the deployments do, the backend of the routed slot gets to run
\* the background work again and again, unless the database has moved past
\* the migrations its image ships.
LeaderFollowsRoute ==
  []<>(sup[route] = "leading" \/ schema > Head[backend[route].ver])

-----------------------------------------------------------------------------
(* The deployment implements the abstract service.                         *)

RunningSlots == {s \in Slots : SlotStarted(s)}
WorkingSlots == {s \in Slots : sup[s] \in Working}

Abstract == INSTANCE ActiveSlot WITH
  Slot <- Slots, active <- route, running <- RunningSlots, workers <- WorkingSlots

\* Every command, crash and supervisor step is a step of ActiveSlot: requests
\* move only to a running slot, an active slot is never stopped, and the
\* background work is never handed over while it is still being done.
RefinesActiveSlot == Abstract!ASpec

-----------------------------------------------------------------------------
(* Inductive strengthenings of the properties, for the proofs.             *)

\* Background work is done only by the holder of the flock.
LeaderInv == \A s \in Slots : sup[s] \in Working => lease = s

CandidateBackendStarted == {"wait_cand_backend", "cand_frontend",
  "wait_cand_frontend", "verify", "start_probe", "render"} \cup AfterSwitch
CandidateFrontendStarted == {"wait_cand_frontend", "verify", "start_probe",
  "render"} \cup AfterSwitch

\* What is known of the route, the state file and the two slots at each
\* command of the script.
DeployInv ==
  /\ SlotStarted(route)
  /\ pc # "idle" => cand # prev
  /\ pc \in BeforeSwitch => route = prev /\ ~switched
  /\ pc \in AfterSwitch => route = cand /\ switched
  /\ pc \in {"rb_wait_route", "rb_restore", "rb_stop_cand"} => route = prev
  /\ pc \in BeforeSwitch \cup (AfterSwitch \ {"stop_prev_frontend", "record"})
            \cup {"rb_stop_cand"} => stateFile = backup
  /\ pc \in {"stop_prev_frontend", "record"} => stateFile = [slot |-> cand, ver |-> ver]
  /\ pc \in CandidateBackendStarted => Started(backend[cand]) /\ backend[cand].ver = ver
  /\ pc \in CandidateFrontendStarted => Started(frontend[cand]) /\ frontend[cand].ver = ver
  /\ pc \in AfterSwitch \ {"wait_route", "stop_prev_backend"} => ~Started(backend[prev])
  /\ pc = "record" => ~Started(frontend[prev])
  /\ pc \in {"rb_frontend", "rb_wait_frontend", "rb_render"} => Started(backend[prev])
  /\ pc = "rb_render" => Started(frontend[prev])

\* From its recreation to the switch, the candidate's supervisor has found
\* another slot routed and its log has nothing about a startup sync.
CandidateUnrouted == {"wait_cand_backend", "cand_frontend", "wait_cand_frontend",
  "verify", "start_probe", "render"}
FreshLogInv ==
  pc \in CandidateUnrouted => sup[cand] \in {"off", "standby"} /\ ~synced[cand]

\* Every container can be started again: what its image would migrate is
\* marked, and so is what the database already has beyond it.
MigrationsInv ==
  /\ MixedReleasesCompatible
  /\ \A s \in Slots : backend[s] # Missing =>
       \A r \in (schema + 1)..Head[backend[s].ver] : r \in Compatible
  /\ pc = "cand_backend" => \A r \in (schema + 1)..Head[ver] : r \in Compatible

\* Which of the two slots serves at each command, with one fault at most.
ServiceInv == faults <= 1 /\ crashes = 0 /\ kills = 0 =>
  /\ Serving(traefik) /\ Serving(route)
  /\ probe # "failed"
  /\ traefik # route => pc = "wait_route" \/ pc \in RollingBack \ {"rb_restore"}
  /\ pc # "idle" => traefik \in {prev, cand} /\ route \in {prev, cand}
  /\ pc \in {"start_probe", "render"} \cup AfterSwitch \cup RollingBack => Serving(cand)
  /\ pc \in {"rb_frontend", "rb_wait_frontend", "rb_render"} => Up(backend[prev])
  /\ pc = "rb_render" => Up(frontend[prev])
  /\ pc \in RollingBack => faults = 1

\* A rollback of the route is always the answer to something that went wrong.
RollbackHasCause == pc \in RollingBack => Mishaps >= 1

\* The state file, or the copy the rollback puts back, tells of slot s.
Describes(file, s) == file # NoState =>
  /\ file.slot = s
  /\ backend[s].ver = file.ver
  /\ frontend[s].ver = file.ver

FaithfulInv == Mishaps <= 1 /\ kills = 0 =>
  /\ pc = "idle" => Describes(stateFile, route)
  /\ pc # "idle" => Describes(backup, prev)

\* All releases ship the same migrations: no release is ever refused the
\* database, and a rollback fails only through a failing command.
SameMigrations == \A v, w \in Versions : Head[v] = Head[w]

=============================================================================
