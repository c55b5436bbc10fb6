---------------------------- MODULE TraefikUpdate ----------------------------
(***************************************************************************)
(* Patch updates of Traefik: the Manager publishes one request file, the   *)
(* host runner (scripts/traefik-update-runner.py, started every minute)    *)
(* observes the running container, applies the request to the Compose file *)
(* and the container, and rolls back when validation fails.  The manual    *)
(* tool (run-traefik-recreate-safely.sh) recreates the container from an   *)
(* edited Compose file and falls back on a checkpoint.  Both take the same *)
(* flock; operators edit the Compose file and recreate the container       *)
(* without it.                                                             *)
(*                                                                         *)
(* Compose files, backups and checkpoints are their content (Config): the  *)
(* image version and everything else.  A Compose hash is that content.     *)
(***************************************************************************)
EXTENDS Naturals

CONSTANTS
  None,          \* a file, request or value that is not there
  Versions,      \* patch numbers of one minor release
  Opts,          \* the rest of the Compose file
  Broken,        \* configurations whose container does not become healthy
  MaxRequests,   \* bound: requests published
  MaxManual,     \* bound: runs of the manual tool
  MaxOutside,    \* bound: Compose edits and direct recreations by operators
  MaxMishaps     \* bound: failed calls and killed processes, in all

Config == [ver: Versions, opt: Opts]

ASSUME VersionsAssumption == Versions \subseteq Nat
ASSUME BrokenAssumption == Broken \subseteq Config
ASSUME NoneAssumption ==
  None \notin Config \cup Versions \cup {"runner", "manual", "running", "rejected", "success",
                                        "rolled_back", "rollback_failed"}
ASSUME UpdateBounds ==
  MaxRequests \in Nat /\ MaxManual \in Nat /\ MaxOutside \in Nat /\ MaxMishaps \in Nat

VARIABLES
  compose,     \* content of the Compose file
  container,   \* the Traefik container: id, configuration, who created it
  request,     \* traefik-update-request.json
  hist,        \* hist[r]: latest line of traefik-updates.jsonl for request r
  heartbeat,   \* status in traefik-update-runner.json
  base,        \* container id in traefik-recreate-state.json
  recre,       \* lines of traefik-recreations.jsonl
  ckpt,        \* last good configuration of the manual tool
  recovery,    \* traefik-recovery.json
  lock,        \* holder of traefik-update-runner.lock
  pc,          \* pc[p]: next step of the runner and of the manual tool
  job,         \* locals of the runner
  mjob,        \* locals of the manual tool
  guard,       \* the clock is within the guard time of a quarter hour
  api,         \* a Manager request validated and not yet published
  published,   \* requests published
  manuals, outside, faults, gaps, kills   \* bounded events

Procs == {"runner", "manual"}

fileVars == <<compose, request, hist, heartbeat, base, recre, ckpt, recovery>>
localVars == <<lock, pc, job, mjob>>
envVars == <<guard, api, published, manuals, outside>>
mishapVars == <<faults, gaps, kills>>
vars == <<fileVars, container, localVars, envVars, mishapVars>>

Mishaps == faults + gaps + kills
NoFault == UNCHANGED mishapVars
Fault == Mishaps < MaxMishaps /\ faults' = faults + 1 /\ UNCHANGED <<gaps, kills>>
\* A recreation that could not be recorded.
Gap == Mishaps < MaxMishaps /\ gaps' = gaps + 1 /\ UNCHANGED <<faults, kills>>
\* A check fails because it does not hold, or because the call fails.
Fails(check) == (~check /\ NoFault) \/ (check /\ Fault)

-----------------------------------------------------------------------------
(* Data.                                                                   *)

Request ==
  [id: 1..MaxRequests, op: {"update", "alert_retry"}, target: Versions, src: 0..MaxRequests]

ASSUME NoRequestAssumption == None \notin Request

Alerts == {"not_needed", "pending", "requested", "request_failed"}
Final == {"rejected", "success", "rolled_back", "rollback_failed"}
NoEntry == [status |-> None, from |-> None, target |-> None, alert |-> "not_needed"]
Entry == [status: {"running"} \cup Final, from: Versions, target: Versions, alert: Alerts]

NoJob == [req |-> None, from |-> None, backup |-> None, prev |-> 0, result |-> None]
NoManual == [mode |-> None, orig |-> 0, prev |-> 0, gap |-> FALSE]

entry(j, status, alert) ==
  [status |-> status, from |-> j.from, target |-> j.req.target, alert |-> alert]

is_forward_patch(current, target) == target > current

Healthy == container.cfg \notin Broken

\* _validate_runtime: running, healthy, on the network, in the expected version.
ValidateRuntime(expected) == Healthy /\ container.cfg.ver = expected

\* docker compose up -d recreates a container whose configuration differs.
ComposeUp(force) ==
  container' = IF force \/ container.cfg # compose
                 THEN [id |-> container.id + 1, cfg |-> compose, by |-> "tool"]
                 ELSE container

line(id, status, alert) == [id |-> id, status |-> status, alert |-> alert]

\* record_managed_recreation: the container is the one known before the
\* command, or a line is appended; then the id is the new base line.  The
\* history may be written and the base line not.
RecordRecreation(prev) ==
  \/ /\ recre' = IF container.id = prev THEN recre
                   ELSE recre \cup {line(container.id, "managed", "not_needed")}
     /\ base' = container.id
     /\ NoFault
  \/ /\ recre' \in {recre, recre \cup {line(container.id, "managed", "not_needed")}}
     /\ UNCHANGED base
     /\ Gap

At(p, label) == pc[p] = label
Goto(p, from, to) == pc[p] = from /\ pc' = [pc EXCEPT ![p] = to]

\* The process returns, and its flock goes with it.
Exit(p) == /\ pc' = [pc EXCEPT ![p] = "idle"]
           /\ lock' = None

-----------------------------------------------------------------------------
(* The Manager's API.  Validation awaits Docker and GitHub; publishing is  *)
(* an os.link in a thread of its own.                                      *)

request_traefik_patch_update(v) ==
  /\ api = None
  /\ published < MaxRequests
  /\ is_forward_patch(container.cfg.ver, v)
  /\ heartbeat # "error"
  /\ api' = [op |-> "update", target |-> v, src |-> 0]
  /\ UNCHANGED <<fileVars, container, localVars, guard, published, manuals, outside, mishapVars>>

\* Bug: an alert that got through can be sent again.
Retryable_whatever_alert(r) == hist[r].status = "rollback_failed"

Retryable(r) == hist[r].status = "rollback_failed" /\ hist[r].alert = "request_failed"

retry_traefik_rollback_alert(r) ==
  /\ api = None
  /\ published < MaxRequests
  /\ heartbeat # "error"
  /\ Retryable(r)
  /\ api' = [op |-> "alert_retry", target |-> hist[r].target, src |-> r]
  /\ UNCHANGED <<fileVars, container, localVars, guard, published, manuals, outside, mishapVars>>

\* Bug: the request file is replaced instead of linked.
publish_request_overwrites ==
  /\ api # None
  /\ api' = None
  /\ request' = [id |-> published + 1, op |-> api.op, target |-> api.target, src |-> api.src]
  /\ published' = published + 1
  /\ UNCHANGED <<compose, hist, heartbeat, base, recre, ckpt, recovery, container, localVars,
                 guard, manuals, outside, mishapVars>>

publish_request ==
  /\ api # None
  /\ api' = None
  /\ IF request = None
       THEN /\ request' = [id |-> published + 1, op |-> api.op, target |-> api.target,
                           src |-> api.src]
            /\ published' = published + 1
       ELSE UNCHANGED <<request, published>>
  /\ UNCHANGED <<compose, hist, heartbeat, base, recre, ckpt, recovery, container, localVars,
                 guard, manuals, outside, mishapVars>>

-----------------------------------------------------------------------------
(* The runner, up to the request.                                          *)

RunnerBegin ==
  /\ lock = None
  /\ lock' = "runner"
  /\ Goto("runner", "idle", "observe")
  /\ job' = NoJob
  /\ UNCHANGED <<fileVars, container, mjob, envVars, mishapVars>>

ObserveFails ==
  /\ At("runner", "observe")
  /\ Fault
  /\ heartbeat' = "error"
  /\ Exit("runner")
  /\ UNCHANGED <<compose, request, hist, base, recre, ckpt, recovery, container, job, mjob, envVars>>

\* Bug: the base line is left as it was when a recreation is reported.
observe_container_recreation_same_base ==
  /\ At("runner", "observe")
  /\ IF base \in {None, container.id}
       THEN /\ pc' = [pc EXCEPT !["runner"] = "read"]
            /\ base' = container.id
            /\ UNCHANGED recre
       ELSE /\ pc' = [pc EXCEPT !["runner"] = "notify"]
            /\ recre' = recre \cup {line(container.id, "unmanaged", "pending")}
            /\ UNCHANGED base
  /\ UNCHANGED <<compose, request, hist, heartbeat, ckpt, recovery, container, lock, job, mjob,
                 envVars, mishapVars>>

\* The first observation only sets the base line.
observe_container_recreation ==
  /\ At("runner", "observe")
  /\ base' = container.id
  /\ IF base \in {None, container.id}
       THEN /\ pc' = [pc EXCEPT !["runner"] = "read"]
            /\ UNCHANGED <<recre, job>>
       ELSE /\ pc' = [pc EXCEPT !["runner"] = "notify"]
            /\ recre' = recre \cup {line(container.id, "unmanaged", "pending")}
            /\ job' = [job EXCEPT !.prev = container.id]
  /\ UNCHANGED <<compose, request, hist, heartbeat, ckpt, recovery, container, lock, mjob,
                 envVars, mishapVars>>

\* _notify_unmanaged_recreation sends first and records what came of it.
SendUnmanagedAlert ==
  /\ Goto("runner", "notify", "notify_record")
  /\ \/ job' = [job EXCEPT !.result = "requested"] /\ NoFault
     \/ job' = [job EXCEPT !.result = "request_failed"] /\ Fault
  /\ UNCHANGED <<fileVars, container, lock, mjob, envVars>>

RecordUnmanagedAlert ==
  /\ At("runner", "notify_record")
  /\ \/ recre' = recre \cup {line(job.prev, "unmanaged", job.result)} /\ NoFault
     \/ UNCHANGED recre /\ Fault
  /\ heartbeat' = "error"
  /\ Exit("runner")
  /\ UNCHANGED <<compose, request, hist, base, ckpt, recovery, container, job, mjob, envVars>>

NothingToDo ==
  /\ At("runner", "read")
  /\ request = None
  /\ heartbeat' = "ready"
  /\ Exit("runner")
  /\ UNCHANGED <<compose, request, hist, base, recre, ckpt, recovery, container, job, mjob,
                 envVars, mishapVars>>

\* A request that cannot be read is thrown away.
ReadFails ==
  /\ At("runner", "read")
  /\ request # None
  /\ Fault
  /\ heartbeat' = "error"
  /\ request' = None
  /\ Exit("runner")
  /\ UNCHANGED <<compose, hist, base, recre, ckpt, recovery, container, job, mjob, envVars>>

WaitForWindow ==
  /\ At("runner", "read")
  /\ request # None
  /\ request.op = "update" /\ guard
  /\ heartbeat' = "ready"
  /\ Exit("runner")
  /\ UNCHANGED <<compose, request, hist, base, recre, ckpt, recovery, container, job, mjob,
                 envVars, mishapVars>>

TakeRequest ==
  /\ At("runner", "read")
  /\ request # None
  /\ request.op = "update" => ~guard
  /\ job' = [job EXCEPT !.req = request]
  /\ pc' = [pc EXCEPT !["runner"] = IF request.op = "update" THEN "preflight" ELSE "retry"]
  /\ heartbeat' = IF request.op = "update" THEN "running" ELSE heartbeat
  /\ UNCHANGED <<compose, request, hist, base, recre, ckpt, recovery, container, lock, mjob,
                 envVars, mishapVars>>

-----------------------------------------------------------------------------
(* process_request.                                                        *)

Finish(status, alert) ==
  /\ hist' = [hist EXCEPT ![job.req.id] = entry(job', status, alert)]
  /\ pc' = [pc EXCEPT !["runner"] = "unlink"]

\* Bug: the version check of the API is trusted.
PreflightOK_trusting == compose.ver = container.cfg.ver

\* The image is pinned, official and a forward patch, and the Compose file
\* names the image that runs.
PreflightOK ==
  /\ compose.ver = container.cfg.ver
  /\ job.req.target = container.cfg.ver \/ is_forward_patch(container.cfg.ver, job.req.target)

Preflight ==
  /\ At("runner", "preflight")
  /\ PreflightOK
  /\ job' = [job EXCEPT !.from = container.cfg.ver]
  /\ IF container.cfg.ver = job.req.target
       THEN pc' = [pc EXCEPT !["runner"] = "verify"] /\ UNCHANGED hist
       ELSE /\ pc' = [pc EXCEPT !["runner"] = "backup"]
            /\ hist' = [hist EXCEPT ![job.req.id] = entry(job', "running", "not_needed")]
  /\ UNCHANGED <<compose, request, heartbeat, base, recre, ckpt, recovery, container, lock, mjob,
                 envVars, mishapVars>>

\* Bug: the version that runs is not looked up when the preflight fails.
PreflightRejects_versionless ==
  /\ At("runner", "preflight")
  /\ Fails(PreflightOK)
  /\ job' = [job EXCEPT !.result = "rejected"]
  /\ Finish("rejected", "not_needed")
  /\ UNCHANGED <<compose, request, heartbeat, base, recre, ckpt, recovery, container, lock, mjob,
                 envVars>>

PreflightRejects ==
  /\ At("runner", "preflight")
  /\ Fails(PreflightOK)
  /\ job' = [job EXCEPT !.from = container.cfg.ver, !.result = "rejected"]
  /\ Finish("rejected", "not_needed")
  /\ UNCHANGED <<compose, request, heartbeat, base, recre, ckpt, recovery, container, lock, mjob,
                 envVars>>

verify_already_applied ==
  /\ At("runner", "verify")
  /\ \E status \in {"success", "rejected"} :
       /\ \/ status = "success" /\ ValidateRuntime(job.req.target) /\ NoFault
          \/ status = "rejected" /\ Fails(ValidateRuntime(job.req.target))
       /\ job' = [job EXCEPT !.result = status]
       /\ Finish(status, "not_needed")
  /\ UNCHANGED <<compose, request, heartbeat, base, recre, ckpt, recovery, container, lock, mjob,
                 envVars>>

create_backup ==
  /\ At("runner", "backup")
  /\ \/ /\ job' = [job EXCEPT !.backup = compose]
        /\ pc' = [pc EXCEPT !["runner"] = "replace"]
        /\ UNCHANGED hist /\ NoFault
     \/ /\ job' = [job EXCEPT !.result = "rejected"]
        /\ Finish("rejected", "not_needed")
        /\ Fault
  /\ UNCHANGED <<compose, request, heartbeat, base, recre, ckpt, recovery, container, lock, mjob,
                 envVars>>

\* The tag found by the preflight must still be there.
replace_compose_image ==
  /\ At("runner", "replace")
  /\ \/ /\ compose.ver = job.from
        /\ compose' = [compose EXCEPT !.ver = job.req.target]
        /\ pc' = [pc EXCEPT !["runner"] = "pull"]
        /\ NoFault
     \/ /\ Fails(compose.ver = job.from)
        /\ pc' = [pc EXCEPT !["runner"] = "rb_restore"]
        /\ UNCHANGED compose
  /\ UNCHANGED <<request, hist, heartbeat, base, recre, ckpt, recovery, container, lock, job, mjob,
                 envVars>>

\* Bug: a failed pull, which touched no container, is only reported.
ComposePull_rejects ==
  /\ At("runner", "pull")
  /\ \/ pc' = [pc EXCEPT !["runner"] = "up"] /\ NoFault /\ UNCHANGED <<job, hist>>
     \/ job' = [job EXCEPT !.result = "rejected"] /\ Finish("rejected", "not_needed") /\ Fault
  /\ UNCHANGED <<compose, request, heartbeat, base, recre, ckpt, recovery, container, lock, mjob,
                 envVars>>

ComposePull ==
  /\ At("runner", "pull")
  /\ \/ pc' = [pc EXCEPT !["runner"] = "up"] /\ NoFault
     \/ pc' = [pc EXCEPT !["runner"] = "rb_restore"] /\ Fault
  /\ UNCHANGED <<fileVars, container, lock, job, mjob, envVars>>

\* _wait_for_recreate_window, then up -d.  A failing up may have recreated.
ComposeUpdate ==
  /\ At("runner", "up")
  /\ ~guard
  /\ job' = [job EXCEPT !.prev = container.id]
  /\ \/ ComposeUp(FALSE) /\ pc' = [pc EXCEPT !["runner"] = "record"] /\ NoFault
     \/ /\ ComposeUp(FALSE) \/ UNCHANGED container
        /\ pc' = [pc EXCEPT !["runner"] = "rb_restore"]
        /\ Fault
  /\ UNCHANGED <<fileVars, lock, mjob, envVars>>

RecordUpdate ==
  /\ Goto("runner", "record", "validate")
  /\ RecordRecreation(job.prev)
  /\ UNCHANGED <<compose, request, hist, heartbeat, ckpt, recovery, container, lock, job, mjob,
                 envVars>>

ValidateUpdate ==
  /\ At("runner", "validate")
  /\ \/ /\ ValidateRuntime(job.req.target)
        /\ job' = [job EXCEPT !.result = "success"]
        /\ Finish("success", "not_needed")
        /\ NoFault
     \/ /\ Fails(ValidateRuntime(job.req.target))
        /\ pc' = [pc EXCEPT !["runner"] = "rb_restore"]
        /\ UNCHANGED <<hist, job>>
  /\ UNCHANGED <<compose, request, heartbeat, base, recre, ckpt, recovery, container, lock, mjob,
                 envVars>>

-----------------------------------------------------------------------------
(* _rollback.                                                              *)

restore_compose_files ==
  /\ At("runner", "rb_restore")
  /\ \/ /\ compose' = job.backup
        /\ pc' = [pc EXCEPT !["runner"] = "rb_up"]
        /\ UNCHANGED job /\ NoFault
     \/ /\ pc' = [pc EXCEPT !["runner"] = "rb_result"]
        /\ job' = [job EXCEPT !.result = "rollback_failed"]
        /\ UNCHANGED compose /\ Fault
  /\ UNCHANGED <<request, hist, heartbeat, base, recre, ckpt, recovery, container, lock, mjob,
                 envVars>>

\* Recovery does not wait for the window.
RollbackUp ==
  /\ At("runner", "rb_up")
  /\ \/ /\ ComposeUp(FALSE)
        /\ job' = [job EXCEPT !.prev = container.id]
        /\ pc' = [pc EXCEPT !["runner"] = "rb_record"]
        /\ NoFault
     \/ /\ ComposeUp(FALSE) \/ UNCHANGED container
        /\ job' = [job EXCEPT !.prev = container.id, !.result = "rollback_failed"]
        /\ pc' = [pc EXCEPT !["runner"] = "rb_result"]
        /\ Fault
  /\ UNCHANGED <<fileVars, lock, mjob, envVars>>

RollbackRecord ==
  /\ Goto("runner", "rb_record", "rb_validate")
  /\ RecordRecreation(job.prev)
  /\ UNCHANGED <<compose, request, hist, heartbeat, ckpt, recovery, container, lock, job, mjob,
                 envVars>>

RollbackValidate ==
  /\ Goto("runner", "rb_validate", "rb_result")
  /\ \/ /\ ValidateRuntime(job.from) /\ NoFault
        /\ job' = [job EXCEPT !.result = "rolled_back"]
     \/ /\ Fails(ValidateRuntime(job.from))
        /\ job' = [job EXCEPT !.result = "rollback_failed"]
  /\ UNCHANGED <<fileVars, container, lock, mjob, envVars>>

\* write_recovery_result may fail; the history line is written all the same.
RollbackResult ==
  /\ At("runner", "rb_result")
  /\ \/ recovery' = job.result /\ NoFault
     \/ UNCHANGED recovery /\ Fault
  /\ job' = job
  /\ Finish(job.result, IF job.result = "rollback_failed" THEN "pending" ELSE "not_needed")
  /\ UNCHANGED <<compose, request, heartbeat, base, recre, ckpt, container, lock, mjob, envVars>>

-----------------------------------------------------------------------------
(* The end of a run.                                                       *)

\* Bug: a request that ended in a failed rollback is kept.
UnlinkRequest_keeps_failed ==
  /\ At("runner", "unlink")
  /\ request' = IF job.result = "rollback_failed" THEN request ELSE None
  /\ IF job.result = "rollback_failed"
       THEN pc' = [pc EXCEPT !["runner"] = "alert"] /\ UNCHANGED <<heartbeat, lock>>
       ELSE heartbeat' = "ready" /\ Exit("runner")
  /\ UNCHANGED <<compose, hist, base, recre, ckpt, recovery, container, job, mjob, envVars,
                 mishapVars>>

\* The finally clause of _run_once.
UnlinkRequest ==
  /\ At("runner", "unlink")
  /\ request' = None
  /\ IF job.result = "rollback_failed"
       THEN pc' = [pc EXCEPT !["runner"] = "alert"] /\ UNCHANGED <<heartbeat, lock>>
       ELSE heartbeat' = "ready" /\ Exit("runner")
  /\ UNCHANGED <<compose, hist, base, recre, ckpt, recovery, container, job, mjob, envVars,
                 mishapVars>>

\* A history line that cannot be written ends the run.
InternalError ==
  /\ pc["runner"] \in {"preflight", "verify", "backup", "rb_result"}
  /\ Fault
  /\ heartbeat' = "error"
  /\ request' = None
  /\ recovery' = IF At("runner", "rb_result") THEN job.result ELSE recovery
  /\ Exit("runner")
  /\ UNCHANGED <<compose, hist, base, recre, ckpt, container, job, mjob, envVars>>

\* _request_and_record_rollback_alert: sent, not sent, or not recorded.
AlertResult(r) ==
  \/ hist' = [hist EXCEPT ![r].alert = "requested"] /\ NoFault
  \/ hist' = [hist EXCEPT ![r].alert = "request_failed"] /\ Fault
  \/ UNCHANGED hist /\ Fault

RollbackAlert ==
  /\ At("runner", "alert")
  /\ AlertResult(job.req.id)
  /\ heartbeat' = "error"
  /\ Exit("runner")
  /\ UNCHANGED <<compose, request, base, recre, ckpt, recovery, container, job, mjob, envVars>>

validate_alert_retry(j) == Retryable(j.src) /\ hist[j.src].target = j.target

RetryRollbackAlert ==
  /\ At("runner", "retry")
  /\ \/ /\ validate_alert_retry(job.req)
        /\ AlertResult(job.req.src)
        /\ heartbeat' = IF hist'[job.req.src].alert = "requested" THEN "ready" ELSE "error"
     \/ /\ ~validate_alert_retry(job.req)
        /\ heartbeat' = "error"
        /\ UNCHANGED hist /\ NoFault
  /\ pc' = [pc EXCEPT !["runner"] = "retry_unlink"]
  /\ UNCHANGED <<compose, request, base, recre, ckpt, recovery, container, lock, job, mjob, envVars>>

RetryUnlink ==
  /\ At("runner", "retry_unlink")
  /\ request' = None
  /\ Exit("runner")
  /\ UNCHANGED <<compose, hist, heartbeat, base, recre, ckpt, recovery, container, job, mjob,
                 envVars, mishapVars>>

-----------------------------------------------------------------------------
(* The manual tool: perform_recreate and initialize_checkpoint.            *)

Modes == {"up", "force", "checkpoint"}

\* The window is waited for before the flock is tried.
ManualBegin(mode) ==
  /\ manuals < MaxManual
  /\ lock = None
  /\ mode # "checkpoint" => ~guard
  /\ lock' = "manual"
  /\ manuals' = manuals + 1
  /\ mjob' = [NoManual EXCEPT !.mode = mode]
  /\ Goto("manual", "idle", "m_check")
  /\ UNCHANGED <<fileVars, container, job, guard, api, published, outside, mishapVars>>

\* ensure_runtime_checkpoint: the checkpoint is of the running container, or
\* the Compose file is and becomes the checkpoint.
CheckpointPossible == Healthy /\ container.cfg \in {ckpt, compose}

ManualCheck ==
  /\ At("manual", "m_check")
  /\ CheckpointPossible
  /\ ckpt' = container.cfg
  /\ IF mjob.mode = "checkpoint"
       THEN heartbeat' = "ready" /\ Exit("manual") /\ UNCHANGED mjob
       ELSE /\ mjob' = [mjob EXCEPT !.orig = container.id, !.prev = container.id]
            /\ pc' = [pc EXCEPT !["manual"] = "m_up"]
            /\ UNCHANGED <<heartbeat, lock>>
  /\ UNCHANGED <<compose, request, hist, base, recre, recovery, container, job, envVars,
                 mishapVars>>

ManualCheckFails ==
  /\ At("manual", "m_check")
  /\ Fails(CheckpointPossible)
  /\ Exit("manual")
  /\ UNCHANGED <<fileVars, container, job, mjob, envVars>>

\* Bug: the Compose file is checkpointed before the container was validated.
ManualUp_saves_first ==
  /\ At("manual", "m_up")
  /\ ComposeUp(mjob.mode = "force")
  /\ pc' = [pc EXCEPT !["manual"] = "m_validate"]
  /\ ckpt' = compose
  /\ UNCHANGED <<compose, request, hist, heartbeat, base, recre, recovery, lock, job, mjob, envVars,
                 mishapVars>>

ManualUp ==
  /\ At("manual", "m_up")
  /\ \/ ComposeUp(mjob.mode = "force") /\ pc' = [pc EXCEPT !["manual"] = "m_validate"] /\ NoFault
     \/ /\ ComposeUp(mjob.mode = "force") \/ UNCHANGED container
        /\ pc' = [pc EXCEPT !["manual"] = "mf_record"]
        /\ Fault
  /\ UNCHANGED <<fileVars, lock, job, mjob, envVars>>

\* The version must be the checkpoint's and the container the Compose file's.
ManualValid == ValidateRuntime(ckpt.ver) /\ container.cfg = compose

ManualValidate ==
  /\ At("manual", "m_validate")
  /\ \/ ManualValid /\ pc' = [pc EXCEPT !["manual"] = "m_record"] /\ NoFault
     \/ Fails(ManualValid) /\ pc' = [pc EXCEPT !["manual"] = "mf_record"]
  /\ UNCHANGED <<fileVars, container, lock, job, mjob, envVars>>

ManualRecord(from, to, prev) ==
  /\ Goto("manual", from, to)
  /\ RecordRecreation(prev)
  /\ mjob' = [mjob EXCEPT !.gap = @ \/ gaps' # gaps]
  /\ UNCHANGED <<compose, request, hist, heartbeat, ckpt, recovery, container, lock, job, envVars>>

RecordManual == ManualRecord("m_record", "m_save", mjob.orig)

save_runtime_checkpoint ==
  /\ At("manual", "m_save")
  /\ \/ /\ compose = container.cfg /\ container.cfg.ver = ckpt.ver
        /\ ckpt' = compose
        /\ heartbeat' = IF mjob.gap THEN "error" ELSE "ready"
        /\ NoFault
     \/ /\ Fails(compose = container.cfg /\ container.cfg.ver = ckpt.ver)
        /\ UNCHANGED ckpt
        /\ heartbeat' = "error"
  /\ Exit("manual")
  /\ UNCHANGED <<compose, request, hist, base, recre, recovery, container, job, mjob, envVars>>

-----------------------------------------------------------------------------
(* _recover.                                                               *)

RecordFailedManual == ManualRecord("mf_record", "m_restore", mjob.orig)

restore_runtime_checkpoint ==
  /\ At("manual", "m_restore")
  /\ mjob' = [mjob EXCEPT !.prev = container.id]
  /\ \/ compose' = ckpt /\ pc' = [pc EXCEPT !["manual"] = "m_decide"] /\ NoFault
     \/ UNCHANGED compose /\ pc' = [pc EXCEPT !["manual"] = "mx_record"] /\ Fault
  /\ UNCHANGED <<request, hist, heartbeat, base, recre, ckpt, recovery, container, lock, job, envVars>>

\* An original container that is still in place and valid is left alone.
RecoveryNeeded ==
  /\ At("manual", "m_decide")
  /\ \/ container.id # mjob.orig /\ NoFault
     \/ container.id = mjob.orig /\ Fails(ManualValid)
  /\ mjob' = [mjob EXCEPT !.prev = container.id]
  /\ pc' = [pc EXCEPT !["manual"] = "mr_up"]
  /\ UNCHANGED <<fileVars, container, lock, job, envVars>>

RecoveryNotNeeded ==
  /\ Goto("manual", "m_decide", "m_rolled_back")
  /\ container.id = mjob.orig /\ ManualValid
  /\ UNCHANGED <<fileVars, container, lock, job, mjob, envVars, mishapVars>>

RecoveryUp ==
  /\ At("manual", "mr_up")
  /\ \/ ComposeUp(TRUE) /\ pc' = [pc EXCEPT !["manual"] = "mr_validate"] /\ NoFault
     \/ /\ ComposeUp(TRUE) \/ UNCHANGED container
        /\ pc' = [pc EXCEPT !["manual"] = "mx_record"]
        /\ Fault
  /\ UNCHANGED <<fileVars, lock, job, mjob, envVars>>

RecoveryValidate ==
  /\ At("manual", "mr_validate")
  /\ \/ ManualValid /\ pc' = [pc EXCEPT !["manual"] = "mr_record"] /\ NoFault
     \/ Fails(ManualValid) /\ pc' = [pc EXCEPT !["manual"] = "mx_record"]
  /\ UNCHANGED <<fileVars, container, lock, job, mjob, envVars>>

RecordRecovery == ManualRecord("mr_record", "m_rolled_back", mjob.prev)

\* Bug: a failed recovery is reported but its container is not recorded.
RecordFailedRecovery_skipped ==
  /\ Goto("manual", "mx_record", "m_failed")
  /\ UNCHANGED <<fileVars, container, lock, job, mjob, envVars, mishapVars>>

RecordFailedRecovery == ManualRecord("mx_record", "m_failed", mjob.prev)

RecoveryDone ==
  /\ At("manual", "m_rolled_back")
  /\ \/ /\ recovery' = "rolled_back"
        /\ heartbeat' = IF mjob.gap THEN "error" ELSE "ready"
        /\ NoFault
     \/ UNCHANGED recovery /\ heartbeat' = "error" /\ Fault
  /\ Exit("manual")
  /\ UNCHANGED <<compose, request, hist, base, recre, ckpt, container, job, mjob, envVars>>

\* The alert is requested, and its result appears in the heartbeat only.
RecoveryFailed ==
  /\ At("manual", "m_failed")
  /\ \/ recovery' = "rollback_failed" /\ NoFault
     \/ UNCHANGED recovery /\ Fault
  /\ heartbeat' = "error"
  /\ Exit("manual")
  /\ UNCHANGED <<compose, request, hist, base, recre, ckpt, container, job, mjob, envVars>>

-----------------------------------------------------------------------------
(* Operators, the clock, and processes that are killed.                    *)

EditCompose(c) ==
  /\ outside < MaxOutside
  /\ outside' = outside + 1
  /\ compose' = c
  /\ UNCHANGED <<request, hist, heartbeat, base, recre, ckpt, recovery, container, localVars, guard,
                 api, published, manuals, mishapVars>>

DirectRecreate ==
  /\ outside < MaxOutside
  /\ outside' = outside + 1
  /\ container' = [id |-> container.id + 1, cfg |-> compose, by |-> "outside"]
  /\ UNCHANGED <<fileVars, localVars, guard, api, published, manuals, mishapVars>>

\* Observing and reading the request take seconds: the clock is as good as
\* still between them, and a tick there is a tick before the runner began.
ClockTick ==
  /\ pc["runner"] \notin {"observe", "read"}
  /\ guard' = ~guard
  /\ UNCHANGED <<fileVars, container, localVars, api, published, manuals, outside, mishapVars>>

Killed(p) ==
  /\ pc[p] # "idle"
  /\ Mishaps < MaxMishaps
  /\ kills' = kills + 1
  /\ Exit(p)
  /\ UNCHANGED <<fileVars, container, job, mjob, envVars, faults, gaps>>

-----------------------------------------------------------------------------

Init ==
  /\ compose \in Config \ Broken
  /\ container = [id |-> 1, cfg |-> compose, by |-> "tool"]
  /\ base \in {None, 1}
  /\ request = None
  /\ hist = [r \in 1..MaxRequests |-> NoEntry]
  /\ heartbeat = "ready"
  /\ recre = {}
  /\ ckpt = None
  /\ recovery = None
  /\ lock = None
  /\ pc = [p \in Procs |-> "idle"]
  /\ job = NoJob
  /\ mjob = NoManual
  /\ guard = FALSE
  /\ api = None
  /\ published = 0 /\ manuals = 0 /\ outside = 0 /\ faults = 0 /\ gaps = 0 /\ kills = 0

Api ==
  \/ \E v \in Versions : request_traefik_patch_update(v)
  \/ \E r \in 1..MaxRequests : retry_traefik_rollback_alert(r)
  \/ publish_request

RunnerWork ==
  \/ ObserveFails \/ observe_container_recreation \/ SendUnmanagedAlert \/ RecordUnmanagedAlert
  \/ NothingToDo \/ ReadFails \/ WaitForWindow \/ TakeRequest
  \/ Preflight \/ PreflightRejects \/ verify_already_applied \/ create_backup
  \/ replace_compose_image \/ ComposePull \/ ComposeUpdate \/ RecordUpdate \/ ValidateUpdate
  \/ restore_compose_files \/ RollbackUp \/ RollbackRecord \/ RollbackValidate \/ RollbackResult
  \/ UnlinkRequest \/ InternalError \/ RollbackAlert \/ RetryRollbackAlert \/ RetryUnlink

ManualWork ==
  \/ ManualCheck \/ ManualCheckFails \/ ManualUp \/ ManualValidate \/ RecordManual
  \/ save_runtime_checkpoint \/ RecordFailedManual \/ restore_runtime_checkpoint
  \/ RecoveryNeeded \/ RecoveryNotNeeded \/ RecoveryUp \/ RecoveryValidate \/ RecordRecovery
  \/ RecordFailedRecovery \/ RecoveryDone \/ RecoveryFailed

Outside ==
  \/ \E c \in Config : EditCompose(c)
  \/ DirectRecreate
  \/ ClockTick
  \/ \E p \in Procs : Killed(p)

Next ==
  \/ Api \/ RunnerBegin \/ RunnerWork \/ ManualWork \/ Outside
  \/ \E mode \in Modes : ManualBegin(mode)

Spec == Init /\ [][Next]_vars

\* The timer starts the runner a minute after its last run, and the guard
\* time leaves several minutes of every quarter hour free, so that a run and
\* an update waiting for the window meet a free one again and again.
FairSpec ==
  /\ Spec
  /\ SF_vars(RunnerBegin /\ ~guard) /\ WF_vars(RunnerWork) /\ WF_vars(ManualWork)
  /\ SF_vars(ClockTick) /\ SF_vars(ComposeUpdate)

-----------------------------------------------------------------------------
(* Properties.                                                             *)

RunnerLabels == {"idle", "observe", "notify", "notify_record", "read", "preflight", "verify",
  "backup", "replace", "pull", "up", "record", "validate", "rb_restore", "rb_up", "rb_record",
  "rb_validate", "rb_result", "unlink", "alert", "retry", "retry_unlink"}
ManualLabels == {"idle", "m_check", "m_up", "m_validate", "m_record", "m_save", "mf_record",
  "m_restore", "m_decide", "mr_up", "mr_validate", "mr_record", "mx_record", "m_rolled_back",
  "m_failed"}
Result == {None, "requested", "request_failed"} \cup Final

TypeOK ==
  /\ compose \in Config
  /\ container \in [id: Nat, cfg: Config, by: {"tool", "outside"}]
  /\ request \in Request \cup {None}
  /\ hist \in [1..MaxRequests -> Entry \cup {NoEntry}]
  /\ heartbeat \in {"ready", "running", "error"}
  /\ base \in Nat \cup {None}
  /\ recre \subseteq [id: Nat, status: {"managed", "unmanaged"}, alert: Alerts]
  /\ ckpt \in Config \cup {None}
  /\ recovery \in {None, "rolled_back", "rollback_failed"}
  /\ lock \in Procs \cup {None}
  /\ pc \in [Procs -> RunnerLabels \cup ManualLabels]
  /\ job \in [req: Request \cup {None}, from: Versions \cup {None},
              backup: Config \cup {None}, prev: Nat, result: Result]
  /\ mjob \in [mode: Modes \cup {None}, orig: Nat, prev: Nat, gap: BOOLEAN]
  /\ guard \in BOOLEAN
  /\ api \in [op: {"update", "alert_retry"}, target: Versions, src: 0..MaxRequests] \cup {None}
  /\ published \in 0..MaxRequests
  /\ manuals \in Nat /\ outside \in Nat /\ faults \in Nat /\ gaps \in Nat /\ kills \in Nat

ReportedUnmanaged == \E a \in Alerts : line(container.id, "unmanaged", a) \in recre

UpdateRollbackFailed == \E r \in 1..MaxRequests : hist[r].status = "rollback_failed"

\* A recreation by the runner or the manual tool is never reported as one by
\* somebody else, an up that fails after it has recreated the container
\* included, unless recording it failed or the rollback of an update did.
NoFalseUnmanaged ==
  faults <= 1 /\ gaps = 0 /\ kills = 0 /\ ~UpdateRollbackFailed /\ ReportedUnmanaged =>
    container.by = "outside"

RollbackFailed == recovery = "rollback_failed" \/ UpdateRollbackFailed

\* As long as nobody interferes and no rollback has failed, the tools leave
\* behind a healthy container that runs what the Compose file says.
SettledBetweenRuns ==
  lock = None /\ kills = 0 /\ outside = 0 /\ ~RollbackFailed =>
    container.cfg = compose /\ Healthy

\* An update validated against an older container never becomes a downgrade.
SuccessNeverDowngrades ==
  \A r \in 1..MaxRequests : hist[r].status = "success" => hist[r].target >= hist[r].from

\* The checkpoint is a configuration that was healthy when it was taken, up
\* to two operators' steps squeezed into one run of the tool.
CheckpointHealthy == outside <= 1 => ckpt \notin Broken

\* An outcome is final: no request is carried out twice, unless a kill came
\* between the outcome and the removal of the request.
OutcomeFinal ==
  [][kills = 0 => \A r \in 1..MaxRequests :
       hist[r].status \in Final => hist'[r].status = hist[r].status]_vars

\* A request disappears only with an outcome in the history.
NoRequestLost ==
  [][(request # None /\ request' # request /\ request.op = "update" /\ faults' = 0) =>
       hist[request.id].status \in Final]_vars

\* However requests, runs, failures and kills fall together, a request gets
\* one outcome: it is neither lost without one nor carried out again after it.
OneOutcome == OutcomeFinal /\ NoRequestLost

\* An alert that got through stays recorded as such, although the retry was
\* validated by the API against an older history.
SentAlertStays ==
  [][\A r \in 1..MaxRequests :
       hist[r].alert = "requested" /\ hist[r].status = "rollback_failed" /\ kills = 0 =>
         hist'[r].alert = "requested"]_vars

\* Every published request is consumed, guard times and unmanaged
\* recreations notwithstanding.
RequestConsumed ==
  \A r \in 1..MaxRequests :
    (request # None /\ published = r) ~> (request = None \/ published # r)

\* An unmanaged recreation gets its alert, sent or failed, into the history,
\* unless writing it there failed.
UnmanagedAlerted ==
  \A i \in 1..(1 + MaxOutside) :
    (line(i, "unmanaged", "pending") \in recre) ~>
      (faults > 0 \/ \E a \in {"requested", "request_failed"} : line(i, "unmanaged", a) \in recre)

=============================================================================
