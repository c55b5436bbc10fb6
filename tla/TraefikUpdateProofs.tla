------------------------- MODULE TraefikUpdateProofs --------------------------
(***************************************************************************)
(* Theorems about TraefikUpdate for every set of versions and options,     *)
(* whichever of their configurations are broken, and for every bound on    *)
(* requests, runs of the manual tool, operators' steps and mishaps.        *)
(*                                                                         *)
(* The invariant has six parts: the types; what the locals of the runner   *)
(* hold at each of its steps; the lock; that a published request has no    *)
(* outcome before it is carried out; where the container and the Compose   *)
(* file agree; and which recreations the base line may lag behind.         *)
(***************************************************************************)
EXTENDS TraefikUpdate, TLAPS

\* The runner has an update request, or the retry of an alert, in hand.
Carrying == {"preflight", "verify", "backup", "replace", "pull", "up", "record", "validate",
             "rb_restore", "rb_up", "rb_record", "rb_validate", "rb_result", "unlink"}
Retrying == {"retry", "retry_unlink"}
Upgrading == {"backup", "replace", "pull", "up", "record", "validate"}
Restorable == {"replace", "pull", "up", "record", "validate", "rb_restore", "rb_up", "rb_record",
               "rb_validate"}

\* The locals of the runner hold what its next step takes them for.
RunnerLocals ==
  /\ pc["runner"] \in RunnerLabels
  /\ pc["runner"] \in Carrying \cup Retrying =>
       /\ request = job.req /\ job.req \in Request
       /\ (job.req.op = "update") = (pc["runner"] \in Carrying)
  /\ pc["runner"] \in (Carrying \ {"preflight"}) \cup {"alert"} =>
       job.req \in Request /\ job.from \in Versions
  /\ pc["runner"] = "verify" => job.req.target = job.from
  /\ pc["runner"] \in Upgrading => job.req.target > job.from
  /\ pc["runner"] \in Restorable => job.backup \in Config
  /\ pc["runner"] = "rb_result" => job.result \in {"rolled_back", "rollback_failed"}
  /\ pc["runner"] = "notify_record" => job.result \in {"requested", "request_failed"}

\* Once the manual tool has checked the runtime there is a checkpoint.
ManualLocals ==
  /\ pc["manual"] \in ManualLabels
  /\ pc["manual"] \notin {"idle", "m_check"} => ckpt \in Config

\* There is room for a request that was validated, and the retry of an alert
\* names the update it is about.
Pending ==
  /\ api # None => published < MaxRequests
  /\ api # None /\ api.op = "alert_retry" => api.src \in 1..MaxRequests
  /\ request # None /\ request.op = "alert_retry" => request.src \in 1..MaxRequests

Locals == RunnerLocals /\ ManualLocals /\ Pending

\* What the runner is about to clean up after, or to alert about, is in the
\* history.
Recorded ==
  /\ pc["runner"] = "unlink" =>
       job.result \in Final /\ hist[job.req.id].status = job.result
  /\ pc["runner"] = "alert" \/ (pc["runner"] = "unlink" /\ job.result = "rollback_failed") =>
       hist[job.req.id].status = "rollback_failed" /\ hist[job.req.id].alert = "pending"

\* The flock is held by the process that is between its first and last step.
LockHeld == \A p \in Procs : pc[p] # "idle" <=> lock = p

\* Without a kill, a request that waits has no entry in the history, and one
\* that is being carried out has no outcome there.
Fresh ==
  kills = 0 =>
    /\ \A r \in 1..MaxRequests : r > published => hist[r] = NoEntry
    /\ request # None =>
         /\ request.id <= published
         /\ pc["runner"] \notin Carrying \ {"preflight"} => hist[request.id] = NoEntry
    /\ pc["runner"] \in Carrying \ {"unlink"} => hist[job.req.id].status \in {None, "running"}

Agree == container.cfg = compose
Consistent == Agree /\ Healthy
Undisturbed == kills = 0 /\ outside = 0

\* Where the container runs what the Compose file says: always when no
\* rollback has failed, but while an update is applied and taken back; and
\* after a successful rollback also when an earlier one has failed.
Settled ==
  /\ Undisturbed /\ pc["runner"] \in {"record", "validate", "rb_record", "rb_validate"} => Agree
  /\ Undisturbed /\ pc["runner"] = "rb_result" /\ job.result = "rolled_back" => Consistent
  /\ Undisturbed /\ pc["manual"] \in {"mr_record", "m_rolled_back"} => Consistent
  /\ Undisturbed /\ ~RollbackFailed /\ pc["runner"] \notin Restorable \cup {"rb_result"} =>
       Consistent
  /\ Undisturbed /\ ~RollbackFailed /\ pc["runner"] = "replace" => Consistent
  /\ Undisturbed /\ ~RollbackFailed /\ pc["manual"] \notin {"idle", "m_check"} => ckpt = compose

\* Between validating the container and taking it as the checkpoint, one
\* step of an operator does not make the container a broken one.
Checkpoint ==
  /\ outside <= 1 => ckpt \notin Broken
  /\ pc["manual"] \in {"m_record", "m_save"} =>
       /\ outside <= 1 => Healthy
       /\ outside = 0 => compose \notin Broken

\* Nothing excuses that a container of the tools is reported.
Accountable == faults <= 1 /\ gaps = 0 /\ kills = 0 /\ ~UpdateRollbackFailed

\* The tools are about to record a recreation, or a rollback has failed.
RecordDue ==
  \/ pc["runner"] \in {"record", "rb_record"}
  \/ pc["runner"] \in {"rb_restore", "rb_up"} /\ faults >= 1
  \/ pc["runner"] = "rb_result" /\ job.result = "rollback_failed" /\ faults >= 1
  \/ pc["manual"] \in {"m_validate", "m_record", "mf_record", "mr_validate", "mr_record",
                       "mx_record"}

Unmanaged ==
  /\ \A l \in recre : l.id <= container.id
  /\ pc["runner"] \in {"notify", "notify_record"} =>
       line(job.prev, "unmanaged", "pending") \in recre
  /\ Accountable /\ container.by = "tool" =>
       ~ReportedUnmanaged /\ (base \in {None, container.id} \/ RecordDue)

Control == TypeOK /\ Locals /\ Recorded

-----------------------------------------------------------------------------
(* Facts about the operators the actions are built from.                   *)

Job == [req: Request \cup {None}, from: Versions \cup {None}, backup: Config \cup {None},
        prev: Nat, result: Result]
Manual == [mode: Modes \cup {None}, orig: Nat, prev: Nat, gap: BOOLEAN]

\* A line of the history has the versions of the request it is about.
LEMMA EntryWritten ==
  ASSUME NEW j \in Job, j.req \in Request, j.from \in Versions,
         NEW status \in {"running"} \cup Final, NEW alert \in Alerts
  PROVE  /\ entry(j, status, alert) \in Entry
         /\ entry(j, status, alert).status = status
         /\ entry(j, status, alert).alert = alert
         /\ j.req.id \in 1..MaxRequests
BY DEF Job, entry, Entry, Request

\* docker compose up leaves a container of the Compose file behind: the one
\* that was there, or a new one.
LEMMA ComposeUpResult ==
  ASSUME NEW force \in BOOLEAN, compose \in Config,
         container \in [id: Nat, cfg: Config, by: {"tool", "outside"}], ComposeUp(force)
  PROVE  /\ container' \in [id: Nat, cfg: Config, by: {"tool", "outside"}]
         /\ container'.cfg = compose
         /\ \/ container' = container
            \/ container'.id = container.id + 1 /\ container'.by = "tool"
BY DEF ComposeUp

\* Recording a recreation changes the history of recreations and the base
\* line, and leaves a gap where it does not come that far.
LEMMA RecordResult ==
  ASSUME TypeOK, NEW prev \in Nat, RecordRecreation(prev)
  PROVE  /\ recre' \subseteq [id: Nat, status: {"managed", "unmanaged"}, alert: Alerts]
         /\ base' \in Nat \cup {None}
         /\ faults' \in Nat /\ gaps' \in Nat /\ kills' \in Nat
BY DEF TypeOK, RecordRecreation, line, Alerts, Gap, NoFault, mishapVars

\* Writing the line of the request in hand changes the entry of that request
\* and no other.
LEMMA HistoryWritten ==
  ASSUME TypeOK, job' \in Job, job'.req = job.req, job.req \in Request, job'.from \in Versions,
         NEW status \in {"running"} \cup Final, NEW alert \in Alerts,
         hist' = [hist EXCEPT ![job.req.id] = entry(job', status, alert)]
  PROVE  /\ hist' \in [1..MaxRequests -> Entry \cup {NoEntry}]
         /\ hist'[job.req.id] = entry(job', status, alert)
         /\ hist'[job.req.id].status = status /\ hist'[job.req.id].alert = alert
         /\ \A r \in 1..MaxRequests : r # job.req.id => hist'[r] = hist[r]
<1>1. /\ entry(job', status, alert) \in Entry
      /\ entry(job', status, alert).status = status
      /\ entry(job', status, alert).alert = alert
      /\ job.req.id \in 1..MaxRequests
  BY EntryWritten
<1>. QED BY <1>1 DEF TypeOK

\* The result of an alert is the alert of that entry; outcomes stay.
LEMMA AlertRecorded ==
  ASSUME TypeOK, NEW r \in 1..MaxRequests, hist[r].status = "rollback_failed", AlertResult(r)
  PROVE  /\ hist' \in [1..MaxRequests -> Entry \cup {NoEntry}]
         /\ \A q \in 1..MaxRequests : q # r => hist'[q] = hist[q]
         /\ \A q \in 1..MaxRequests :
              /\ hist'[q].status = hist[q].status
              /\ hist'[q].from = hist[q].from /\ hist'[q].target = hist[q].target
         /\ hist'[r] = hist[r] \/ hist'[r].alert \in {"requested", "request_failed"}
         /\ faults' \in Nat /\ gaps' \in Nat /\ kills' \in Nat
<1>1. hist[r] \in Entry
  BY NoneAssumption DEF TypeOK, NoEntry
<1>2. \A a \in Alerts : [hist[r] EXCEPT !.alert = a] \in Entry
  BY <1>1 DEF Entry
<1>3. \A a \in {"requested", "request_failed"} :
        hist' = [hist EXCEPT ![r].alert = a] =>
          /\ hist' \in [1..MaxRequests -> Entry \cup {NoEntry}]
          /\ \A q \in 1..MaxRequests : q # r => hist'[q] = hist[q]
          /\ hist'[r].status = hist[r].status /\ hist'[r].alert = a
          /\ hist'[r].from = hist[r].from /\ hist'[r].target = hist[r].target
  <2> SUFFICES ASSUME NEW a \in {"requested", "request_failed"},
                      hist' = [hist EXCEPT ![r].alert = a]
               PROVE  /\ hist' \in [1..MaxRequests -> Entry \cup {NoEntry}]
                      /\ \A q \in 1..MaxRequests : q # r => hist'[q] = hist[q]
                      /\ hist'[r].status = hist[r].status /\ hist'[r].alert = a
                      /\ hist'[r].from = hist[r].from /\ hist'[r].target = hist[r].target
    OBVIOUS
  <2>1. hist' = [hist EXCEPT ![r] = [hist[r] EXCEPT !.alert = a]]
    BY DEF TypeOK
  <2>2. [hist[r] EXCEPT !.alert = a] \in Entry
    BY <1>2 DEF Alerts
  <2>3. /\ [hist[r] EXCEPT !.alert = a].status = hist[r].status
        /\ [hist[r] EXCEPT !.alert = a].alert = a
        /\ [hist[r] EXCEPT !.alert = a].from = hist[r].from
        /\ [hist[r] EXCEPT !.alert = a].target = hist[r].target
    BY <1>1 DEF Entry
  <2>4. hist'[r] = [hist[r] EXCEPT !.alert = a]
    BY <2>1 DEF TypeOK
  <2>. QED BY <2>1, <2>2, <2>3, <2>4 DEF TypeOK
<1>4. faults' \in Nat /\ gaps' \in Nat /\ kills' \in Nat
  BY DEF AlertResult, TypeOK, NoFault, Fault, mishapVars
<1>5. CASE UNCHANGED hist
  BY <1>4, <1>5 DEF TypeOK
<1>6. ASSUME NEW a \in {"requested", "request_failed"}, hist' = [hist EXCEPT ![r].alert = a]
      PROVE  /\ hist' \in [1..MaxRequests -> Entry \cup {NoEntry}]
             /\ \A q \in 1..MaxRequests : q # r => hist'[q] = hist[q]
             /\ hist'[r].status = hist[r].status /\ hist'[r].alert = a
             /\ hist'[r].from = hist[r].from /\ hist'[r].target = hist[r].target
  BY <1>3, <1>6
<1>. QED BY <1>4, <1>5, <1>6 DEF AlertResult

\* Starting the container, whether or not the command reports a failure.
LEMMA ContainerTyped ==
  ASSUME TypeOK, NEW force \in BOOLEAN, ComposeUp(force) \/ UNCHANGED container
  PROVE  container' \in [id: Nat, cfg: Config, by: {"tool", "outside"}]
BY ComposeUpResult DEF TypeOK

\* Every step leaves both processes at one of their labels.
LEMMA LabelsStep ==
  TypeOK /\ [Next]_vars => /\ pc' \in [Procs -> RunnerLabels \cup ManualLabels]
                           /\ lock' \in Procs \cup {None}
<1> DEFINE L == RunnerLabels \cup ManualLabels
<1> SUFFICES ASSUME TypeOK, [Next]_vars
             PROVE  pc' \in [Procs -> L] /\ lock' \in Procs \cup {None}
  OBVIOUS
<1>1. pc \in [Procs -> L] /\ lock \in Procs \cup {None} /\ "runner" \in Procs /\ "manual" \in Procs
  BY DEF TypeOK, Procs
<1>2. /\ {"idle", "observe", "notify", "notify_record", "read", "preflight", "verify", "backup",
          "replace", "pull", "up", "record"} \subseteq L
      /\ {"validate", "rb_restore", "rb_up", "rb_record", "rb_validate", "rb_result", "unlink",
          "alert", "retry", "retry_unlink"} \subseteq L
      /\ {"m_check", "m_up", "m_validate", "m_record", "m_save", "mf_record", "m_restore",
          "m_decide", "mr_up", "mr_validate", "mr_record", "mx_record", "m_rolled_back",
          "m_failed"} \subseteq L
  BY DEF RunnerLabels, ManualLabels
<1> HIDE DEF L
<1> USE DEF At, Goto, Exit
<1>3. CASE Api
  BY <1>1, <1>2, <1>3
     DEF Api, request_traefik_patch_update, retry_traefik_rollback_alert, publish_request,
         localVars
<1>4. CASE Outside
  BY <1>1, <1>2, <1>4 DEF Outside, EditCompose, DirectRecreate, ClockTick, Killed, localVars
<1>5. ASSUME NEW mode \in Modes, ManualBegin(mode)
      PROVE  pc' \in [Procs -> L] /\ lock' \in Procs \cup {None}
  BY <1>1, <1>2, <1>5 DEF ManualBegin
<1>6. CASE RunnerBegin
  BY <1>1, <1>2, <1>6 DEF RunnerBegin
<1>7. CASE ObserveFails \/ observe_container_recreation \/ SendUnmanagedAlert
  BY <1>1, <1>2, <1>7 DEF ObserveFails, observe_container_recreation, SendUnmanagedAlert
<1>8. CASE RecordUnmanagedAlert \/ NothingToDo \/ ReadFails
  BY <1>1, <1>2, <1>8 DEF RecordUnmanagedAlert, NothingToDo, ReadFails
<1>9. CASE WaitForWindow \/ TakeRequest \/ Preflight
  BY <1>1, <1>2, <1>9 DEF WaitForWindow, TakeRequest, Preflight
<1>10. CASE PreflightRejects \/ verify_already_applied \/ create_backup
  BY <1>1, <1>2, <1>10 DEF PreflightRejects, verify_already_applied, create_backup, Finish
<1>11. CASE replace_compose_image \/ ComposePull \/ ComposeUpdate
  BY <1>1, <1>2, <1>11 DEF replace_compose_image, ComposePull, ComposeUpdate
<1>12. CASE RecordUpdate \/ ValidateUpdate \/ restore_compose_files
  BY <1>1, <1>2, <1>12 DEF RecordUpdate, ValidateUpdate, restore_compose_files, Finish
<1>13. CASE RollbackUp \/ RollbackRecord \/ RollbackValidate
  BY <1>1, <1>2, <1>13 DEF RollbackUp, RollbackRecord, RollbackValidate
<1>14. CASE RollbackResult \/ UnlinkRequest \/ InternalError
  BY <1>1, <1>2, <1>14 DEF RollbackResult, UnlinkRequest, InternalError, Finish
<1>15. CASE RollbackAlert \/ RetryRollbackAlert \/ RetryUnlink
  BY <1>1, <1>2, <1>15 DEF RollbackAlert, RetryRollbackAlert, RetryUnlink
<1>16. CASE ManualCheck \/ ManualCheckFails \/ ManualUp \/ ManualValidate
  BY <1>1, <1>2, <1>16 DEF ManualCheck, ManualCheckFails, ManualUp, ManualValidate
<1>17. CASE RecordManual \/ save_runtime_checkpoint \/ RecordFailedManual
            \/ restore_runtime_checkpoint
  BY <1>1, <1>2, <1>17
     DEF RecordManual, save_runtime_checkpoint, RecordFailedManual, restore_runtime_checkpoint,
         ManualRecord
<1>18. CASE RecoveryNeeded \/ RecoveryNotNeeded \/ RecoveryUp \/ RecoveryValidate
  BY <1>1, <1>2, <1>18 DEF RecoveryNeeded, RecoveryNotNeeded, RecoveryUp, RecoveryValidate
<1>19. CASE RecordRecovery \/ RecordFailedRecovery \/ RecoveryDone \/ RecoveryFailed
  BY <1>1, <1>2, <1>19
     DEF RecordRecovery, RecordFailedRecovery, RecoveryDone, RecoveryFailed, ManualRecord
<1>20. CASE UNCHANGED vars
  BY <1>1, <1>2, <1>20 DEF vars, localVars
<1>. QED
  BY <1>1, <1>3, <1>4, <1>5, <1>6, <1>7, <1>8, <1>9, <1>10, <1>11, <1>12, <1>13, <1>14, <1>15,
     <1>16, <1>17, <1>18, <1>19, <1>20
     DEF Next, RunnerWork, ManualWork

\* No step takes a variable outside its type.
LEMMA TypesStep == Control /\ [Next]_vars => TypeOK'
<1> SUFFICES ASSUME Control, [Next]_vars PROVE TypeOK'
  OBVIOUS
<1>a. /\ pc' \in [Procs -> RunnerLabels \cup ManualLabels]
      /\ lock' \in Procs \cup {None}
  BY LabelsStep DEF Control
<1>b. TypeOK /\ job \in Job /\ mjob \in Manual
  BY DEF Control, TypeOK, Job, Manual
<1> USE <1>a, <1>b
    DEF At, Goto, Exit, Fault, NoFault, Gap, Fails, fileVars, localVars, envVars, mishapVars
<1>1. ASSUME NEW v \in Versions, request_traefik_patch_update(v) PROVE TypeOK'
  BY <1>1, UpdateBounds DEF request_traefik_patch_update, TypeOK
<1>2. ASSUME NEW r \in 1..MaxRequests, retry_traefik_rollback_alert(r) PROVE TypeOK'
  BY <1>2, UpdateBounds, NoneAssumption
     DEF retry_traefik_rollback_alert, Retryable, Entry, NoEntry, TypeOK
<1>3. CASE publish_request
  <2>1. published \in 0..MaxRequests /\ published < MaxRequests
    BY <1>3 DEF Control, Locals, RunnerLocals, ManualLocals, Pending, TypeOK, publish_request
  <2>2. CASE request = None
    <3>1. published + 1 \in 1..MaxRequests
      BY <2>1, <2>2, UpdateBounds
    <3>2. request' \in Request /\ published' \in 0..MaxRequests
      BY <1>3, <2>1, <2>2, <3>1, UpdateBounds DEF publish_request, Request, TypeOK
    <3>. QED BY <1>3, <3>2 DEF publish_request, TypeOK
  <2>3. CASE request # None
    BY <1>3, <2>3 DEF publish_request, TypeOK
  <2>. QED BY <2>2, <2>3
<1>4. CASE RunnerBegin
  <2>1. job' \in Job
    BY <1>4 DEF RunnerBegin, NoJob, Job, Result
  <2>. QED BY <1>4, <2>1 DEF RunnerBegin, Job, TypeOK
<1>5. CASE ObserveFails
  BY <1>5 DEF ObserveFails, TypeOK
<1>6. CASE observe_container_recreation
  <2>1. job' \in Job
    BY <1>6 DEF observe_container_recreation, Job, Result, Final, TypeOK
  <2>. QED BY <1>6, <2>1 DEF observe_container_recreation, Job, TypeOK, line, Alerts
<1>7. CASE SendUnmanagedAlert
  <2>1. job' \in Job
    BY <1>7 DEF SendUnmanagedAlert, Job, Result, Final
  <2>. QED BY <1>7, <2>1 DEF SendUnmanagedAlert, Job, TypeOK
<1>8. CASE RecordUnmanagedAlert
  BY <1>8
     DEF RecordUnmanagedAlert, Control, Locals, RunnerLocals, ManualLocals, Pending, line,
         Alerts, TypeOK
<1>9. CASE NothingToDo
  BY <1>9 DEF NothingToDo, TypeOK
<1>10. CASE ReadFails
  BY <1>10 DEF ReadFails, TypeOK
<1>11. CASE WaitForWindow
  BY <1>11 DEF WaitForWindow, TypeOK
<1>12. CASE TakeRequest
  <2>1. job' \in Job
    BY <1>12 DEF TakeRequest, Job, TypeOK
  <2>. QED BY <1>12, <2>1 DEF TakeRequest, Job, TypeOK
<1>13. CASE Preflight
  <2>1. container.cfg.ver \in Versions /\ job.req \in Request
    BY <1>13
       DEF Control, Locals, RunnerLocals, ManualLocals, Pending, Carrying, Retrying, Config,
           TypeOK, Preflight
  <2>2. job' \in Job /\ job'.req = job.req /\ job'.from \in Versions
    BY <1>13, <2>1 DEF Preflight, Job, Result, Final
  <2>3. hist' \in [1..MaxRequests -> Entry \cup {NoEntry}]
    BY <1>13, <2>1, <2>2, HistoryWritten DEF Preflight, Finish, Alerts, Final, TypeOK
  <2>. QED BY <1>13, <2>2, <2>3 DEF Preflight, Finish, Job, TypeOK
<1>14. CASE PreflightRejects
  <2>1. container.cfg.ver \in Versions /\ job.req \in Request
    BY <1>14
       DEF Control, Locals, RunnerLocals, ManualLocals, Pending, Carrying, Retrying, Config,
           TypeOK, PreflightRejects
  <2>2. job' \in Job /\ job'.req = job.req /\ job'.from \in Versions
    BY <1>14, <2>1 DEF PreflightRejects, Job, Result, Final
  <2>3. hist' \in [1..MaxRequests -> Entry \cup {NoEntry}]
    BY <1>14, <2>1, <2>2, HistoryWritten DEF PreflightRejects, Finish, Alerts, Final, TypeOK
  <2>. QED BY <1>14, <2>2, <2>3 DEF PreflightRejects, Finish, Job, TypeOK
<1>15. CASE verify_already_applied
  <2>1. job.req \in Request /\ job.from \in Versions
    BY <1>15
       DEF Control, Locals, RunnerLocals, ManualLocals, Pending, Carrying, Retrying,
           verify_already_applied
  <2>2. job' \in Job /\ job'.req = job.req /\ job'.from \in Versions
    BY <1>15, <2>1 DEF verify_already_applied, Job, Result, Final
  <2>3. hist' \in [1..MaxRequests -> Entry \cup {NoEntry}]
    BY <1>15, <2>1, <2>2, HistoryWritten DEF verify_already_applied, Finish, Alerts, Final, TypeOK
  <2>. QED BY <1>15, <2>2, <2>3 DEF verify_already_applied, Finish, Job, TypeOK
<1>16. CASE create_backup
  <2>1. job.req \in Request /\ job.from \in Versions
    BY <1>16
       DEF Control, Locals, RunnerLocals, ManualLocals, Pending, Carrying, Retrying, create_backup
  <2>2. job' \in Job /\ job'.req = job.req /\ job'.from \in Versions
    BY <1>16, <2>1 DEF create_backup, Job, Result, Final, TypeOK
  <2>3. hist' \in [1..MaxRequests -> Entry \cup {NoEntry}]
    BY <1>16, <2>1, <2>2, HistoryWritten DEF create_backup, Finish, Alerts, Final, TypeOK
  <2>. QED BY <1>16, <2>2, <2>3 DEF create_backup, Finish, Job, TypeOK
<1>17. CASE replace_compose_image
  <2>1. job.req.target \in Versions
    BY <1>17
       DEF replace_compose_image, Control, Locals, RunnerLocals, ManualLocals, Pending, Carrying,
           Request
  <2>2. compose' \in Config
    BY <1>17, <2>1 DEF replace_compose_image, Config, TypeOK
  <2>. QED BY <1>17, <2>2 DEF replace_compose_image, TypeOK
<1>18. CASE ComposePull
  BY <1>18 DEF ComposePull, TypeOK
<1>19. CASE ComposeUpdate
  <2>1. container' \in [id: Nat, cfg: Config, by: {"tool", "outside"}]
    BY <1>19, ContainerTyped DEF ComposeUpdate
  <2>2. job' \in Job
    BY <1>19 DEF ComposeUpdate, Job, Result, Final, TypeOK
  <2>. QED BY <1>19, <2>1, <2>2 DEF ComposeUp, ComposeUpdate, Job, TypeOK
<1>20. CASE RecordUpdate
  <2>1. /\ recre' \subseteq [id: Nat, status: {"managed", "unmanaged"}, alert: Alerts]
        /\ base' \in Nat \cup {None}
        /\ faults' \in Nat /\ gaps' \in Nat /\ kills' \in Nat
    BY <1>20, RecordResult DEF RecordUpdate, Job
  <2>. QED BY <1>20, <2>1 DEF RecordUpdate, TypeOK
<1>21. CASE ValidateUpdate
  <2>1. job.req \in Request /\ job.from \in Versions
    BY <1>21
       DEF Control, Locals, RunnerLocals, ManualLocals, Pending, Carrying, Retrying,
           ValidateUpdate
  <2>2. job' \in Job /\ job'.req = job.req /\ job'.from \in Versions
    BY <1>21, <2>1 DEF ValidateUpdate, Job, Result, Final
  <2>3. hist' \in [1..MaxRequests -> Entry \cup {NoEntry}]
    BY <1>21, <2>1, <2>2, HistoryWritten DEF ValidateUpdate, Finish, Alerts, Final, TypeOK
  <2>. QED BY <1>21, <2>2, <2>3 DEF ValidateUpdate, Finish, Job, TypeOK
<1>22. CASE restore_compose_files
  <2>1. job.backup \in Config
    BY <1>22
       DEF Control, Locals, RunnerLocals, ManualLocals, Pending, Restorable, restore_compose_files
  <2>2. job' \in Job
    BY <1>22 DEF restore_compose_files, Job, Result, Final
  <2>. QED BY <1>22, <2>1, <2>2 DEF restore_compose_files, Job, TypeOK
<1>23. CASE RollbackUp
  <2>1. container' \in [id: Nat, cfg: Config, by: {"tool", "outside"}]
    BY <1>23, ContainerTyped DEF RollbackUp
  <2>2. job' \in Job
    BY <1>23 DEF RollbackUp, Job, Result, Final, TypeOK
  <2>. QED BY <1>23, <2>1, <2>2 DEF ComposeUp, RollbackUp, Job, TypeOK
<1>24. CASE RollbackRecord
  <2>1. /\ recre' \subseteq [id: Nat, status: {"managed", "unmanaged"}, alert: Alerts]
        /\ base' \in Nat \cup {None}
        /\ faults' \in Nat /\ gaps' \in Nat /\ kills' \in Nat
    BY <1>24, RecordResult DEF RollbackRecord, Job
  <2>. QED BY <1>24, <2>1 DEF RollbackRecord, TypeOK
<1>25. CASE RollbackValidate
  <2>1. job' \in Job
    BY <1>25 DEF RollbackValidate, Job, Result, Final
  <2>. QED BY <1>25, <2>1 DEF RollbackValidate, Job, TypeOK
<1>26. CASE RollbackResult
  <2>1. /\ job.req \in Request /\ job.from \in Versions
        /\ job.result \in {"rolled_back", "rollback_failed"}
    BY <1>26
       DEF Control, Locals, RunnerLocals, ManualLocals, Pending, Carrying, Retrying,
           RollbackResult
  <2>2. hist' \in [1..MaxRequests -> Entry \cup {NoEntry}]
    BY <1>26, <2>1, HistoryWritten DEF RollbackResult, Finish, Alerts, Final
  <2>. QED BY <1>26, <2>1, <2>2 DEF RollbackResult, Finish, TypeOK
<1>27. CASE UnlinkRequest
  BY <1>27 DEF UnlinkRequest, TypeOK
<1>28. CASE InternalError
  BY <1>28 DEF InternalError, Control, Locals, RunnerLocals, TypeOK
<1>29. CASE RollbackAlert
  <2>1. job.req.id \in 1..MaxRequests /\ hist[job.req.id].status = "rollback_failed"
    BY <1>29
       DEF RollbackAlert, Control, Locals, RunnerLocals, ManualLocals, Pending, Recorded, Request
  <2>2. /\ hist' \in [1..MaxRequests -> Entry \cup {NoEntry}]
        /\ faults' \in Nat /\ gaps' \in Nat /\ kills' \in Nat
    BY <1>29, <2>1, AlertRecorded DEF RollbackAlert
  <2>. QED BY <1>29, <2>2 DEF RollbackAlert, TypeOK
<1>30. CASE RetryRollbackAlert
  <2>1. request = job.req /\ job.req \in Request /\ job.req.op # "update"
    BY <1>30
       DEF RetryRollbackAlert, Control, Locals, RunnerLocals, ManualLocals, Pending, Retrying,
           Carrying
  <2>2. job.req.src \in 1..MaxRequests
    BY <2>1, NoRequestAssumption DEF Control, Locals, RunnerLocals, ManualLocals, Pending, Request
  <2>3. /\ hist' \in [1..MaxRequests -> Entry \cup {NoEntry}]
        /\ faults' \in Nat /\ gaps' \in Nat /\ kills' \in Nat
    BY <1>30, <2>2, AlertRecorded
       DEF RetryRollbackAlert, validate_alert_retry, Retryable, TypeOK
  <2>. QED BY <1>30, <2>3 DEF RetryRollbackAlert, TypeOK
<1>31. CASE RetryUnlink
  BY <1>31 DEF RetryUnlink, TypeOK
<1>32. ASSUME NEW mode \in Modes, ManualBegin(mode) PROVE TypeOK'
  <2>1. mjob' \in Manual
    BY <1>32 DEF ManualBegin, Manual, TypeOK, NoManual
  <2>. QED BY <1>32, <2>1 DEF ManualBegin, Manual, TypeOK
<1>33. CASE ManualCheck
  <2>1. mjob' \in Manual
    BY <1>33 DEF ManualCheck, Manual, TypeOK
  <2>. QED BY <1>33, <2>1 DEF ManualCheck, Manual, TypeOK
<1>34. CASE ManualCheckFails
  BY <1>34 DEF ManualCheckFails, TypeOK
<1>35. CASE ManualUp
  <2>1. container' \in [id: Nat, cfg: Config, by: {"tool", "outside"}]
    BY <1>35, ContainerTyped DEF ManualUp
  <2>. QED BY <1>35, <2>1 DEF ManualUp, TypeOK
<1>36. CASE ManualValidate
  BY <1>36 DEF ManualValidate, TypeOK
<1>37. CASE RecordManual
  <2>1. /\ recre' \subseteq [id: Nat, status: {"managed", "unmanaged"}, alert: Alerts]
        /\ base' \in Nat \cup {None}
        /\ faults' \in Nat /\ gaps' \in Nat /\ kills' \in Nat
    BY <1>37, RecordResult DEF RecordManual, ManualRecord, Manual
  <2>2. mjob' \in Manual
    BY <1>37 DEF RecordManual, ManualRecord, Manual
  <2>. QED BY <1>37, <2>1, <2>2 DEF RecordManual, ManualRecord, Manual, TypeOK
<1>38. CASE save_runtime_checkpoint
  BY <1>38 DEF save_runtime_checkpoint, TypeOK
<1>39. CASE RecordFailedManual
  <2>1. /\ recre' \subseteq [id: Nat, status: {"managed", "unmanaged"}, alert: Alerts]
        /\ base' \in Nat \cup {None}
        /\ faults' \in Nat /\ gaps' \in Nat /\ kills' \in Nat
    BY <1>39, RecordResult DEF RecordFailedManual, ManualRecord, Manual
  <2>2. mjob' \in Manual
    BY <1>39 DEF RecordFailedManual, ManualRecord, Manual
  <2>. QED BY <1>39, <2>1, <2>2 DEF RecordFailedManual, ManualRecord, Manual, TypeOK
<1>40. CASE restore_runtime_checkpoint
  <2>1. ckpt \in Config
    BY <1>40 DEF Control, Locals, RunnerLocals, ManualLocals, Pending, restore_runtime_checkpoint
  <2>2. mjob' \in Manual
    BY <1>40 DEF restore_runtime_checkpoint, Manual, TypeOK
  <2>. QED BY <1>40, <2>1, <2>2 DEF restore_runtime_checkpoint, Manual, TypeOK
<1>41. CASE RecoveryNeeded
  <2>1. mjob' \in Manual
    BY <1>41 DEF RecoveryNeeded, Manual, TypeOK
  <2>. QED BY <1>41, <2>1 DEF RecoveryNeeded, Manual, TypeOK
<1>42. CASE RecoveryNotNeeded
  BY <1>42 DEF RecoveryNotNeeded, TypeOK
<1>43. CASE RecoveryUp
  <2>1. container' \in [id: Nat, cfg: Config, by: {"tool", "outside"}]
    BY <1>43, ContainerTyped DEF RecoveryUp
  <2>. QED BY <1>43, <2>1 DEF ComposeUp, RecoveryUp, TypeOK
<1>44. CASE RecoveryValidate
  BY <1>44 DEF RecoveryValidate, TypeOK
<1>45. CASE RecordRecovery
  <2>1. /\ recre' \subseteq [id: Nat, status: {"managed", "unmanaged"}, alert: Alerts]
        /\ base' \in Nat \cup {None}
        /\ faults' \in Nat /\ gaps' \in Nat /\ kills' \in Nat
    BY <1>45, RecordResult DEF RecordRecovery, ManualRecord, Manual
  <2>2. mjob' \in Manual
    BY <1>45 DEF RecordRecovery, ManualRecord, Manual
  <2>. QED BY <1>45, <2>1, <2>2 DEF RecordRecovery, ManualRecord, Manual, TypeOK
<1>46. CASE RecordFailedRecovery
  <2>1. /\ recre' \subseteq [id: Nat, status: {"managed", "unmanaged"}, alert: Alerts]
        /\ base' \in Nat \cup {None}
        /\ faults' \in Nat /\ gaps' \in Nat /\ kills' \in Nat
    BY <1>46, RecordResult DEF RecordFailedRecovery, ManualRecord, Manual
  <2>2. mjob' \in Manual
    BY <1>46 DEF RecordFailedRecovery, ManualRecord, Manual
  <2>. QED BY <1>46, <2>1, <2>2 DEF RecordFailedRecovery, ManualRecord, Manual, TypeOK
<1>47. CASE RecoveryDone
  BY <1>47 DEF RecoveryDone, TypeOK
<1>48. CASE RecoveryFailed
  BY <1>48 DEF RecoveryFailed, TypeOK
<1>49. ASSUME NEW c \in Config, EditCompose(c) PROVE TypeOK'
  BY <1>49 DEF EditCompose, TypeOK
<1>50. CASE DirectRecreate
  BY <1>50 DEF DirectRecreate, TypeOK
<1>51. CASE ClockTick
  BY <1>51 DEF ClockTick, TypeOK
<1>52. ASSUME NEW p \in Procs, Killed(p) PROVE TypeOK'
  BY <1>52 DEF Killed, TypeOK
<1>53. CASE UNCHANGED vars
  BY <1>53 DEF vars, TypeOK
<1>. QED
  BY <1>1, <1>2, <1>3, <1>4, <1>5, <1>6, <1>7, <1>8, <1>9, <1>10, <1>11, <1>12, <1>13, <1>14,
     <1>15, <1>16, <1>17, <1>18, <1>19, <1>20, <1>21, <1>22, <1>23, <1>24, <1>25, <1>26, <1>27,
     <1>28, <1>29, <1>30, <1>31, <1>32, <1>33, <1>34, <1>35, <1>36, <1>37, <1>38, <1>39, <1>40,
     <1>41, <1>42, <1>43, <1>44, <1>45, <1>46, <1>47, <1>48, <1>49, <1>50, <1>51, <1>52, <1>53
     DEF Next, Api, RunnerWork, ManualWork, Outside

\* What the steps of one process leave alone for the other.
LEMMA ManualLeaves ==
  ASSUME TypeOK, ManualWork \/ \E mode \in Modes : ManualBegin(mode)
  PROVE  /\ pc'["runner"] = pc["runner"] /\ pc["manual"] # pc'["manual"]
         /\ UNCHANGED <<request, hist, job, api, published, outside, guard>>
<1>1. pc \in [Procs -> RunnerLabels \cup ManualLabels] /\ "runner" \in Procs /\ "manual" \in Procs
  BY DEF TypeOK, Procs
<1> USE <1>1 DEF At, Goto, Exit, fileVars, envVars
<1>2. ASSUME NEW mode \in Modes, ManualBegin(mode)
      PROVE  /\ pc'["runner"] = pc["runner"] /\ pc["manual"] # pc'["manual"]
             /\ UNCHANGED <<request, hist, job, api, published, outside, guard>>
  BY <1>2 DEF ManualBegin
<1>3. CASE ManualCheck \/ ManualCheckFails \/ ManualUp \/ ManualValidate
  BY <1>3 DEF ManualCheck, ManualCheckFails, ManualUp, ManualValidate
<1>4. CASE RecordManual \/ save_runtime_checkpoint \/ RecordFailedManual
           \/ restore_runtime_checkpoint
  BY <1>4
     DEF RecordManual, save_runtime_checkpoint, RecordFailedManual, restore_runtime_checkpoint,
         ManualRecord
<1>5. CASE RecoveryNeeded \/ RecoveryNotNeeded \/ RecoveryUp \/ RecoveryValidate
  BY <1>5 DEF RecoveryNeeded, RecoveryNotNeeded, RecoveryUp, RecoveryValidate
<1>6. CASE RecordRecovery \/ RecordFailedRecovery \/ RecoveryDone \/ RecoveryFailed
  BY <1>6 DEF RecordRecovery, RecordFailedRecovery, RecoveryDone, RecoveryFailed, ManualRecord
<1>. QED BY <1>2, <1>3, <1>4, <1>5, <1>6 DEF ManualWork

LEMMA RunnerLeaves ==
  ASSUME TypeOK, RunnerWork \/ RunnerBegin
  PROVE  /\ pc'["manual"] = pc["manual"] /\ pc["runner"] # pc'["runner"]
         /\ UNCHANGED <<ckpt, mjob, api, published, outside, guard>>
<1>1. pc \in [Procs -> RunnerLabels \cup ManualLabels] /\ "runner" \in Procs /\ "manual" \in Procs
  BY DEF TypeOK, Procs
<1> USE <1>1 DEF At, Goto, Exit, fileVars, envVars
<1>2. CASE RunnerBegin
  BY <1>2 DEF RunnerBegin
<1>3. CASE ObserveFails \/ observe_container_recreation \/ SendUnmanagedAlert
           \/ RecordUnmanagedAlert \/ NothingToDo
  BY <1>3
     DEF ObserveFails, observe_container_recreation, SendUnmanagedAlert, RecordUnmanagedAlert,
         NothingToDo
<1>4. CASE ReadFails \/ WaitForWindow \/ TakeRequest \/ Preflight \/ PreflightRejects
  BY <1>4 DEF ReadFails, WaitForWindow, TakeRequest, Preflight, PreflightRejects, Finish
<1>5. CASE verify_already_applied \/ create_backup \/ replace_compose_image \/ ComposePull
           \/ ComposeUpdate
  BY <1>5
     DEF verify_already_applied, create_backup, replace_compose_image, ComposePull,
         ComposeUpdate, Finish
<1>6. CASE RecordUpdate \/ ValidateUpdate \/ restore_compose_files \/ RollbackUp \/ RollbackRecord
  BY <1>6
     DEF RecordUpdate, ValidateUpdate, restore_compose_files, RollbackUp, RollbackRecord, Finish
<1>7. CASE RollbackValidate \/ RollbackResult \/ UnlinkRequest \/ InternalError \/ RollbackAlert
  BY <1>7
     DEF RollbackValidate, RollbackResult, UnlinkRequest, InternalError, RollbackAlert, Finish
<1>8. CASE RetryRollbackAlert \/ RetryUnlink
  BY <1>8 DEF RetryRollbackAlert, RetryUnlink
<1>. QED BY <1>2, <1>3, <1>4, <1>5, <1>6, <1>7, <1>8 DEF RunnerWork

LEMMA OthersLeave ==
  ASSUME TypeOK, Outside \/ Api
  PROVE  /\ UNCHANGED <<hist, base, recre, ckpt, recovery, job, mjob>>
         /\ (\A p \in Procs : ~Killed(p)) => UNCHANGED <<pc, lock, kills>>
         /\ Outside => UNCHANGED <<request, published, api>>
         /\ Api => UNCHANGED <<compose, container, outside, faults, gaps, kills>>
BY DEF Outside, Api, EditCompose, DirectRecreate, ClockTick, Killed, request_traefik_patch_update,
       retry_traefik_rollback_alert, publish_request, fileVars, localVars, envVars,
        mishapVars, Exit

\* The locals of the runner.
LEMMA RunnerLocalsStep == Control /\ [Next]_vars => RunnerLocals'
<1> SUFFICES ASSUME Control, [Next]_vars PROVE RunnerLocals'
  OBVIOUS
<1>a. TypeOK /\ RunnerLocals /\ job \in Job /\ pc \in [Procs -> RunnerLabels \cup ManualLabels]
      /\ "runner" \in Procs /\ "manual" \in Procs
  BY DEF Control, Locals, TypeOK, Job, Procs
<1>b. job' \in Job
  BY TypesStep DEF TypeOK, Job
<1> USE DEF At, Goto, Exit, Fault, NoFault, Gap, Fails, fileVars, localVars, envVars, Carrying,
            Retrying, Upgrading, Restorable, RunnerLocals
<1>1. CASE ManualWork \/ \E mode \in Modes : ManualBegin(mode)
  BY <1>a, <1>1, ManualLeaves
<1>2. CASE (\E v \in Versions : request_traefik_patch_update(v))
      \/ (\E r \in 1..MaxRequests : retry_traefik_rollback_alert(r))
  BY <1>a, <1>2 DEF request_traefik_patch_update, retry_traefik_rollback_alert
<1>3. CASE publish_request
  BY <1>a, <1>3, NoRequestAssumption DEF publish_request, Request
<1>4. CASE Outside
  BY <1>a, <1>4 DEF Outside, EditCompose, DirectRecreate, ClockTick, Killed, RunnerLabels
<1>5. CASE RunnerBegin
  BY <1>a, <1>5 DEF RunnerBegin, RunnerLabels
<1>6. CASE ObserveFails
  BY <1>a, <1>6 DEF ObserveFails, RunnerLabels
<1>7. CASE observe_container_recreation
  BY <1>a, <1>7 DEF observe_container_recreation, RunnerLabels, Job
<1>8. CASE SendUnmanagedAlert
  BY <1>a, <1>8 DEF SendUnmanagedAlert, RunnerLabels, Job
<1>9. CASE RecordUnmanagedAlert
  BY <1>a, <1>9 DEF RecordUnmanagedAlert, RunnerLabels
<1>10. CASE NothingToDo
  BY <1>a, <1>10 DEF NothingToDo, RunnerLabels
<1>11. CASE ReadFails
  BY <1>a, <1>11 DEF ReadFails, RunnerLabels
<1>12. CASE WaitForWindow
  BY <1>a, <1>12 DEF WaitForWindow, RunnerLabels
<1>13. CASE TakeRequest
  BY <1>a, <1>13, NoRequestAssumption DEF TakeRequest, RunnerLabels, Request, TypeOK, Job
<1>14. CASE Preflight
  BY <1>a, <1>14 DEF Preflight, RunnerLabels, PreflightOK, is_forward_patch, Job, TypeOK, Config
<1>15. CASE PreflightRejects
  BY <1>a, <1>15 DEF PreflightRejects, RunnerLabels, Finish, Job, TypeOK, Config
<1>16. CASE verify_already_applied
  BY <1>a, <1>16 DEF verify_already_applied, RunnerLabels, Finish, Job
<1>17. CASE create_backup
  BY <1>a, <1>17 DEF create_backup, RunnerLabels, Finish, Job, TypeOK
<1>18. CASE replace_compose_image
  BY <1>a, <1>18 DEF replace_compose_image, RunnerLabels
<1>19. CASE ComposePull
  BY <1>a, <1>19 DEF ComposePull, RunnerLabels
<1>20. CASE ComposeUpdate
  BY <1>a, <1>20 DEF ComposeUpdate, RunnerLabels, Job
<1>21. CASE RecordUpdate
  BY <1>a, <1>21 DEF RecordUpdate, RunnerLabels
<1>22. CASE ValidateUpdate
  BY <1>a, <1>22 DEF ValidateUpdate, RunnerLabels, Finish, Job
<1>23. CASE restore_compose_files
  BY <1>a, <1>23 DEF restore_compose_files, RunnerLabels, Job
<1>24. CASE RollbackUp
  BY <1>a, <1>24 DEF RollbackUp, RunnerLabels, Job
<1>25. CASE RollbackRecord
  BY <1>a, <1>25 DEF RollbackRecord, RunnerLabels
<1>26. CASE RollbackValidate
  BY <1>a, <1>26 DEF RollbackValidate, RunnerLabels, Job
<1>27. CASE RollbackResult
  BY <1>a, <1>27 DEF RollbackResult, RunnerLabels, Finish
<1>28. CASE UnlinkRequest
  BY <1>a, <1>28 DEF UnlinkRequest, RunnerLabels
<1>29. CASE InternalError
  BY <1>a, <1>29 DEF InternalError, RunnerLabels
<1>30. CASE RollbackAlert
  BY <1>a, <1>30 DEF RollbackAlert, RunnerLabels
<1>31. CASE RetryRollbackAlert
  BY <1>a, <1>31 DEF RetryRollbackAlert, RunnerLabels
<1>32. CASE RetryUnlink
  BY <1>a, <1>32 DEF RetryUnlink, RunnerLabels
<1>33. CASE UNCHANGED vars
  BY <1>a, <1>33 DEF vars
<1>. QED
  BY <1>1, <1>2, <1>3, <1>4, <1>5, <1>6, <1>7, <1>8, <1>9, <1>10, <1>11, <1>12, <1>13, <1>14,
     <1>15, <1>16, <1>17, <1>18, <1>19, <1>20, <1>21, <1>22, <1>23, <1>24, <1>25, <1>26, <1>27,
     <1>28, <1>29, <1>30, <1>31, <1>32, <1>33
     DEF Next, Api, RunnerWork

\* The history changes where the outcome of the request in hand is written,
\* and where that of an alert is.
Outcome ==
  /\ pc["runner"] \in {"preflight", "verify", "backup", "validate", "rb_result"}
  /\ job.req.id \in 1..MaxRequests
  /\ \A r \in 1..MaxRequests : r # job.req.id => hist'[r] = hist[r]
  /\ hist'[job.req.id].status = "success" => hist'[job.req.id].target >= hist'[job.req.id].from
  /\ job'.req = job.req /\ UNCHANGED <<request, kills>>
  /\ \/ hist'[job.req.id].status = "running" /\ pc'["runner"] = "backup"
     \/ /\ hist'[job.req.id].status \in Final /\ hist'[job.req.id].status = job'.result
        /\ job'.result = "rollback_failed" => hist'[job.req.id].alert = "pending"
        /\ pc'["runner"] = "unlink"

AlertOutcome ==
  \E r \in 1..MaxRequests :
    /\ \/ pc["runner"] = "alert" /\ r = job.req.id
       \/ pc["runner"] = "retry" /\ r = job.req.src /\ hist[r].alert = "request_failed"
    /\ hist[r].status = "rollback_failed"
    /\ \A q \in 1..MaxRequests : q # r => hist'[q] = hist[q]
    /\ \A q \in 1..MaxRequests : /\ hist'[q].status = hist[q].status
                                 /\ hist'[q].from = hist[q].from
                                 /\ hist'[q].target = hist[q].target
    /\ pc'["runner"] \in {"idle", "retry_unlink"} /\ UNCHANGED <<job, request, kills>>

LEMMA OutcomeWritten ==
  ASSUME TypeOK, job' \in Job, job'.req = job.req, job.req \in Request, job'.from \in Versions,
         NEW status \in {"running"} \cup Final, NEW alert \in Alerts,
         hist' = [hist EXCEPT ![job.req.id] = entry(job', status, alert)],
         pc["runner"] \in {"preflight", "verify", "backup", "validate", "rb_result"},
         status = "success" => job.req.target >= job'.from,
         status = "rollback_failed" => alert = "pending",
         \/ status = "running" /\ pc'["runner"] = "backup"
         \/ status \in Final /\ job'.result = status /\ pc'["runner"] = "unlink",
         UNCHANGED <<request, kills>>
  PROVE  Outcome
<1>1. job.req.id \in 1..MaxRequests
  BY DEF Request
<1>2. /\ hist'[job.req.id] = entry(job', status, alert)
      /\ hist'[job.req.id].status = status /\ hist'[job.req.id].alert = alert
      /\ \A r \in 1..MaxRequests : r # job.req.id => hist'[r] = hist[r]
  BY HistoryWritten
<1>3. hist'[job.req.id].target = job.req.target /\ hist'[job.req.id].from = job'.from
  BY <1>2 DEF entry
<1>. QED BY <1>1, <1>2, <1>3 DEF Outcome

\* Every other step leaves the history alone, and what the runner will clean
\* up after or alert about.
Quiet ==
  /\ UNCHANGED hist
  /\ pc'["runner"] = "unlink" => pc["runner"] = "unlink" /\ job' = job
  /\ pc'["runner"] = "alert" =>
       /\ job' = job
       /\ \/ pc["runner"] = "alert"
          \/ pc["runner"] = "unlink" /\ job.result = "rollback_failed"

LEMMA HistoryChanges == Control /\ [Next]_vars => Quiet \/ Outcome \/ AlertOutcome
<1> SUFFICES ASSUME Control, [Next]_vars PROVE Quiet \/ Outcome \/ AlertOutcome
  OBVIOUS
<1>a. TypeOK /\ RunnerLocals /\ job \in Job /\ pc \in [Procs -> RunnerLabels \cup ManualLabels]
      /\ "runner" \in Procs /\ "manual" \in Procs
  BY DEF Control, Locals, TypeOK, Job, Procs
<1>b. job' \in Job /\ hist \in [1..MaxRequests -> Entry \cup {NoEntry}]
  BY TypesStep DEF TypeOK, Job, Control
<1>c. Recorded
  BY DEF Control
<1> USE DEF At, Goto, Exit, Fails, Fault, NoFault, mishapVars
<1>1. CASE ManualWork \/ \E mode \in Modes : ManualBegin(mode)
  BY <1>a, <1>1, ManualLeaves DEF Quiet, localVars
<1>2. CASE Outside \/ Api
  BY <1>a, <1>2, OthersLeave
     DEF Quiet, Outside, EditCompose, DirectRecreate, ClockTick, Killed, localVars
<1>3. CASE ObserveFails \/ observe_container_recreation \/ SendUnmanagedAlert
           \/ RecordUnmanagedAlert
        \/ NothingToDo \/ ReadFails \/ WaitForWindow
  BY <1>a, <1>3
     DEF ObserveFails, observe_container_recreation, SendUnmanagedAlert, RecordUnmanagedAlert,
         NothingToDo, ReadFails, WaitForWindow, fileVars, Quiet
<1>4. CASE TakeRequest \/ replace_compose_image \/ ComposePull \/ ComposeUpdate
        \/ RecordUpdate \/ restore_compose_files \/ RollbackUp
  BY <1>a, <1>4
     DEF TakeRequest, replace_compose_image, ComposePull, ComposeUpdate, RecordUpdate,
         restore_compose_files, RollbackUp, fileVars, Quiet
<1>5. CASE RollbackRecord \/ RollbackValidate \/ UnlinkRequest \/ InternalError
        \/ RetryUnlink
  BY <1>a, <1>5
     DEF RollbackRecord, RollbackValidate, UnlinkRequest, InternalError, RetryUnlink, fileVars,
         Quiet
<1>6. CASE RunnerBegin
  BY <1>a, <1>6 DEF RunnerBegin, fileVars, Quiet
<1>7. CASE Preflight
  <2>1. /\ pc["runner"] \in {"preflight", "verify", "backup", "validate", "rb_result"}
        /\ job.req \in Request /\ job.req.target \in Nat
    BY <1>a, <1>7, VersionsAssumption DEF Preflight, RunnerLocals, Carrying, Upgrading, Request
  <2>2. job' \in Job /\ job'.req = job.req /\ job'.from \in Versions
    BY <1>a, <1>b, <1>7, <2>1 DEF Preflight, Job, TypeOK, Config
  <2>3. UNCHANGED <<request, kills>>
    BY <1>7 DEF Preflight, fileVars
  <2>4. CASE container.cfg.ver = job.req.target
    BY <1>a, <1>7, <2>4 DEF Preflight, Quiet
  <2>5. CASE container.cfg.ver # job.req.target
    BY <1>a, <1>7, <2>1, <2>2, <2>3, <2>5, OutcomeWritten DEF Preflight, Alerts, Final
  <2>. QED BY <2>4, <2>5
<1>8. CASE PreflightRejects
  <2>1. /\ pc["runner"] \in {"preflight", "verify", "backup", "validate", "rb_result"}
        /\ job.req \in Request /\ job.req.target \in Nat
    BY <1>a, <1>8, VersionsAssumption
       DEF PreflightRejects, RunnerLocals, Carrying, Upgrading, Request
  <2>2. job' \in Job /\ job'.req = job.req /\ job'.from \in Versions
    BY <1>a, <1>b, <1>8, <2>1 DEF PreflightRejects, Job, TypeOK, Config
  <2>3. UNCHANGED <<request, kills>>
    BY <1>8 DEF PreflightRejects, fileVars
  <2>. QED BY <1>a, <1>8, <2>1, <2>2, <2>3, OutcomeWritten
              DEF PreflightRejects, Finish, Alerts, Final
<1>9. CASE verify_already_applied
  <2>1. /\ pc["runner"] \in {"preflight", "verify", "backup", "validate", "rb_result"}
        /\ job.req \in Request /\ job.req.target \in Nat
        /\ job.from \in Versions /\ job.req.target >= job.from
    BY <1>a, <1>9, VersionsAssumption
       DEF verify_already_applied, RunnerLocals, Carrying, Upgrading, Request
  <2>2. job' \in Job /\ job'.req = job.req /\ job'.from \in Versions /\ job'.from = job.from
    BY <1>a, <1>b, <1>9, <2>1 DEF verify_already_applied, Job, Finish
  <2>3. UNCHANGED <<request, kills>>
    BY <1>9 DEF verify_already_applied, fileVars
  <2>4. \/ Quiet
        \/ \E status \in {"success", "rejected"} :
             /\ hist' = [hist EXCEPT ![job.req.id] = entry(job', status, "not_needed")]
             /\ job'.result = status /\ pc'["runner"] = "unlink"
    BY <1>a, <1>9, <2>1 DEF verify_already_applied, Finish, Job, Quiet
  <2>. QED BY <1>a, <1>9, <2>1, <2>2, <2>3, <2>4, OutcomeWritten DEF Alerts, Final
<1>10. CASE create_backup
  <2>1. /\ pc["runner"] \in {"preflight", "verify", "backup", "validate", "rb_result"}
        /\ job.req \in Request /\ job.req.target \in Nat
        /\ job.from \in Versions
    BY <1>a, <1>10, VersionsAssumption
       DEF create_backup, RunnerLocals, Carrying, Upgrading, Request
  <2>2. job' \in Job /\ job'.req = job.req /\ job'.from \in Versions /\ job'.from = job.from
    BY <1>a, <1>b, <1>10, <2>1 DEF create_backup, Job, Finish
  <2>3. UNCHANGED <<request, kills>>
    BY <1>10 DEF create_backup, fileVars
  <2>4. \/ Quiet
        \/ \E status \in {"rejected"} :
             /\ hist' = [hist EXCEPT ![job.req.id] = entry(job', status, "not_needed")]
             /\ job'.result = status /\ pc'["runner"] = "unlink"
    BY <1>a, <1>10, <2>1 DEF create_backup, Finish, Job, Quiet
  <2>. QED BY <1>a, <1>10, <2>1, <2>2, <2>3, <2>4, OutcomeWritten DEF Alerts, Final
<1>11. CASE ValidateUpdate
  <2>1. /\ pc["runner"] \in {"preflight", "verify", "backup", "validate", "rb_result"}
        /\ job.req \in Request /\ job.req.target \in Nat
        /\ job.from \in Versions /\ job.req.target >= job.from
    BY <1>a, <1>11, VersionsAssumption
       DEF ValidateUpdate, RunnerLocals, Carrying, Upgrading, Request
  <2>2. job' \in Job /\ job'.req = job.req /\ job'.from \in Versions /\ job'.from = job.from
    BY <1>a, <1>b, <1>11, <2>1 DEF ValidateUpdate, Job, Finish
  <2>3. UNCHANGED <<request, kills>>
    BY <1>11 DEF ValidateUpdate, fileVars
  <2>4. \/ Quiet
        \/ \E status \in {"success"} :
             /\ hist' = [hist EXCEPT ![job.req.id] = entry(job', status, "not_needed")]
             /\ job'.result = status /\ pc'["runner"] = "unlink"
    BY <1>a, <1>11, <2>1 DEF ValidateUpdate, Finish, Job, Quiet
  <2>. QED BY <1>a, <1>11, <2>1, <2>2, <2>3, <2>4, OutcomeWritten DEF Alerts, Final
<1>12. CASE RollbackResult
  <2>1. /\ pc["runner"] \in {"preflight", "verify", "backup", "validate", "rb_result"}
        /\ job.req \in Request /\ job.req.target \in Nat
        /\ job.from \in Versions
        /\ job.result \in {"rolled_back", "rollback_failed"}
    BY <1>a, <1>12, VersionsAssumption
       DEF RollbackResult, RunnerLocals, Carrying, Upgrading, Request
  <2>2. job' \in Job /\ job'.req = job.req /\ job'.from \in Versions /\ job'.from = job.from
    BY <1>a, <1>b, <1>12, <2>1 DEF RollbackResult, Job, Finish
  <2>3. UNCHANGED <<request, kills>>
    BY <1>12 DEF RollbackResult, fileVars
  <2>. QED BY <1>a, <1>12, <2>1, <2>2, <2>3, OutcomeWritten
              DEF RollbackResult, Finish, Alerts, Final
<1>13. CASE RollbackAlert
  <2>1. job.req.id \in 1..MaxRequests /\ hist[job.req.id].status = "rollback_failed"
    BY <1>a, <1>c, <1>13 DEF RollbackAlert, RunnerLocals, Recorded, Request
  <2>2. pc["runner"] = "alert" /\ pc'["runner"] = "idle" /\ UNCHANGED <<job, request>>
    BY <1>a, <1>13 DEF RollbackAlert
  <2>3. /\ \A q \in 1..MaxRequests : q # job.req.id => hist'[q] = hist[q]
        /\ \A q \in 1..MaxRequests : /\ hist'[q].status = hist[q].status
                                     /\ hist'[q].from = hist[q].from
                                     /\ hist'[q].target = hist[q].target
        /\ UNCHANGED kills
    BY <1>a, <1>13, <2>1, AlertRecorded DEF RollbackAlert, AlertResult
  <2>. QED BY <2>1, <2>2, <2>3 DEF AlertOutcome
<1>14. CASE RetryRollbackAlert
  <2>1. job.req.src \in 1..MaxRequests
    <3>1. request = job.req /\ job.req \in Request /\ job.req.op # "update"
      BY <1>a, <1>14 DEF RetryRollbackAlert, RunnerLocals, Retrying, Carrying
    <3>. QED BY <3>1, NoRequestAssumption DEF Control, Locals, Pending, Request
  <2>2. pc["runner"] = "retry" /\ pc'["runner"] = "retry_unlink" /\ UNCHANGED <<job, request>>
    BY <1>a, <1>14 DEF RetryRollbackAlert
  <2>3. CASE validate_alert_retry(job.req)
    <3>1. /\ hist[job.req.src].status = "rollback_failed"
          /\ hist[job.req.src].alert = "request_failed"
      BY <2>3 DEF validate_alert_retry, Retryable
    <3>2. /\ \A q \in 1..MaxRequests : q # job.req.src => hist'[q] = hist[q]
          /\ \A q \in 1..MaxRequests : /\ hist'[q].status = hist[q].status
                                       /\ hist'[q].from = hist[q].from
                                       /\ hist'[q].target = hist[q].target
          /\ UNCHANGED kills
      BY <1>a, <1>14, <2>1, <2>3, <3>1, AlertRecorded DEF RetryRollbackAlert, AlertResult
    <3>. QED BY <2>1, <2>2, <3>1, <3>2 DEF AlertOutcome
  <2>4. CASE ~validate_alert_retry(job.req)
    BY <1>a, <1>14, <2>4 DEF RetryRollbackAlert, Quiet
  <2>. QED BY <2>3, <2>4
<1>15. CASE UNCHANGED vars
  BY <1>a, <1>15 DEF vars, fileVars, localVars, Quiet
<1>. QED
  BY <1>1, <1>2, <1>3, <1>4, <1>5, <1>6, <1>7, <1>8, <1>9, <1>10, <1>11, <1>12, <1>13, <1>14,
     <1>15
     DEF Next, RunnerWork

\* What is cleaned up after, or alerted about, stays in the history.
LEMMA RecordedStep == Control /\ [Next]_vars => Recorded'
<1> SUFFICES ASSUME Control, [Next]_vars PROVE Recorded'
  OBVIOUS
<1>1. RunnerLocals /\ Recorded
  BY DEF Control, Locals
<1>2. CASE Quiet
  BY <1>1, <1>2 DEF Quiet, Recorded
<1>3. CASE Outcome
  BY <1>3 DEF Outcome, Recorded
<1>4. CASE AlertOutcome
  BY <1>4 DEF AlertOutcome, Recorded
<1>. QED BY <1>2, <1>3, <1>4, HistoryChanges

\* The checkpoint of the manual tool, once it is past its check, stays one.
LEMMA ManualLocalsStep == Control /\ [Next]_vars => ManualLocals'
<1> SUFFICES ASSUME Control, [Next]_vars PROVE ManualLocals'
  OBVIOUS
<1>1. /\ TypeOK /\ ManualLocals /\ "runner" \in Procs /\ "manual" \in Procs
      /\ pc \in [Procs -> RunnerLabels \cup ManualLabels]
  BY DEF Control, Locals, TypeOK, Procs
<1> USE <1>1 DEF ManualLocals, ManualLabels, At, Goto, Exit, fileVars
<1>2. CASE RunnerWork \/ RunnerBegin
  BY <1>2, RunnerLeaves
<1>3. CASE Api
  BY <1>3 DEF Api, request_traefik_patch_update, retry_traefik_rollback_alert, publish_request,
              localVars
<1>4. CASE Outside
  BY <1>4 DEF Outside, EditCompose, DirectRecreate, ClockTick, Killed, localVars
<1>5. ASSUME NEW mode \in Modes, ManualBegin(mode) PROVE ManualLocals'
  BY <1>5 DEF ManualBegin
<1>6. CASE ManualCheck \/ ManualCheckFails \/ ManualUp \/ ManualValidate
  BY <1>6 DEF ManualCheck, ManualCheckFails, ManualUp, ManualValidate, TypeOK
<1>7. CASE RecordManual \/ save_runtime_checkpoint \/ RecordFailedManual
  BY <1>7 DEF RecordManual, save_runtime_checkpoint, RecordFailedManual, ManualRecord
<1>8. CASE restore_runtime_checkpoint \/ RecoveryNeeded \/ RecoveryNotNeeded
  BY <1>8 DEF restore_runtime_checkpoint, RecoveryNeeded, RecoveryNotNeeded
<1>9. CASE RecoveryUp \/ RecoveryValidate \/ RecordRecovery
  BY <1>9 DEF RecoveryUp, RecoveryValidate, RecordRecovery, ManualRecord
<1>10. CASE RecordFailedRecovery \/ RecoveryDone \/ RecoveryFailed
  BY <1>10 DEF RecordFailedRecovery, RecoveryDone, RecoveryFailed, ManualRecord
<1>11. CASE UNCHANGED vars
  BY <1>11 DEF vars, localVars
<1>. QED
  BY <1>2, <1>3, <1>4, <1>5, <1>6, <1>7, <1>8, <1>9, <1>10, <1>11 DEF Next, ManualWork

\* The runner never changes a request, but removes it.
LEMMA RequestKept ==
  ASSUME TypeOK, RunnerWork \/ RunnerBegin
  PROVE  request' \in {request, None}
<1>1. CASE ObserveFails \/ observe_container_recreation \/ SendUnmanagedAlert
           \/ RecordUnmanagedAlert
        \/ NothingToDo \/ ReadFails \/ WaitForWindow
  BY <1>1
     DEF ObserveFails, observe_container_recreation, SendUnmanagedAlert, RecordUnmanagedAlert,
         NothingToDo, ReadFails, WaitForWindow, fileVars
<1>2. CASE TakeRequest \/ Preflight \/ PreflightRejects \/ verify_already_applied
        \/ create_backup \/ replace_compose_image \/ ComposePull
  BY <1>2
     DEF TakeRequest, Preflight, PreflightRejects, verify_already_applied, create_backup,
         replace_compose_image, ComposePull, fileVars
<1>3. CASE ComposeUpdate \/ RecordUpdate \/ ValidateUpdate \/ restore_compose_files
        \/ RollbackUp \/ RollbackRecord \/ RollbackValidate
  BY <1>3
     DEF ComposeUpdate, RecordUpdate, ValidateUpdate, restore_compose_files, RollbackUp,
         RollbackRecord, RollbackValidate, fileVars
<1>4. CASE RollbackResult \/ UnlinkRequest \/ InternalError \/ RollbackAlert
        \/ RetryRollbackAlert \/ RetryUnlink
  BY <1>4
     DEF RollbackResult, UnlinkRequest, InternalError, RollbackAlert, RetryRollbackAlert,
         RetryUnlink, fileVars
<1>5. CASE RunnerBegin
  BY <1>5 DEF RunnerBegin, fileVars
<1>. QED BY <1>1, <1>2, <1>3, <1>4, <1>5 DEF RunnerWork

\* The API's validated request fits, and retries name their update.
LEMMA PendingStep == Control /\ [Next]_vars => Pending'
<1> SUFFICES ASSUME Control, [Next]_vars PROVE Pending'
  OBVIOUS
<1>1. TypeOK /\ Pending
  BY DEF Control, Locals
<1> USE <1>1 DEF Pending
<1>2. CASE RunnerWork \/ RunnerBegin
  BY <1>2, RunnerLeaves, RequestKept
<1>3. CASE ManualWork \/ \E mode \in Modes : ManualBegin(mode)
  BY <1>3, ManualLeaves
<1>4. CASE Outside
  BY <1>4, OthersLeave
<1>5. ASSUME NEW v \in Versions, request_traefik_patch_update(v) PROVE Pending'
  BY <1>5 DEF request_traefik_patch_update, fileVars
<1>6. ASSUME NEW r \in 1..MaxRequests, retry_traefik_rollback_alert(r) PROVE Pending'
  BY <1>6 DEF retry_traefik_rollback_alert, fileVars
<1>7. CASE publish_request
  BY <1>7 DEF publish_request
<1>8. CASE UNCHANGED vars
  BY <1>8 DEF vars, fileVars, envVars
<1>. QED BY <1>2, <1>3, <1>4, <1>5, <1>6, <1>7, <1>8 DEF Next, Api

LEMMA ControlInitially == Init => Control
<1> SUFFICES ASSUME Init PROVE Control
  OBVIOUS
<1>1. TypeOK
  <2>1. /\ compose \in Config /\ hist \in [1..MaxRequests -> Entry \cup {NoEntry}]
        /\ container \in [id: Nat, cfg: Config, by: {"tool", "outside"}]
    BY DEF Init
  <2>2. /\ job \in [req: Request \cup {None}, from: Versions \cup {None},
                    backup: Config \cup {None}, prev: Nat, result: Result]
        /\ mjob \in [mode: Modes \cup {None}, orig: Nat, prev: Nat, gap: BOOLEAN]
    BY DEF Init, NoJob, NoManual, Result
  <2>3. pc \in [Procs -> RunnerLabels \cup ManualLabels]
    BY DEF Init, RunnerLabels
  <2>4. /\ request = None /\ api = None /\ lock = None /\ ckpt = None /\ recovery = None
        /\ recre = {} /\ heartbeat = "ready" /\ base \in Nat \cup {None} /\ guard = FALSE
        /\ published \in 0..MaxRequests
        /\ manuals = 0 /\ outside = 0 /\ faults = 0 /\ gaps = 0 /\ kills = 0
    BY UpdateBounds DEF Init
  <2>. QED BY <2>1, <2>2, <2>3, <2>4 DEF TypeOK
<1>2. Locals /\ Recorded
  BY DEF Init, Locals, RunnerLocals, ManualLocals, Pending, Recorded, Procs, RunnerLabels,
         ManualLabels, Carrying, Retrying, Upgrading, Restorable
<1>. QED BY <1>1, <1>2 DEF Control

LEMMA ControlInvariant == Spec => []Control
<1>1. Control /\ [Next]_vars => Control'
  BY TypesStep, RunnerLocalsStep, ManualLocalsStep, PendingStep, RecordedStep DEF Control, Locals
<1>. QED BY ControlInitially, <1>1, PTL DEF Spec

\* The variables keep their types: whatever is killed or fails, the runner
\* and the manual tool find in files and locals what they take them for.
THEOREM UpdateTyped == Spec => []TypeOK
<1>1. Control => TypeOK
  BY DEF Control
<1>. QED BY <1>1, ControlInvariant, PTL

\* No update that was carried out is a downgrade, although the API and the
\* preflight look at the container at different times.
THEOREM NoDowngrade == Spec => []SuccessNeverDowngrades
<1>1. Init => SuccessNeverDowngrades
  BY NoneAssumption DEF Init, SuccessNeverDowngrades, NoEntry
<1>2. Control /\ SuccessNeverDowngrades /\ [Next]_vars => SuccessNeverDowngrades'
  <2> SUFFICES ASSUME Control, SuccessNeverDowngrades, [Next]_vars PROVE SuccessNeverDowngrades'
    OBVIOUS
  <2>1. CASE Quiet
    BY <2>1 DEF Quiet, SuccessNeverDowngrades
  <2>2. CASE Outcome
    BY <2>2 DEF Outcome, SuccessNeverDowngrades
  <2>3. CASE AlertOutcome
    BY <2>3 DEF AlertOutcome, SuccessNeverDowngrades
  <2>. QED BY <2>1, <2>2, <2>3, HistoryChanges
<1>. QED BY <1>1, <1>2, ControlInvariant, PTL DEF Spec

\* The flock is the process's between its first and its last step, so the
\* runner and the manual tool never work at the same time.
LEMMA LockStep == TypeOK /\ LockHeld /\ [Next]_vars => LockHeld'
<1> SUFFICES ASSUME TypeOK, LockHeld, [Next]_vars PROVE LockHeld'
  OBVIOUS
<1>1. pc \in [Procs -> RunnerLabels \cup ManualLabels] /\ Procs = {"runner", "manual"}
  BY DEF TypeOK, Procs
<1> USE <1>1, NoneAssumption DEF LockHeld, At, Goto, Exit
<1>2. CASE Api
  BY <1>2
     DEF Api, request_traefik_patch_update, retry_traefik_rollback_alert, publish_request,
         localVars
<1>3. CASE Outside
  BY <1>3 DEF Outside, EditCompose, DirectRecreate, ClockTick, Killed, localVars
<1>4. ASSUME NEW mode \in Modes, ManualBegin(mode) PROVE LockHeld'
  BY <1>4 DEF ManualBegin
<1>5. CASE RunnerBegin
  BY <1>5 DEF RunnerBegin
<1>6. CASE ObserveFails \/ observe_container_recreation \/ SendUnmanagedAlert
  BY <1>6 DEF ObserveFails, observe_container_recreation, SendUnmanagedAlert
<1>7. CASE RecordUnmanagedAlert \/ NothingToDo \/ ReadFails
  BY <1>7 DEF RecordUnmanagedAlert, NothingToDo, ReadFails
<1>8. CASE WaitForWindow \/ TakeRequest \/ Preflight
  BY <1>8 DEF WaitForWindow, TakeRequest, Preflight
<1>9. CASE PreflightRejects \/ verify_already_applied \/ create_backup
  BY <1>9 DEF PreflightRejects, verify_already_applied, create_backup, Finish
<1>10. CASE replace_compose_image \/ ComposePull \/ ComposeUpdate
  BY <1>10 DEF replace_compose_image, ComposePull, ComposeUpdate
<1>11. CASE RecordUpdate \/ ValidateUpdate \/ restore_compose_files
  BY <1>11 DEF RecordUpdate, ValidateUpdate, restore_compose_files, Finish
<1>12. CASE RollbackUp \/ RollbackRecord \/ RollbackValidate
  BY <1>12 DEF RollbackUp, RollbackRecord, RollbackValidate
<1>13. CASE RollbackResult \/ UnlinkRequest \/ InternalError
  BY <1>13 DEF RollbackResult, UnlinkRequest, InternalError, Finish
<1>14. CASE RollbackAlert \/ RetryRollbackAlert \/ RetryUnlink
  BY <1>14 DEF RollbackAlert, RetryRollbackAlert, RetryUnlink
<1>15. CASE ManualCheck \/ ManualCheckFails \/ ManualUp \/ ManualValidate
  BY <1>15 DEF ManualCheck, ManualCheckFails, ManualUp, ManualValidate
<1>16. CASE RecordManual \/ save_runtime_checkpoint \/ RecordFailedManual
            \/ restore_runtime_checkpoint
  BY <1>16
     DEF RecordManual, save_runtime_checkpoint, RecordFailedManual, restore_runtime_checkpoint,
         ManualRecord
<1>17. CASE RecoveryNeeded \/ RecoveryNotNeeded \/ RecoveryUp \/ RecoveryValidate
  BY <1>17 DEF RecoveryNeeded, RecoveryNotNeeded, RecoveryUp, RecoveryValidate
<1>18. CASE RecordRecovery \/ RecordFailedRecovery \/ RecoveryDone \/ RecoveryFailed
  BY <1>18 DEF RecordRecovery, RecordFailedRecovery, RecoveryDone, RecoveryFailed, ManualRecord
<1>19. CASE UNCHANGED vars
  BY <1>19 DEF vars, localVars
<1>. QED
  BY <1>2, <1>3, <1>4, <1>5, <1>6, <1>7, <1>8, <1>9, <1>10, <1>11, <1>12, <1>13, <1>14, <1>15,
     <1>16, <1>17, <1>18, <1>19
     DEF Next, RunnerWork, ManualWork

LEMMA LockInvariant == Spec => []LockHeld
<1>1. Init => LockHeld
  BY NoneAssumption DEF Init, LockHeld, Procs
<1>2. Control => TypeOK
  BY DEF Control
<1>. QED BY <1>1, <1>2, LockStep, ControlInvariant, PTL DEF Spec

\* Only a kill is counted as one.
LEMMA KillsKept ==
  ASSUME RunnerWork \/ RunnerBegin \/ ManualWork \/ \E mode \in Modes : ManualBegin(mode)
  PROVE  UNCHANGED kills
<1> USE DEF Fault, NoFault, Gap, Fails, mishapVars
<1>1. CASE ObserveFails \/ observe_container_recreation \/ SendUnmanagedAlert
        \/ RecordUnmanagedAlert \/ NothingToDo
  BY <1>1
     DEF ObserveFails, observe_container_recreation, SendUnmanagedAlert, RecordUnmanagedAlert,
         NothingToDo, RecordRecreation
<1>2. CASE ReadFails \/ WaitForWindow \/ TakeRequest
        \/ Preflight \/ PreflightRejects
  BY <1>2 DEF ReadFails, WaitForWindow, TakeRequest, Preflight, PreflightRejects
<1>3. CASE verify_already_applied \/ create_backup \/ replace_compose_image
        \/ ComposePull \/ ComposeUpdate
  BY <1>3
     DEF verify_already_applied, create_backup, replace_compose_image, ComposePull, ComposeUpdate
<1>4. CASE RecordUpdate \/ ValidateUpdate \/ restore_compose_files
        \/ RollbackUp \/ RollbackRecord
  BY <1>4
     DEF RecordUpdate, ValidateUpdate, restore_compose_files, RollbackUp, RollbackRecord,
         RecordRecreation
<1>5. CASE RollbackValidate \/ RollbackResult \/ UnlinkRequest
        \/ InternalError \/ RollbackAlert
  BY <1>5
     DEF RollbackValidate, RollbackResult, UnlinkRequest, InternalError, RollbackAlert,
         AlertResult
<1>6. CASE RetryRollbackAlert \/ RetryUnlink
  BY <1>6 DEF RetryRollbackAlert, RetryUnlink, AlertResult
<1>7. CASE ManualCheck \/ ManualCheckFails \/ ManualUp
        \/ ManualValidate \/ RecordManual
  BY <1>7
     DEF ManualCheck, ManualCheckFails, ManualUp, ManualValidate, RecordManual, ManualRecord,
         RecordRecreation
<1>8. CASE save_runtime_checkpoint \/ RecordFailedManual \/ restore_runtime_checkpoint
        \/ RecoveryNeeded \/ RecoveryNotNeeded
  BY <1>8
     DEF save_runtime_checkpoint, RecordFailedManual, restore_runtime_checkpoint, RecoveryNeeded,
         RecoveryNotNeeded, ManualRecord, RecordRecreation
<1>9. CASE RecoveryUp \/ RecoveryValidate \/ RecordRecovery
        \/ RecordFailedRecovery \/ RecoveryDone
  BY <1>9
     DEF RecoveryUp, RecoveryValidate, RecordRecovery, RecordFailedRecovery, RecoveryDone,
         ManualRecord, RecordRecreation
<1>10. CASE RecoveryFailed
  BY <1>10 DEF RecoveryFailed
<1>11. CASE RunnerBegin \/ \E mode \in Modes : ManualBegin(mode)
  BY <1>11 DEF RunnerBegin, ManualBegin
<1>. QED BY <1>1, <1>2, <1>3, <1>4, <1>5, <1>6, <1>7, <1>8, <1>9, <1>10, <1>11
            DEF RunnerWork, ManualWork

\* Four steps of the runner remove the request.
LEMMA OthersKeepRequest ==
  ASSUME RunnerWork, request' # request
  PROVE  UnlinkRequest \/ RetryUnlink \/ ReadFails \/ InternalError
BY DEF RunnerWork, fileVars,
       ObserveFails, observe_container_recreation, SendUnmanagedAlert, RecordUnmanagedAlert,
       NothingToDo, WaitForWindow, TakeRequest, Preflight, PreflightRejects, verify_already_applied,
       create_backup, replace_compose_image, ComposePull, ComposeUpdate, RecordUpdate,
       ValidateUpdate, restore_compose_files, RollbackUp, RollbackRecord, RollbackValidate,
       RollbackResult, RollbackAlert, RetryRollbackAlert

\* The runner is done with a request when it removes it.
LEMMA RequestDone ==
  ASSUME TypeOK, RunnerWork, pc["runner"] \in Carrying \ {"preflight"}
  PROVE  /\ pc'["runner"] \in Carrying \ {"preflight"} \/ request' = None
         /\ pc["runner"] = "unlink" => request' = None
<1>1. pc \in [Procs -> RunnerLabels \cup ManualLabels] /\ "runner" \in Procs
  BY DEF TypeOK, Procs
<1> USE <1>1 DEF Carrying, At, Goto, Exit
<1>2. CASE ObserveFails \/ observe_container_recreation \/ SendUnmanagedAlert
           \/ RecordUnmanagedAlert
  BY <1>2 DEF ObserveFails, observe_container_recreation, SendUnmanagedAlert, RecordUnmanagedAlert
<1>3. CASE NothingToDo \/ ReadFails \/ WaitForWindow \/ TakeRequest
  BY <1>3 DEF NothingToDo, ReadFails, WaitForWindow, TakeRequest
<1>4. CASE Preflight \/ PreflightRejects \/ verify_already_applied \/ create_backup
  BY <1>4 DEF Preflight, PreflightRejects, verify_already_applied, create_backup, Finish
<1>5. CASE replace_compose_image \/ ComposePull \/ ComposeUpdate \/ RecordUpdate
  BY <1>5 DEF replace_compose_image, ComposePull, ComposeUpdate, RecordUpdate
<1>6. CASE ValidateUpdate \/ restore_compose_files \/ RollbackUp \/ RollbackRecord
  BY <1>6 DEF ValidateUpdate, restore_compose_files, RollbackUp, RollbackRecord, Finish
<1>7. CASE RollbackValidate \/ RollbackResult \/ UnlinkRequest \/ InternalError
  BY <1>7 DEF RollbackValidate, RollbackResult, UnlinkRequest, InternalError, Finish
<1>8. CASE RollbackAlert \/ RetryRollbackAlert \/ RetryUnlink
  BY <1>8 DEF RollbackAlert, RetryRollbackAlert, RetryUnlink
<1>. QED BY <1>2, <1>3, <1>4, <1>5, <1>6, <1>7, <1>8 DEF RunnerWork

\* Without a kill no step writes a second outcome for a request, or lets a
\* request wait that has one.
LEMMA FreshStep == Control /\ Fresh /\ [Next]_vars => Fresh'
<1> SUFFICES ASSUME Control, Fresh, [Next]_vars, kills' = 0 PROVE Fresh'
  BY DEF Fresh
<1>1. /\ TypeOK /\ RunnerLocals /\ "runner" \in Procs /\ NoEntry.status = None
      /\ published \in 0..MaxRequests /\ kills \in Nat /\ MaxRequests \in Nat
  BY UpdateBounds DEF Control, Locals, TypeOK, Procs, NoEntry
<1>2. RunnerLocals'
  BY RunnerLocalsStep
<1>3. kills = 0 \/ \E p \in Procs : Killed(p)
  <2>1. CASE RunnerWork \/ RunnerBegin \/ ManualWork \/ \E mode \in Modes : ManualBegin(mode)
    BY <2>1, KillsKept
  <2>2. CASE Api \/ Outside
    BY <2>2, <1>1, OthersLeave
  <2>. QED BY <2>1, <2>2 DEF Next, vars, mishapVars
<1>4. \A p \in Procs : ~Killed(p)
  BY <1>1 DEF Killed
<1>5. kills = 0
  BY <1>3, <1>4
<1>6. /\ \A r \in 1..MaxRequests : r > published => hist[r] = NoEntry
      /\ request # None =>
           /\ request.id <= published
           /\ pc["runner"] \notin Carrying \ {"preflight"} => hist[request.id] = NoEntry
      /\ pc["runner"] \in Carrying \ {"unlink"} => hist[job.req.id].status \in {None, "running"}
      /\ pc["runner"] \in Carrying => request = job.req /\ request \in Request
  BY <1>1, <1>5 DEF Fresh, RunnerLocals
<1>7. CASE ManualWork \/ \E mode \in Modes : ManualBegin(mode)
  BY <1>1, <1>6, <1>7, ManualLeaves DEF Fresh
<1>8. CASE Outside
  BY <1>1, <1>4, <1>6, <1>8, OthersLeave DEF Fresh
<1>9. CASE publish_request
  <2>1. CASE request = None
    <3>1. /\ request' = [id |-> published + 1, op |-> api.op, target |-> api.target,
                         src |-> api.src]
          /\ published' = published + 1 /\ published + 1 \in 1..MaxRequests
          /\ UNCHANGED <<hist, pc, job>>
      BY <1>1, <1>9, <2>1 DEF publish_request, localVars, Control, Locals, Pending
    <3>2. pc["runner"] \notin Carrying
      BY <1>6, <2>1, NoRequestAssumption
    <3>3. request'.id = published + 1
      BY <3>1
    <3>4. \A r \in 1..MaxRequests : r > published + 1 => hist[r] = NoEntry
      BY <1>1, <1>6
    <3>5. hist[published + 1] = NoEntry /\ published + 1 <= published + 1
      BY <1>1, <1>6, <3>1
    <3>. QED BY <3>1, <3>2, <3>3, <3>4, <3>5 DEF Fresh
  <2>2. CASE request # None
    BY <1>6, <1>9, <2>2 DEF publish_request, localVars, Fresh
  <2>. QED BY <2>1, <2>2
<1>10. ASSUME NEW v \in Versions, request_traefik_patch_update(v) PROVE Fresh'
  BY <1>6, <1>10 DEF request_traefik_patch_update, fileVars, localVars, Fresh
<1>11. ASSUME NEW r \in 1..MaxRequests, retry_traefik_rollback_alert(r) PROVE Fresh'
  BY <1>6, <1>11 DEF retry_traefik_rollback_alert, fileVars, localVars, Fresh
<1>12. CASE RunnerBegin
  <2>1. /\ pc["runner"] = "idle" /\ pc'["runner"] = "observe"
        /\ UNCHANGED <<request, hist, published>>
    BY <1>1, <1>12 DEF RunnerBegin, Goto, fileVars, envVars, TypeOK
  <2>. QED BY <1>6, <2>1 DEF Fresh, Carrying
<1>13. CASE RunnerWork
  <2>1. request' \in {request, None} /\ published' = published
    BY <1>1, <1>13, RequestKept, RunnerLeaves
  <2>2. pc'["runner"] \in Carrying => request' = job'.req /\ request' \in Request
    BY <1>2 DEF RunnerLocals
  <2>3. CASE Quiet
    <3>1. UNCHANGED hist
      BY <2>3 DEF Quiet
    <3>2. CASE request' = None
      BY <1>6, <2>1, <2>2, <3>1, <3>2, NoRequestAssumption DEF Fresh
    <3>3. CASE request' = request /\ request # None
      <4>1. pc["runner"] \in Carrying \ {"preflight"} =>
              pc'["runner"] \in Carrying \ {"preflight"} /\ pc["runner"] # "unlink"
        BY <1>1, <1>13, <3>3, RequestDone
      <4>2. pc'["runner"] \in Carrying => hist[request.id].status \in {None, "running"}
        BY <1>1, <1>6, <3>3, <4>1
      <4>. QED BY <1>6, <2>1, <2>2, <3>1, <3>3, <4>1, <4>2 DEF Fresh
    <3>. QED BY <2>1, <3>2, <3>3
  <2>4. CASE Outcome
    <3>1. /\ pc["runner"] \in Carrying \ {"unlink"} /\ pc'["runner"] \in {"backup", "unlink"}
          /\ pc'["runner"] = "backup" => hist'[job.req.id].status = "running"
          /\ job'.req = job.req /\ request' = request
          /\ \A r \in 1..MaxRequests : r # job.req.id => hist'[r] = hist[r]
      BY <2>4, NoneAssumption DEF Outcome, Carrying
    <3>2. request = job.req /\ request # None /\ request.id \in Nat /\ request.id <= published
      BY <1>6, <3>1, NoRequestAssumption DEF Request
    <3>3. \A r \in 1..MaxRequests : r > published => hist'[r] = NoEntry
      BY <1>1, <1>6, <3>1, <3>2
    <3>. QED BY <2>1, <3>1, <3>2, <3>3 DEF Fresh, Carrying
  <2>5. CASE AlertOutcome
    <3>1. PICK r \in 1..MaxRequests :
            /\ pc["runner"] \in {"alert", "retry"} /\ pc'["runner"] \in {"idle", "retry_unlink"}
            /\ hist[r].status = "rollback_failed"
            /\ \A q \in 1..MaxRequests : q # r => hist'[q] = hist[q]
      BY <2>5 DEF AlertOutcome
    <3>2. hist[r] # NoEntry
      BY <1>1, <3>1, NoneAssumption
    <3>3. \A q \in 1..MaxRequests : hist[q] = NoEntry => hist'[q] = NoEntry
      BY <3>1, <3>2
    <3>4. request # None => request \in Request /\ request.id \in 1..MaxRequests
      BY <1>1 DEF TypeOK, Request
    <3>. QED BY <1>6, <2>1, <3>1, <3>3, <3>4 DEF Fresh, Carrying
  <2>. QED BY <2>3, <2>4, <2>5, HistoryChanges
<1>14. CASE UNCHANGED vars
  BY <1>6, <1>14 DEF vars, fileVars, localVars, envVars, Fresh
<1>. QED
  BY <1>7, <1>8, <1>9, <1>10, <1>11, <1>12, <1>13, <1>14 DEF Next, Api

LEMMA FreshInvariant == Spec => []Fresh
<1>1. Init => Fresh
  BY DEF Init, Fresh, Procs, Carrying
<1>. QED BY <1>1, FreshStep, ControlInvariant, PTL DEF Spec

\* A request has one outcome: without a kill between the outcome and the
\* removal of the request none is carried out again, and none disappears
\* before it has one but in a run that failed.
THEOREM RequestsHaveOneOutcome == Spec => OneOutcome
<1> DEFINE Once ==
      /\ kills = 0 => \A r \in 1..MaxRequests :
           hist[r].status \in Final => hist'[r].status = hist[r].status
      /\ (request # None /\ request' # request /\ request.op = "update" /\ faults' = 0) =>
           hist[request.id].status \in Final
<1>1. Control /\ Fresh /\ [Next]_vars => Once
  <2> SUFFICES ASSUME Control, Fresh, [Next]_vars PROVE Once
    OBVIOUS
  <2>1. TypeOK /\ RunnerLocals /\ Recorded
    BY DEF Control, Locals
  <2>2. ASSUME kills = 0, NEW r \in 1..MaxRequests, hist[r].status \in Final
        PROVE  hist'[r].status = hist[r].status
    <3>1. CASE Quiet
      BY <3>1 DEF Quiet
    <3>2. CASE AlertOutcome
      BY <3>2 DEF AlertOutcome
    <3>3. CASE Outcome
      <4>1. hist[job.req.id].status \in {None, "running"}
        BY <2>2, <3>3 DEF Fresh, Outcome, Carrying
      <4>2. r # job.req.id
        BY <2>2, <4>1, NoneAssumption DEF Final
      <4>. QED BY <3>3, <4>2 DEF Outcome
    <3>. QED BY <3>1, <3>2, <3>3, HistoryChanges
  <2>3. ASSUME request # None, request' # request, request.op = "update", faults' = 0
        PROVE  hist[request.id].status \in Final
    <3>1. faults \in Nat /\ ~Fault
      BY <2>1, <2>3 DEF TypeOK, Fault
    <3>2. CASE RunnerWork
      <4>1. UnlinkRequest \/ RetryUnlink
        <5>1. ~ReadFails /\ ~InternalError
          BY <3>1 DEF ReadFails, InternalError
        <5>. QED BY <2>3, <3>2, <5>1, OthersKeepRequest
      <4>2. CASE UnlinkRequest
        BY <2>1, <4>2 DEF UnlinkRequest, RunnerLocals, Recorded, Carrying, At
      <4>3. CASE RetryUnlink
        BY <2>1, <2>3, <4>3 DEF RetryUnlink, RunnerLocals, Carrying, Retrying, At
      <4>. QED BY <4>1, <4>2, <4>3
    <3>3. CASE ManualWork \/ \E mode \in Modes : ManualBegin(mode)
      BY <2>1, <2>3, <3>3, ManualLeaves
    <3>4. CASE Outside
      BY <2>1, <2>3, <3>4, OthersLeave
    <3>5. CASE Api
      BY <2>3, <3>5 DEF Api, publish_request, request_traefik_patch_update,
                        retry_traefik_rollback_alert, fileVars
    <3>6. CASE RunnerBegin \/ UNCHANGED vars
      BY <2>3, <3>6 DEF RunnerBegin, vars, fileVars
    <3>. QED BY <3>2, <3>3, <3>4, <3>5, <3>6 DEF Next
  <2>. QED BY <2>2, <2>3
<1>2. [](Control /\ Fresh) /\ [][Next]_vars => OneOutcome
  BY <1>1, PTL DEF OneOutcome, OutcomeFinal, NoRequestLost, Once
<1>. QED BY <1>2, ControlInvariant, FreshInvariant, PTL DEF Spec

\* An alert that got through is not sent again, and no outcome written later
\* takes its place.
THEOREM AlertsStaySent == Spec => SentAlertStays
<1> DEFINE Sent ==
      \A r \in 1..MaxRequests :
        hist[r].alert = "requested" /\ hist[r].status = "rollback_failed" /\ kills = 0 =>
          hist'[r].alert = "requested"
<1>1. Control /\ Fresh /\ [Next]_vars => Sent
  <2> SUFFICES ASSUME Control, Fresh, [Next]_vars, NEW r \in 1..MaxRequests,
                      hist[r].alert = "requested", hist[r].status = "rollback_failed", kills = 0
               PROVE  hist'[r].alert = "requested"
    OBVIOUS
  <2>1. RunnerLocals /\ Recorded
    BY DEF Control, Locals
  <2>2. CASE Quiet
    BY <2>2 DEF Quiet
  <2>3. CASE Outcome
    <3>1. hist[job.req.id].status \in {None, "running"}
      BY <2>3 DEF Fresh, Outcome, Carrying
    <3>2. r # job.req.id
      BY <3>1, NoneAssumption
    <3>. QED BY <2>3, <3>2 DEF Outcome
  <2>4. CASE AlertOutcome
    BY <2>1, <2>4 DEF AlertOutcome, Recorded
  <2>. QED BY <2>2, <2>3, <2>4, HistoryChanges
<1>2. [](Control /\ Fresh) /\ [][Next]_vars => SentAlertStays
  BY <1>1, PTL DEF SentAlertStays, Sent
<1>. QED BY <1>2, ControlInvariant, FreshInvariant, PTL DEF Spec

\* A recovery that failed is not forgotten by later outcomes of other
\* requests.
LEMMA FailureKept ==
  ASSUME Control, Fresh, [Next]_vars, kills = 0
  PROVE  UpdateRollbackFailed => UpdateRollbackFailed'
<1> SUFFICES ASSUME NEW r \in 1..MaxRequests, hist[r].status = "rollback_failed"
             PROVE  hist'[r].status = "rollback_failed"
  BY DEF UpdateRollbackFailed
<1>1. CASE Quiet
  BY <1>1 DEF Quiet
<1>2. CASE AlertOutcome
  BY <1>2 DEF AlertOutcome
<1>3. CASE Outcome
  <2>1. hist[job.req.id].status \in {None, "running"}
    BY <1>3 DEF Fresh, Outcome, Carrying
  <2>2. r # job.req.id
    BY <2>1, NoneAssumption
  <2>. QED BY <1>3, <2>2 DEF Outcome
<1>. QED BY <1>1, <1>2, <1>3, HistoryChanges

\* Only a container that was found healthy becomes the checkpoint.
LEMMA CheckpointStep == Control /\ LockHeld /\ Checkpoint /\ [Next]_vars => Checkpoint'
<1> SUFFICES ASSUME Control, LockHeld, Checkpoint, [Next]_vars PROVE Checkpoint'
  OBVIOUS
<1>a. /\ TypeOK /\ pc \in [Procs -> RunnerLabels \cup ManualLabels] /\ Procs = {"runner", "manual"}
      /\ outside \in Nat /\ kills \in Nat
  BY DEF Control, TypeOK, Procs
<1>b. pc["runner"] = "idle" \/ pc["manual"] = "idle"
  BY NoneAssumption DEF LockHeld, Procs
<1> USE <1>a, <1>b
<1> USE DEF At, Goto, Exit, Fault, NoFault, Gap, Fails, fileVars, localVars, envVars, mishapVars,
            Checkpoint, Healthy
<1>1. ASSUME NEW v \in Versions, request_traefik_patch_update(v) PROVE Checkpoint'
  BY <1>1 DEF request_traefik_patch_update
<1>2. ASSUME NEW r \in 1..MaxRequests, retry_traefik_rollback_alert(r) PROVE Checkpoint'
  BY <1>2 DEF retry_traefik_rollback_alert
<1>3. CASE publish_request
  BY <1>3 DEF publish_request
<1>4. CASE RunnerBegin
  BY <1>4 DEF RunnerBegin
<1>5. CASE ObserveFails
  BY <1>5 DEF ObserveFails
<1>6. CASE observe_container_recreation
  BY <1>6 DEF observe_container_recreation
<1>7. CASE SendUnmanagedAlert
  BY <1>7 DEF SendUnmanagedAlert
<1>8. CASE RecordUnmanagedAlert
  BY <1>8 DEF RecordUnmanagedAlert
<1>9. CASE NothingToDo
  BY <1>9 DEF NothingToDo
<1>10. CASE ReadFails
  BY <1>10 DEF ReadFails
<1>11. CASE WaitForWindow
  BY <1>11 DEF WaitForWindow
<1>12. CASE TakeRequest
  BY <1>12 DEF TakeRequest
<1>13. CASE Preflight
  BY <1>13 DEF Preflight
<1>14. CASE PreflightRejects
  BY <1>14 DEF PreflightRejects, Finish
<1>15. CASE verify_already_applied
  BY <1>15 DEF verify_already_applied, Finish
<1>16. CASE create_backup
  BY <1>16 DEF create_backup, Finish
<1>17. CASE replace_compose_image
  BY <1>17 DEF replace_compose_image
<1>18. CASE ComposePull
  BY <1>18 DEF ComposePull
<1>19. CASE ComposeUpdate
  BY <1>19 DEF ComposeUpdate
<1>20. CASE RecordUpdate
  BY <1>20 DEF RecordUpdate
<1>21. CASE ValidateUpdate
  BY <1>21 DEF ValidateUpdate, Finish
<1>22. CASE restore_compose_files
  BY <1>22 DEF restore_compose_files
<1>23. CASE RollbackUp
  BY <1>23 DEF RollbackUp
<1>24. CASE RollbackRecord
  BY <1>24 DEF RollbackRecord
<1>25. CASE RollbackValidate
  BY <1>25 DEF RollbackValidate
<1>26. CASE RollbackResult
  BY <1>26 DEF RollbackResult, Finish
<1>27. CASE UnlinkRequest
  BY <1>27 DEF UnlinkRequest
<1>28. CASE InternalError
  BY <1>28 DEF InternalError
<1>29. CASE RollbackAlert
  BY <1>29 DEF RollbackAlert
<1>30. CASE RetryRollbackAlert
  BY <1>30 DEF RetryRollbackAlert
<1>31. CASE RetryUnlink
  BY <1>31 DEF RetryUnlink
<1>32. ASSUME NEW mode \in Modes, ManualBegin(mode) PROVE Checkpoint'
  BY <1>32 DEF ManualBegin
<1>33. CASE ManualCheck
  BY <1>33 DEF ManualCheck, CheckpointPossible
<1>34. CASE ManualCheckFails
  BY <1>34 DEF ManualCheckFails
<1>35. CASE ManualUp
  BY <1>35 DEF ManualUp
<1>36. CASE ManualValidate
  BY <1>36 DEF ManualValidate, ManualValid, ValidateRuntime
<1>37. CASE RecordManual
  BY <1>37 DEF RecordManual, ManualRecord
<1>38. CASE save_runtime_checkpoint
  BY <1>38 DEF save_runtime_checkpoint
<1>39. CASE RecordFailedManual
  BY <1>39 DEF RecordFailedManual, ManualRecord
<1>40. CASE restore_runtime_checkpoint
  BY <1>40 DEF restore_runtime_checkpoint
<1>41. CASE RecoveryNeeded
  BY <1>41 DEF RecoveryNeeded
<1>42. CASE RecoveryNotNeeded
  BY <1>42 DEF RecoveryNotNeeded
<1>43. CASE RecoveryUp
  BY <1>43 DEF RecoveryUp
<1>44. CASE RecoveryValidate
  BY <1>44 DEF RecoveryValidate
<1>45. CASE RecordRecovery
  BY <1>45 DEF RecordRecovery, ManualRecord
<1>46. CASE RecordFailedRecovery
  BY <1>46 DEF RecordFailedRecovery, ManualRecord
<1>47. CASE RecoveryDone
  BY <1>47 DEF RecoveryDone
<1>48. CASE RecoveryFailed
  BY <1>48 DEF RecoveryFailed
<1>49. ASSUME NEW c \in Config, EditCompose(c) PROVE Checkpoint'
  BY <1>49 DEF EditCompose
<1>50. CASE DirectRecreate
  BY <1>50 DEF DirectRecreate
<1>51. CASE ClockTick
  BY <1>51 DEF ClockTick
<1>52. ASSUME NEW p \in Procs, Killed(p) PROVE Checkpoint'
  BY <1>52 DEF Killed
<1>53. CASE UNCHANGED vars
  BY <1>53 DEF vars
<1>. QED
  BY <1>1, <1>2, <1>3, <1>4, <1>5, <1>6, <1>7, <1>8, <1>9, <1>10, <1>11, <1>12, <1>13, <1>14,
     <1>15, <1>16, <1>17, <1>18, <1>19, <1>20, <1>21, <1>22, <1>23, <1>24, <1>25, <1>26, <1>27,
     <1>28, <1>29, <1>30, <1>31, <1>32, <1>33, <1>34, <1>35, <1>36, <1>37, <1>38, <1>39, <1>40,
     <1>41, <1>42, <1>43, <1>44, <1>45, <1>46, <1>47, <1>48, <1>49, <1>50, <1>51, <1>52, <1>53
     DEF Next, Api, RunnerWork, ManualWork, Outside

\* The container and the Compose file part only while an update or a rollback
\* is under way.
LEMMA SettledStep == Control /\ LockHeld /\ Fresh /\ Settled /\ [Next]_vars => Settled'
<1> SUFFICES ASSUME Control, LockHeld, Fresh, Settled, [Next]_vars PROVE Settled'
  OBVIOUS
<1>a. /\ TypeOK /\ pc \in [Procs -> RunnerLabels \cup ManualLabels] /\ Procs = {"runner", "manual"}
      /\ outside \in Nat /\ kills \in Nat
  BY DEF Control, TypeOK, Procs
<1>b. pc["runner"] = "idle" \/ pc["manual"] = "idle"
  BY NoneAssumption DEF LockHeld, Procs
<1>c. UpdateRollbackFailed => UpdateRollbackFailed' \/ kills # 0
  BY FailureKept
<1>d. job \in Job /\ RunnerLocals
  BY DEF Control, Locals, TypeOK, Job
<1> USE <1>a, <1>b, <1>c, <1>d
<1> USE DEF At, Goto, Exit, Fault, NoFault, Gap, Fails, fileVars, localVars, envVars, mishapVars,
            Settled, Agree, Consistent, Healthy, Undisturbed, RollbackFailed, Restorable
<1>1. ASSUME NEW v \in Versions, request_traefik_patch_update(v) PROVE Settled'
  BY <1>1 DEF request_traefik_patch_update
<1>2. ASSUME NEW r \in 1..MaxRequests, retry_traefik_rollback_alert(r) PROVE Settled'
  BY <1>2 DEF retry_traefik_rollback_alert
<1>3. CASE publish_request
  BY <1>3 DEF publish_request
<1>4. CASE RunnerBegin
  BY <1>4 DEF RunnerBegin
<1>5. CASE ObserveFails
  BY <1>5 DEF ObserveFails
<1>6. CASE observe_container_recreation
  BY <1>6 DEF observe_container_recreation
<1>7. CASE SendUnmanagedAlert
  BY <1>7 DEF SendUnmanagedAlert
<1>8. CASE RecordUnmanagedAlert
  BY <1>8 DEF RecordUnmanagedAlert
<1>9. CASE NothingToDo
  BY <1>9 DEF NothingToDo
<1>10. CASE ReadFails
  BY <1>10 DEF ReadFails
<1>11. CASE WaitForWindow
  BY <1>11 DEF WaitForWindow
<1>12. CASE TakeRequest
  BY <1>12 DEF TakeRequest
<1>13. CASE Preflight
  BY <1>13 DEF Preflight
<1>14. CASE PreflightRejects
  BY <1>14 DEF PreflightRejects, Finish
<1>15. CASE verify_already_applied
  BY <1>15 DEF verify_already_applied, Finish
<1>16. CASE create_backup
  BY <1>16 DEF create_backup, Finish
<1>17. CASE replace_compose_image
  BY <1>17 DEF replace_compose_image
<1>18. CASE ComposePull
  BY <1>18 DEF ComposePull
<1>19. CASE ComposeUpdate
  BY <1>19 DEF ComposeUpdate, ComposeUp
<1>20. CASE RecordUpdate
  BY <1>20 DEF RecordUpdate, RecordRecreation
<1>21. CASE ValidateUpdate
  BY <1>21 DEF ValidateUpdate, Finish, ValidateRuntime
<1>22. CASE restore_compose_files
  BY <1>22 DEF restore_compose_files, Job
<1>23. CASE RollbackUp
  <2>1. \/ pc'["runner"] = "rb_record" /\ container'.cfg = compose
        \/ pc'["runner"] = "rb_result" /\ job'.result = "rollback_failed"
    <3>1. CASE pc'["runner"] = "rb_record" /\ ComposeUp(FALSE)
      BY <3>1 DEF ComposeUp, TypeOK
    <3>2. CASE pc'["runner"] = "rb_result"
      BY <1>23, <3>2 DEF RollbackUp, Job
    <3>. QED BY <1>23, <3>1, <3>2 DEF RollbackUp
  <2>2. /\ pc["runner"] = "rb_up" /\ pc'["manual"] = pc["manual"]
        /\ UNCHANGED <<compose, recovery, ckpt, hist, outside, kills>>
    BY <1>23 DEF RollbackUp
  <2>. QED BY <2>1, <2>2
<1>24. CASE RollbackRecord
  BY <1>24 DEF RollbackRecord, RecordRecreation
<1>25. CASE RollbackValidate
  BY <1>25 DEF RollbackValidate, ValidateRuntime, Job
<1>26. CASE RollbackResult
  <2>1. /\ job.result \in {"rolled_back", "rollback_failed"}
        /\ job.req \in Request /\ job.from \in Versions
    BY <1>26 DEF RollbackResult, RunnerLocals, Carrying
  <2>2. /\ pc["runner"] = "rb_result" /\ pc'["runner"] = "unlink" /\ pc'["manual"] = pc["manual"]
        /\ UNCHANGED <<compose, container, ckpt, job, outside, kills>>
        /\ recovery' \in {recovery, job.result}
    BY <1>26 DEF RollbackResult, Finish
  <2>3. hist'[job.req.id].status = job.result /\ job.req.id \in 1..MaxRequests
    BY <1>26, <2>1, <2>2, HistoryWritten DEF RollbackResult, Finish, Final, Alerts, Request
  <2>4. job.result = "rollback_failed" => UpdateRollbackFailed'
    BY <2>3 DEF UpdateRollbackFailed
  <2>. QED BY <2>1, <2>2, <2>4
<1>27. CASE UnlinkRequest
  BY <1>27 DEF UnlinkRequest
<1>28. CASE InternalError
  BY <1>28 DEF InternalError, RunnerLocals
<1>29. CASE RollbackAlert
  BY <1>29 DEF RollbackAlert, AlertResult
<1>30. CASE RetryRollbackAlert
  BY <1>30 DEF RetryRollbackAlert, AlertResult
<1>31. CASE RetryUnlink
  BY <1>31 DEF RetryUnlink
<1>32. ASSUME NEW mode \in Modes, ManualBegin(mode) PROVE Settled'
  BY <1>32 DEF ManualBegin
<1>33. CASE ManualCheck
  BY <1>33 DEF ManualCheck, CheckpointPossible
<1>34. CASE ManualCheckFails
  BY <1>34 DEF ManualCheckFails
<1>35. CASE ManualUp
  BY <1>35 DEF ManualUp, ComposeUp
<1>36. CASE ManualValidate
  BY <1>36 DEF ManualValidate, ManualValid, ValidateRuntime
<1>37. CASE RecordManual
  BY <1>37 DEF RecordManual, ManualRecord, RecordRecreation
<1>38. CASE save_runtime_checkpoint
  BY <1>38 DEF save_runtime_checkpoint
<1>39. CASE RecordFailedManual
  BY <1>39 DEF RecordFailedManual, ManualRecord, RecordRecreation
<1>40. CASE restore_runtime_checkpoint
  BY <1>40 DEF restore_runtime_checkpoint
<1>41. CASE RecoveryNeeded
  BY <1>41 DEF RecoveryNeeded
<1>42. CASE RecoveryNotNeeded
  BY <1>42 DEF RecoveryNotNeeded, ManualValid, ValidateRuntime
<1>43. CASE RecoveryUp
  BY <1>43 DEF RecoveryUp, ComposeUp
<1>44. CASE RecoveryValidate
  BY <1>44 DEF RecoveryValidate, ManualValid, ValidateRuntime
<1>45. CASE RecordRecovery
  BY <1>45 DEF RecordRecovery, ManualRecord, RecordRecreation
<1>46. CASE RecordFailedRecovery
  BY <1>46 DEF RecordFailedRecovery, ManualRecord, RecordRecreation
<1>47. CASE RecoveryDone
  BY <1>47 DEF RecoveryDone
<1>48. CASE RecoveryFailed
  BY <1>48 DEF RecoveryFailed
<1>49. ASSUME NEW c \in Config, EditCompose(c) PROVE Settled'
  BY <1>49 DEF EditCompose
<1>50. CASE DirectRecreate
  BY <1>50 DEF DirectRecreate
<1>51. CASE ClockTick
  BY <1>51 DEF ClockTick
<1>52. ASSUME NEW p \in Procs, Killed(p) PROVE Settled'
  BY <1>52 DEF Killed
<1>53. CASE UNCHANGED vars
  BY <1>53 DEF vars
<1>. QED
  BY <1>1, <1>2, <1>3, <1>4, <1>5, <1>6, <1>7, <1>8, <1>9, <1>10, <1>11, <1>12, <1>13, <1>14,
     <1>15, <1>16, <1>17, <1>18, <1>19, <1>20, <1>21, <1>22, <1>23, <1>24, <1>25, <1>26, <1>27,
     <1>28, <1>29, <1>30, <1>31, <1>32, <1>33, <1>34, <1>35, <1>36, <1>37, <1>38, <1>39, <1>40,
     <1>41, <1>42, <1>43, <1>44, <1>45, <1>46, <1>47, <1>48, <1>49, <1>50, <1>51, <1>52, <1>53
     DEF Next, Api, RunnerWork, ManualWork, Outside

\* A container that was just created has not been reported.
LEMMA UpNotReported ==
  ASSUME TypeOK, Unmanaged, NEW force \in BOOLEAN, ComposeUp(force) \/ UNCHANGED container,
         recre' = recre
  PROVE  /\ \A l \in recre' : l.id <= container'.id
         /\ \/ UNCHANGED container /\ (ReportedUnmanaged' <=> ReportedUnmanaged)
            \/ ~ReportedUnmanaged' /\ container'.by = "tool" /\ container'.id = container.id + 1
<1>1. \A l \in recre : l.id \in Nat /\ l.id <= container.id
  BY DEF TypeOK, Unmanaged
<1>2. container.id \in Nat
  BY DEF TypeOK
<1>3. CASE UNCHANGED container
  BY <1>1, <1>3 DEF ReportedUnmanaged
<1>4. CASE container'.id = container.id + 1 /\ container'.by = "tool"
  <2>1. \A a \in Alerts : line(container'.id, "unmanaged", a) \notin recre'
    BY <1>1, <1>2, <1>4 DEF line
  <2>2. ~ReportedUnmanaged'
    BY <2>1 DEF ReportedUnmanaged
  <2>3. \A l \in recre' : l.id <= container'.id
    BY <1>1, <1>2, <1>4
  <2>. QED BY <1>4, <2>2, <2>3
<1>5. \/ container' = container
      \/ container'.id = container.id + 1 /\ container'.by = "tool"
  BY DEF ComposeUp
<1>. QED BY <1>3, <1>4, <1>5

\* The lines the tools write about their own recreations report nobody.
LEMMA RecordNotReported ==
  ASSUME TypeOK, Unmanaged, NEW prev \in Nat, RecordRecreation(prev), container' = container
  PROVE  /\ \A l \in recre' : l.id <= container'.id
         /\ ReportedUnmanaged' <=> ReportedUnmanaged
         /\ (base' = container.id /\ gaps' = gaps) \/ gaps' = gaps + 1
         /\ faults' = faults /\ kills' = kills
<1>1. \A l \in recre : l.id \in Nat /\ l.id <= container.id
  BY DEF TypeOK, Unmanaged
<1>2. container.id \in Nat
  BY DEF TypeOK
<1>3. recre' \in {recre, recre \cup {line(container.id, "managed", "not_needed")}}
  BY DEF RecordRecreation
<1>4. \A a \in Alerts :
        line(container.id, "unmanaged", a) \in recre'
          <=> line(container.id, "unmanaged", a) \in recre
  BY <1>3 DEF line
<1>5. \A l \in recre' : l.id <= container'.id
  BY <1>1, <1>2, <1>3 DEF line
<1>6. ReportedUnmanaged' <=> ReportedUnmanaged
  BY <1>4 DEF ReportedUnmanaged
<1>7. /\ (base' = container.id /\ gaps' = gaps) \/ gaps' = gaps + 1
      /\ faults' = faults /\ kills' = kills
  BY DEF RecordRecreation, Gap, NoFault, mishapVars
<1>. QED BY <1>5, <1>6, <1>7

\* Whoever recreates the container moves the base line before the runner
\* observes again.
LEMMA UnmanagedStep == Control /\ LockHeld /\ Fresh /\ Unmanaged /\ [Next]_vars => Unmanaged'
<1> SUFFICES ASSUME Control, LockHeld, Fresh, Unmanaged, [Next]_vars PROVE Unmanaged'
  OBVIOUS
<1>a. /\ TypeOK /\ pc \in [Procs -> RunnerLabels \cup ManualLabels] /\ Procs = {"runner", "manual"}
      /\ outside \in Nat /\ kills \in Nat
  BY DEF Control, TypeOK, Procs
<1>b. pc["runner"] = "idle" \/ pc["manual"] = "idle"
  BY NoneAssumption DEF LockHeld, Procs
<1>c. UpdateRollbackFailed => UpdateRollbackFailed' \/ kills # 0
  BY FailureKept
<1>d. /\ job \in Job /\ mjob \in Manual /\ RunnerLocals
      /\ faults \in Nat /\ gaps \in Nat /\ container.id \in Nat
  BY DEF Control, Locals, TypeOK, Job, Manual
<1>e. recre' = recre /\ container' = container => (ReportedUnmanaged' <=> ReportedUnmanaged)
  BY DEF ReportedUnmanaged
<1> USE <1>a, <1>b, <1>c, <1>d, <1>e
<1> USE DEF At, Goto, Exit, Fault, NoFault, Gap, Fails, fileVars, localVars, envVars, mishapVars,
            Unmanaged, Accountable, RecordDue
<1>1. ASSUME NEW v \in Versions, request_traefik_patch_update(v) PROVE Unmanaged'
  BY <1>1 DEF request_traefik_patch_update
<1>2. ASSUME NEW r \in 1..MaxRequests, retry_traefik_rollback_alert(r) PROVE Unmanaged'
  BY <1>2 DEF retry_traefik_rollback_alert
<1>3. CASE publish_request
  BY <1>3 DEF publish_request
<1>4. CASE RunnerBegin
  BY <1>4 DEF RunnerBegin
<1>5. CASE ObserveFails
  BY <1>5 DEF ObserveFails
<1>6. CASE observe_container_recreation
  BY <1>6 DEF observe_container_recreation, Job, line
<1>7. CASE SendUnmanagedAlert
  BY <1>7 DEF SendUnmanagedAlert, Job
<1>8. CASE RecordUnmanagedAlert
  <2>1. job.result \in Alerts /\ line(job.prev, "unmanaged", "pending") \in recre
    BY <1>8 DEF RecordUnmanagedAlert, RunnerLocals, Alerts
  <2>2. recre' \in {recre, recre \cup {line(job.prev, "unmanaged", job.result)}}
    BY <1>8 DEF RecordUnmanagedAlert
  <2>3. job.prev = container.id => ReportedUnmanaged
    BY <2>1 DEF ReportedUnmanaged, Alerts
  <2>4. ReportedUnmanaged' => ReportedUnmanaged
    BY <1>8, <2>2, <2>3 DEF RecordUnmanagedAlert, ReportedUnmanaged, line
  <2>5. \A l \in recre' : l.id <= container'.id
    BY <1>8, <2>1, <2>2 DEF RecordUnmanagedAlert, line
  <2>. QED BY <1>8, <2>4, <2>5 DEF RecordUnmanagedAlert
<1>9. CASE NothingToDo
  BY <1>9 DEF NothingToDo
<1>10. CASE ReadFails
  BY <1>10 DEF ReadFails
<1>11. CASE WaitForWindow
  BY <1>11 DEF WaitForWindow
<1>12. CASE TakeRequest
  BY <1>12 DEF TakeRequest
<1>13. CASE Preflight
  BY <1>13 DEF Preflight
<1>14. CASE PreflightRejects
  BY <1>14 DEF PreflightRejects, Finish
<1>15. CASE verify_already_applied
  BY <1>15 DEF verify_already_applied, Finish
<1>16. CASE create_backup
  BY <1>16 DEF create_backup, Finish
<1>17. CASE replace_compose_image
  BY <1>17 DEF replace_compose_image
<1>18. CASE ComposePull
  BY <1>18 DEF ComposePull
<1>19. CASE ComposeUpdate
  <2>1. /\ \A l \in recre' : l.id <= container'.id
        /\ \/ UNCHANGED container /\ (ReportedUnmanaged' <=> ReportedUnmanaged)
           \/ ~ReportedUnmanaged' /\ container'.by = "tool" /\ container'.id = container.id + 1
    BY <1>19, UpNotReported DEF ComposeUpdate
  <2>. QED BY <1>19, <2>1 DEF ComposeUpdate, ComposeUp, Job
<1>20. CASE RecordUpdate
  <2>1. /\ \A l \in recre' : l.id <= container'.id
        /\ ReportedUnmanaged' <=> ReportedUnmanaged
        /\ (base' = container.id /\ gaps' = gaps) \/ gaps' = gaps + 1
        /\ faults' = faults /\ kills' = kills
    BY <1>20, RecordNotReported DEF RecordUpdate, Job
  <2>. QED BY <1>20, <2>1 DEF RecordUpdate
<1>21. CASE ValidateUpdate
  BY <1>21 DEF ValidateUpdate, Finish
<1>22. CASE restore_compose_files
  BY <1>22 DEF restore_compose_files
<1>23. CASE RollbackUp
  <2>1. /\ \A l \in recre' : l.id <= container'.id
        /\ \/ UNCHANGED container /\ (ReportedUnmanaged' <=> ReportedUnmanaged)
           \/ ~ReportedUnmanaged' /\ container'.by = "tool" /\ container'.id = container.id + 1
    BY <1>23, UpNotReported DEF RollbackUp
  <2>2. \/ pc'["runner"] = "rb_record" /\ faults' = faults
        \/ /\ pc'["runner"] = "rb_result" /\ job'.result = "rollback_failed"
           /\ faults' = faults + 1
    BY <1>23 DEF RollbackUp, Job
  <2>3. /\ pc["runner"] = "rb_up" /\ pc'["manual"] = pc["manual"]
        /\ UNCHANGED <<recre, base, hist, gaps, kills>>
    BY <1>23 DEF RollbackUp
  <2>. QED BY <2>1, <2>2, <2>3
<1>24. CASE RollbackRecord
  <2>1. /\ \A l \in recre' : l.id <= container'.id
        /\ ReportedUnmanaged' <=> ReportedUnmanaged
        /\ (base' = container.id /\ gaps' = gaps) \/ gaps' = gaps + 1
        /\ faults' = faults /\ kills' = kills
    BY <1>24, RecordNotReported DEF RollbackRecord, Job
  <2>. QED BY <1>24, <2>1 DEF RollbackRecord
<1>25. CASE RollbackValidate
  BY <1>25 DEF RollbackValidate
<1>26. CASE RollbackResult
  <2>1. /\ job.result \in {"rolled_back", "rollback_failed"}
        /\ job.req \in Request /\ job.from \in Versions
    BY <1>26 DEF RollbackResult, RunnerLocals, Carrying
  <2>2. hist'[job.req.id].status = job.result /\ job.req.id \in 1..MaxRequests
    BY <1>26, <2>1, HistoryWritten DEF RollbackResult, Finish, Final, Alerts, Request
  <2>3. job.result = "rollback_failed" => UpdateRollbackFailed'
    BY <2>2 DEF UpdateRollbackFailed
  <2>. QED BY <1>26, <2>1, <2>3 DEF RollbackResult, Finish
<1>27. CASE UnlinkRequest
  BY <1>27 DEF UnlinkRequest
<1>28. CASE InternalError
  BY <1>28 DEF InternalError
<1>29. CASE RollbackAlert
  BY <1>29 DEF RollbackAlert, AlertResult
<1>30. CASE RetryRollbackAlert
  BY <1>30 DEF RetryRollbackAlert, AlertResult
<1>31. CASE RetryUnlink
  BY <1>31 DEF RetryUnlink
<1>32. ASSUME NEW mode \in Modes, ManualBegin(mode) PROVE Unmanaged'
  BY <1>32 DEF ManualBegin
<1>33. CASE ManualCheck
  BY <1>33 DEF ManualCheck
<1>34. CASE ManualCheckFails
  BY <1>34 DEF ManualCheckFails
<1>35. CASE ManualUp
  <2>1. /\ \A l \in recre' : l.id <= container'.id
        /\ \/ UNCHANGED container /\ (ReportedUnmanaged' <=> ReportedUnmanaged)
           \/ ~ReportedUnmanaged' /\ container'.by = "tool" /\ container'.id = container.id + 1
    BY <1>35, UpNotReported DEF ManualUp
  <2>. QED BY <1>35, <2>1 DEF ManualUp
<1>36. CASE ManualValidate
  BY <1>36 DEF ManualValidate
<1>37. CASE RecordManual
  <2>1. /\ \A l \in recre' : l.id <= container'.id
        /\ ReportedUnmanaged' <=> ReportedUnmanaged
        /\ (base' = container.id /\ gaps' = gaps) \/ gaps' = gaps + 1
        /\ faults' = faults /\ kills' = kills
    BY <1>37, RecordNotReported DEF RecordManual, ManualRecord, Manual
  <2>. QED BY <1>37, <2>1 DEF RecordManual, ManualRecord
<1>38. CASE save_runtime_checkpoint
  BY <1>38 DEF save_runtime_checkpoint
<1>39. CASE RecordFailedManual
  <2>1. /\ \A l \in recre' : l.id <= container'.id
        /\ ReportedUnmanaged' <=> ReportedUnmanaged
        /\ (base' = container.id /\ gaps' = gaps) \/ gaps' = gaps + 1
        /\ faults' = faults /\ kills' = kills
    BY <1>39, RecordNotReported DEF RecordFailedManual, ManualRecord, Manual
  <2>. QED BY <1>39, <2>1 DEF RecordFailedManual, ManualRecord
<1>40. CASE restore_runtime_checkpoint
  BY <1>40 DEF restore_runtime_checkpoint
<1>41. CASE RecoveryNeeded
  BY <1>41 DEF RecoveryNeeded
<1>42. CASE RecoveryNotNeeded
  BY <1>42 DEF RecoveryNotNeeded
<1>43. CASE RecoveryUp
  <2>1. /\ \A l \in recre' : l.id <= container'.id
        /\ \/ UNCHANGED container /\ (ReportedUnmanaged' <=> ReportedUnmanaged)
           \/ ~ReportedUnmanaged' /\ container'.by = "tool" /\ container'.id = container.id + 1
    BY <1>43, UpNotReported DEF RecoveryUp
  <2>. QED BY <1>43, <2>1 DEF RecoveryUp, ComposeUp
<1>44. CASE RecoveryValidate
  BY <1>44 DEF RecoveryValidate
<1>45. CASE RecordRecovery
  <2>1. /\ \A l \in recre' : l.id <= container'.id
        /\ ReportedUnmanaged' <=> ReportedUnmanaged
        /\ (base' = container.id /\ gaps' = gaps) \/ gaps' = gaps + 1
        /\ faults' = faults /\ kills' = kills
    BY <1>45, RecordNotReported DEF RecordRecovery, ManualRecord, Manual
  <2>. QED BY <1>45, <2>1 DEF RecordRecovery, ManualRecord
<1>46. CASE RecordFailedRecovery
  <2>1. /\ \A l \in recre' : l.id <= container'.id
        /\ ReportedUnmanaged' <=> ReportedUnmanaged
        /\ (base' = container.id /\ gaps' = gaps) \/ gaps' = gaps + 1
        /\ faults' = faults /\ kills' = kills
    BY <1>46, RecordNotReported DEF RecordFailedRecovery, ManualRecord, Manual
  <2>. QED BY <1>46, <2>1 DEF RecordFailedRecovery, ManualRecord
<1>47. CASE RecoveryDone
  BY <1>47 DEF RecoveryDone
<1>48. CASE RecoveryFailed
  BY <1>48 DEF RecoveryFailed
<1>49. ASSUME NEW c \in Config, EditCompose(c) PROVE Unmanaged'
  BY <1>49 DEF EditCompose
<1>50. CASE DirectRecreate
  <2>1. \A l \in recre : l.id \in Nat /\ l.id <= container.id
    BY DEF TypeOK
  <2>. QED BY <1>50, <2>1 DEF DirectRecreate
<1>51. CASE ClockTick
  BY <1>51 DEF ClockTick
<1>52. ASSUME NEW p \in Procs, Killed(p) PROVE Unmanaged'
  BY <1>52 DEF Killed
<1>53. CASE UNCHANGED vars
  BY <1>53 DEF vars
<1>. QED
  BY <1>1, <1>2, <1>3, <1>4, <1>5, <1>6, <1>7, <1>8, <1>9, <1>10, <1>11, <1>12, <1>13, <1>14,
     <1>15, <1>16, <1>17, <1>18, <1>19, <1>20, <1>21, <1>22, <1>23, <1>24, <1>25, <1>26, <1>27,
     <1>28, <1>29, <1>30, <1>31, <1>32, <1>33, <1>34, <1>35, <1>36, <1>37, <1>38, <1>39, <1>40,
     <1>41, <1>42, <1>43, <1>44, <1>45, <1>46, <1>47, <1>48, <1>49, <1>50, <1>51, <1>52, <1>53
     DEF Next, Api, RunnerWork, ManualWork, Outside

\* The three parts hold initially and, with the locals, the lock and the
\* history as they are, always.
LEMMA PartsInitially == Init => Checkpoint /\ Settled /\ Unmanaged
<1> SUFFICES ASSUME Init PROVE Checkpoint /\ Settled /\ Unmanaged
  OBVIOUS
<1>1. None \notin Broken
  BY NoneAssumption, BrokenAssumption
<1>2. /\ pc["runner"] = "idle" /\ pc["manual"] = "idle" /\ ckpt = None /\ recre = {}
      /\ compose \notin Broken /\ container.cfg = compose /\ container.id = 1
      /\ base \in {None, 1}
  BY DEF Init, Procs
<1>3. Checkpoint
  BY <1>1, <1>2 DEF Checkpoint
<1>4. Settled
  BY <1>2 DEF Settled, Agree, Consistent, Healthy, Restorable
<1>5. Unmanaged
  BY <1>2 DEF Unmanaged, ReportedUnmanaged
<1>. QED BY <1>3, <1>4, <1>5

\* The checkpoint of the manual tool is a configuration that was healthy, as
\* long as no more than one step of an operator falls into a run of the tool.
THEOREM CheckpointIsHealthy == Spec => []CheckpointHealthy
<1>1. Checkpoint => CheckpointHealthy
  BY DEF Checkpoint, CheckpointHealthy
<1>. QED
  BY <1>1, PartsInitially, CheckpointStep, ControlInvariant, LockInvariant, PTL DEF Spec

\* Whenever the flock is free, and nobody but the tools has been at work, no
\* process was killed and no rollback failed, the container is healthy and
\* runs what the Compose file says.
THEOREM ToolsSettle == Spec => []SettledBetweenRuns
<1>1. Control /\ LockHeld /\ Settled => SettledBetweenRuns
  <2> SUFFICES ASSUME Control, LockHeld, Settled, lock = None, kills = 0, outside = 0,
                      ~RollbackFailed
               PROVE  container.cfg = compose /\ Healthy
    BY DEF SettledBetweenRuns
  <2>1. pc["runner"] = "idle"
    BY NoneAssumption DEF LockHeld, Procs
  <2>. QED BY <2>1 DEF Settled, Undisturbed, Restorable, Consistent, Agree
<1>. QED
  BY <1>1, PartsInitially, SettledStep, ControlInvariant, LockInvariant, FreshInvariant, PTL
     DEF Spec

\* A container the tools created is never reported as somebody else's, unless
\* two calls failed, recording one did, or a rollback.
THEOREM ReportsAreTrue == Spec => []NoFalseUnmanaged
<1>1. Control /\ Unmanaged => NoFalseUnmanaged
  BY DEF Unmanaged, Accountable, NoFalseUnmanaged, Control, TypeOK
<1>. QED
  BY <1>1, PartsInitially, UnmanagedStep, ControlInvariant, LockInvariant, FreshInvariant, PTL
     DEF Spec

=============================================================================
