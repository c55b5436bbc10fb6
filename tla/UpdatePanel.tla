---------------------------- MODULE UpdatePanel ----------------------------
(***************************************************************************)
(* The Traefik banner of the dashboard: the update plan, computed from two *)
(* queries that are polled apart (health and deployment), the button that  *)
(* asks the host runner for a patch update, and the button that repeats    *)
(* the alert of a failed rollback.  A request inspects Traefik, and only   *)
(* then publishes the request file; an answer may be lost while its        *)
(* request goes on.  The runner itself is module TraefikUpdate: here it    *)
(* finishes a request in one step.  What the buttons say is left out.      *)
(***************************************************************************)
EXTENDS Browser, Naturals, Sequences

CONSTANTS
    MaxHostRequests,     \* bound: clicks on the two buttons
    TraefikReleases      \* in order; a version is its position, 0 is unknown

VARIABLE up

Known == DOMAIN TraefikReleases

(* compare_versions: the first different number decides.                   *)
Older(v, w) ==
    \/ v[1] < w[1]
    \/ v[1] = w[1] /\ v[2] < w[2]
    \/ v[1] = w[1] /\ v[2] = w[2] /\ v[3] < w[3]

ASSUME ReleasesAssumption ==
    /\ MaxHostRequests \in Nat
    /\ TraefikReleases \in Seq(Nat \X Nat \X Nat) /\ Len(TraefikReleases) >= 2
    /\ \A i, j \in Known : i < j => Older(TraefikReleases[i], TraefikReleases[j])

-----------------------------------------------------------------------------
(* The plan. *)

(* In place of getUpdateRisk: the patch number decides. *)
PatchNumberOnly(current, latest) ==
    IF current = 0 \/ latest = 0 THEN "unknown"
    ELSE IF TraefikReleases[latest][3] > TraefikReleases[current][3] THEN "low" ELSE "medium"

getUpdateRisk(current, latest) ==
    IF current = 0 \/ latest = 0 THEN "unknown"
    ELSE LET c == TraefikReleases[current]  l == TraefikReleases[latest]
         IN  CASE l[1] > c[1] -> "high"
               [] l[1] <= c[1] /\ l[2] > c[2] -> "medium"
               [] l[1] <= c[1] /\ l[2] <= c[2] /\ l[3] > c[3] -> "low"
               [] OTHER -> "unknown"

(* is_patch_update: what the server means by a patch. *)
is_patch_update(current, target) ==
    /\ current # 0 /\ target # 0
    /\ \A i \in 1..2 : TraefikReleases[current][i] = TraefikReleases[target][i]
    /\ TraefikReleases[target][3] > TraefikReleases[current][3]

(* buildTraefikUpdatePlan: health decides that there is an update, and the *)
(* deployment, where it knows them, which versions are named.              *)
HasPlan(s) == s.health.version # 0 /\ s.health.version < s.health.latest
Or(a, b) == IF a # 0 THEN a ELSE b

buildTraefikUpdatePlan(s) ==
    LET current == Or(s.deployment.current, s.health.version)
        latest  == Or(s.deployment.target, s.health.latest)
    IN  [current |-> current, latest |-> latest, risk |-> getUpdateRisk(current, latest)]

CanRequest(s) ==
    /\ HasPlan(s) /\ buildTraefikUpdatePlan(s).risk = "low"
    /\ s.operations.loaded /\ s.operations.runner /\ ~s.operations.pending

(* In place of getRequestBlockedReason: a pending request blocks silently. *)
RunnerReasonsOnly(s) ==
    CASE buildTraefikUpdatePlan(s).risk # "low" -> "patchesOnly"
      [] ~s.operations.loaded -> "checkingRunner"
      [] s.operations.loaded /\ ~s.operations.runner -> "runnerUnavailable"
      [] OTHER -> "none"

getRequestBlockedReason(s) ==
    CASE buildTraefikUpdatePlan(s).risk # "low" -> "patchesOnly"
      [] s.operations.loaded /\ s.operations.pending -> "alreadyPending"
      [] ~s.operations.loaded -> "checkingRunner"
      [] s.operations.loaded /\ ~s.operations.runner -> "runnerUnavailable"
      [] OTHER -> "none"

(* getTraefikVersionStatus and getTraefikStatusTone: the badge of the same *)
(* banner.                                                                 *)
getTraefikVersionStatus(s) ==
    CASE s.health.version # 0 /\ s.health.version < s.health.latest -> "update"
      [] s.health.version # 0 /\ s.health.latest # 0 /\ s.health.version >= s.health.latest -> "latest"
      [] OTHER -> "checking"

(* getTraefikStatusTone; a health without a version is of a Traefik that   *)
(* is not connected, or not yet asked.                                     *)
getTraefikStatusTone(s) ==
    CASE s.health.version = 0 -> "red"
      [] s.health.version # 0 /\ getTraefikVersionStatus(s) = "update" -> "amber"
      [] OTHER -> "green"

(* TraefikUpdatePlanPanel: nothing, the offer, or why there is none. *)
TraefikUpdatePlanPanel(s) ==
    IF ~HasPlan(s) THEN "hidden" ELSE IF CanRequest(s) THEN "offered" ELSE getRequestBlockedReason(s)

TraefikStatusBanner(s) ==
    [tone |-> getTraefikStatusTone(s), badge |-> getTraefikVersionStatus(s), plan |-> TraefikUpdatePlanPanel(s)]

(* TraefikUpdateAlertRun, under the failed entry of the history: the retry *)
(* is offered, or what blocks it.                                          *)
TraefikUpdateAlertRun(s) ==
    CASE ~s.operations.loaded -> "hidden"
      [] s.operations.loaded /\ s.operations.alert # "request_failed" -> s.operations.alert
      [] OTHER -> IF s.operations.pending THEN "alreadyPending"
                  ELSE IF s.operations.runner THEN "offered" ELSE "runnerUnavailable"

-----------------------------------------------------------------------------
(* The server.  traefik is what runs, released the newest release, latest  *)
(* the newest one the release checker has seen; alert is the state of the  *)
(* alert of the last failed rollback, delivered how often it was sent.  A  *)
(* button waits for the call whose number is in request, 0 for none.       *)

UPMounted ==
    \E alert \in {"none", "request_failed"} :
      up = [traefik |-> 1, released |-> 2, latest |-> 2, pending |-> [kind |-> "none"],
            alert |-> alert, delivered |-> 0, clicks |-> 0,
            health |-> [version |-> 0, latest |-> 0], deployment |-> [current |-> 0, target |-> 0],
            operations |-> [loaded |-> FALSE],
            request |-> [k \in {"update", "retry"} |-> 0], calls |-> {}]

NewRelease == up.released < Len(TraefikReleases) /\ up' = [up EXCEPT !.released = @ + 1]

(* The release cache expires and is read again by whoever asks next. *)
LatestExpires == up.latest < up.released /\ up' = [up EXCEPT !.latest = up.released]

(* Traefik is upgraded on the host by hand. *)
HostUpgrade == \E v \in up.traefik + 1 .. up.released : up' = [up EXCEPT !.traefik = v]

(* The runner takes the request file.  It applies a patch of what runs, or *)
(* rejects it; when the rollback of a failed one fails too, the alert is   *)
(* sent or not.                                                            *)
RunnerUpdates ==
    /\ up.pending.kind = "update"
    /\ \/ /\ is_patch_update(up.traefik, up.pending.target)
          /\ \/ up' = [up EXCEPT !.traefik = up.pending.target, !.pending = [kind |-> "none"]]
             \/ \E sent \in BOOLEAN :
                  up' = [up EXCEPT !.pending = [kind |-> "none"], !.delivered = IF sent THEN 1 ELSE 0,
                                   !.alert = IF sent THEN "requested" ELSE "request_failed"]
       \/ ~is_patch_update(up.traefik, up.pending.target) /\ up' = [up EXCEPT !.pending = [kind |-> "none"]]

(* In place of RunnerRetriesAlert: the entry is not checked again.         *)
RetryUnchecked ==
    /\ up.pending.kind = "retry"
    /\ \E sent \in BOOLEAN :
         up' = [up EXCEPT !.pending = [kind |-> "none"], !.delivered = IF sent THEN @ + 1 ELSE @,
                          !.alert = IF sent THEN "requested" ELSE "request_failed"]

RunnerRetriesAlert ==
    /\ up.pending.kind = "retry"
    /\ \E sent \in BOOLEAN :
         up' = IF up.alert # "request_failed" THEN [up EXCEPT !.pending = [kind |-> "none"]]
               ELSE [up EXCEPT !.pending = [kind |-> "none"], !.delivered = IF sent THEN @ + 1 ELSE @,
                               !.alert = IF sent THEN "requested" ELSE "request_failed"]

(* What a click has started on the server: a call is "sent", then          *)
(* "checked" once the inspection found nothing against it.  A call that    *)
(* ends releases the button that waits for it (an answer still under way   *)
(* would only keep the button disabled); no button waits for one whose     *)
(* answer was lost.  In place of it, only a queued request releases.       *)
EndedIfQueued(s, c) ==
    [s EXCEPT !.calls = @ \ {c}, !.request[c.kind] = IF @ = c.id /\ s.pending.kind # "none" THEN 0 ELSE @]

Ended(s, c) == [s EXCEPT !.calls = @ \ {c}, !.request[c.kind] = IF @ = c.id THEN 0 ELSE @]

(* In place of Validated: the panel has checked that it is a patch.        *)
PanelTrusted(s, c) == s.alert = "request_failed" \/ c.kind = "update"

(* validate_safe_patch_request, after the release cache is refreshed, and  *)
(* _find_retryable_alert_entry.                                            *)
Validated(s, c) ==
    IF c.kind = "retry" THEN s.alert = "request_failed"
    ELSE s.released = c.target /\ s.traefik < c.target /\ is_patch_update(s.traefik, c.target)

RequestInspected ==
    \E c \in up.calls :
      /\ c.step = "sent"
      /\ LET seen == [up EXCEPT !.latest = IF c.kind = "update" THEN up.released ELSE @]
         IN  up' = IF ~Validated(up, c) THEN Ended(seen, c)
                   ELSE [seen EXCEPT !.calls = (@ \ {c}) \cup {[c EXCEPT !.step = "checked", !.from = up.traefik]}]

(* require_runner_available, which depends on the age of a heartbeat, and  *)
(* _publish_request: there is one request file.                            *)
RequestQueued ==
    \E c \in up.calls, runner \in BOOLEAN :
      /\ c.step = "checked"
      /\ up' = IF ~runner \/ up.pending.kind # "none" THEN Ended(up, c)
               ELSE Ended([up EXCEPT !.pending = [kind |-> c.kind, from |-> c.from, target |-> c.target]], c)

-----------------------------------------------------------------------------
(* The panel. *)

HealthFetched ==
    \E connected \in BOOLEAN :
      up' = [up EXCEPT !.health = [version |-> IF connected THEN up.traefik ELSE 0, latest |-> up.latest]]

(* Without the Docker API the deployment names no version. *)
DeploymentFetched ==
    \E enabled \in BOOLEAN :
      up' = [up EXCEPT !.deployment = IF enabled THEN [current |-> up.traefik, target |-> up.latest]
                                      ELSE [current |-> 0, target |-> 0]]

OperationsFetched ==
    \E runner \in BOOLEAN :
      up' = [up EXCEPT !.operations =
               [loaded |-> TRUE, runner |-> runner, pending |-> up.pending.kind # "none", alert |-> up.alert]]

(* useRefreshTraefikLatest *)
RefreshLatest ==
    up' = [up EXCEPT !.latest = up.released, !.health = [version |-> up.traefik, latest |-> up.released]]

PanelClicked(s, k, target) ==
    [s EXCEPT !.clicks = @ + 1, !.request[k] = s.clicks + 1,
              !.calls = @ \cup {[id |-> s.clicks + 1, kind |-> k, step |-> "sent", from |-> 0, target |-> target]}]

handleRequestUpdate ==
    /\ TraefikUpdatePlanPanel(up) = "offered" /\ up.request["update"] = 0 /\ up.clicks < MaxHostRequests
    /\ up' = PanelClicked(up, "update", buildTraefikUpdatePlan(up).latest)

handleRetry ==
    /\ TraefikUpdateAlertRun(up) = "offered" /\ up.request["retry"] = 0 /\ up.clicks < MaxHostRequests
    /\ up' = PanelClicked(up, "retry", 0)

AnswerLost ==
    \E k \in {"update", "retry"} :
      /\ up.request[k] # 0
      /\ up' = [up EXCEPT !.request[k] = 0]

UPNext ==
    \/ NewRelease \/ LatestExpires \/ HostUpgrade \/ RunnerUpdates \/ RunnerRetriesAlert
    \/ RequestInspected \/ RequestQueued \/ HealthFetched \/ DeploymentFetched \/ OperationsFetched
    \/ RefreshLatest \/ handleRequestUpdate \/ handleRetry \/ AnswerLost

-----------------------------------------------------------------------------
(* Properties. *)

UPTypeOK ==
    up # Unmounted =>
      /\ up.traefik \in Known /\ up.latest \in Known /\ up.released \in Known
      /\ up.alert \in {"none", "request_failed", "requested"}
      /\ \A c \in up.calls : c.step \in {"sent", "checked"}
      /\ \A k \in {"update", "retry"} : up.request[k] # 0 => \E c \in up.calls : c.id = up.request[k]

(* What the host is asked for is a patch of the version that ran when the  *)
(* request was inspected, however old what the panel showed was.           *)
QueuedIsPatch ==
    (up # Unmounted /\ up.pending.kind = "update") => is_patch_update(up.pending.from, up.pending.target)

(* One failed rollback is alerted once: lost answers, repeated clicks and  *)
(* stale history entries never make the runner send the alert again.       *)
AlertDeliveredOnce == up # Unmounted => up.delivered <= 1

(* The update that the panel names and offers is a patch in the server's   *)
(* sense, whenever what runs is not newer than what the panel names: an    *)
(* offered minor or major step would be refused after the confirmation.    *)
OfferedIsPatch ==
    (up # Unmounted /\ CanRequest(up)) =>
      LET plan == buildTraefikUpdatePlan(up)
      IN  plan.current <= plan.latest => is_patch_update(plan.current, plan.latest)

(* A plan that is shown offers the request or explains why it does not,    *)
(* though its versions and the badge of the banner come from two polls;    *)
(* the banner then says that there is an update.                           *)
BlockedIsExplained ==
    up # Unmounted =>
      LET banner == TraefikStatusBanner(up)
      IN  banner.plan # "hidden" =>
            /\ banner.badge = "update" /\ banner.tone = "amber"
            /\ banner.plan # "none"

=============================================================================
