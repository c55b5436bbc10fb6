---------------------------- MODULE HealthBoard ----------------------------
(***************************************************************************)
(* The health of the manager's own containers: the periodic check of the   *)
(* leader, which records failures and recoveries in the audit log and      *)
(* keeps its state in the settings table, and what the dashboard makes of  *)
(* the polled deployment: the alert banner, the rows of the components,    *)
(* and the tone of the release card.                                       *)
(***************************************************************************)
EXTENDS Browser, Naturals, Sequences

CONSTANTS Ailing,            \* components whose containers stop or fail
          AlertCooldown,     \* the cooldown, in checks
          LastRevision       \* bound: deployments of a component

VARIABLE hb

ManagerComponents == {"backend", "frontend"}

(* The cooldown is a number of checks, and only components of the manager  *)
(* fail.                                                                   *)
ASSUME HealthAssumption == AlertCooldown \in Nat /\ Ailing \subseteq ManagerComponents

NoEvent == "none"

-----------------------------------------------------------------------------
(* The check.  A component's entry in the stored state: the status, and    *)
(* whether its failure was alerted; age is the time since the last alert,  *)
(* which an entry keeps when the component recovers, AlertCooldown if that *)
(* is over or there was none.                                              *)

NotStored == [status |-> "none", active |-> FALSE, age |-> AlertCooldown]

(* In place of NextEntry: an alert is due at the transition only.          *)
AtTransition(entry, health) ==
    LET due == entry.status # "unhealthy" /\ entry.age = AlertCooldown
    IN  IF health = "healthy" THEN [entry EXCEPT !.status = health, !.active = FALSE]
        ELSE [status |-> health, active |-> due \/ (entry.active /\ entry.status = "unhealthy"),
              age |-> IF due THEN 0 ELSE entry.age]

(* In place of NextEntry: a recovery leaves the alert active. *)
ActiveKept(entry, health) ==
    IF health = "healthy" THEN [entry EXCEPT !.status = health]
    ELSE [status |-> health, active |-> entry.age = AlertCooldown \/ entry.active,
          age |-> IF entry.age = AlertCooldown /\ ~entry.active THEN 0 ELSE entry.age]

(* In place of NextEntry: a recovery forgets when the alert was sent. *)
AgeForgotten(entry, health) ==
    LET due == (entry.status # health \/ ~entry.active) /\ entry.age = AlertCooldown
    IN  IF health = "healthy" THEN [NotStored EXCEPT !.status = health]
        ELSE [status |-> health, active |-> due \/ (entry.active /\ entry.status = health),
              age |-> IF due THEN 0 ELSE entry.age]

NextEntry(entry, health) ==
    LET changed == entry.status # health
        due == (changed \/ ~entry.active) /\ entry.age = AlertCooldown
    IN  IF health = "healthy" THEN [entry EXCEPT !.status = health, !.active = FALSE]
        ELSE [status |-> health, active |-> due \/ (entry.active /\ ~changed),
              age |-> IF due THEN 0 ELSE entry.age]

(* In place of HealthEvent: a recovery without an alert is reported too.   *)
EveryRecovery(entry, health) ==
    CASE health = "unhealthy" /\ NextEntry(entry, health).active /\ ~(entry.active /\ entry.status = health) -> health
      [] health = "healthy" /\ entry.status = "unhealthy" -> "recovered"
      [] OTHER -> NoEvent

HealthEvent(entry, health) ==
    CASE health = "unhealthy" /\ NextEntry(entry, health).active /\ ~(entry.active /\ entry.status = health) -> health
      [] health = "healthy" /\ entry.status = "unhealthy" /\ entry.active -> "recovered"
      [] OTHER -> NoEvent

(* check_manager_health_once: one transaction; a component whose health is *)
(* not known is skipped.  since is the true time since the last alert.     *)
Checked(s) ==
    LET known == {c \in ManagerComponents : s.actual[c].status = "ok" /\ s.actual[c].health \in {"healthy", "unhealthy"}}
        Event(c) == IF c \in known THEN HealthEvent(s.stored[c], s.actual[c].health) ELSE NoEvent
    IN  [s EXCEPT !.stored = [c \in ManagerComponents |->
                                IF c \in known THEN NextEntry(s.stored[c], s.actual[c].health) ELSE s.stored[c]],
                  !.log = [c \in ManagerComponents |->
                             IF Event(c) = NoEvent THEN s.log[c] ELSE <<Event(c), s.log[c][1]>>],
                  !.early = s.early \/ \E c \in ManagerComponents : Event(c) = "unhealthy" /\ s.since[c] < AlertCooldown,
                  !.since = [c \in ManagerComponents |-> IF Event(c) = "unhealthy" THEN 0 ELSE s.since[c]]]

(* Monitoring is off: the check forgets everything.  The log of the model  *)
(* starts anew; the audit log keeps its records.                           *)
CheckDisabled(s) ==
    [s EXCEPT !.stored = [c \in ManagerComponents |-> NotStored],
              !.log = [c \in ManagerComponents |-> <<NoEvent, NoEvent>>],
              !.since = [c \in ManagerComponents |-> AlertCooldown]]

-----------------------------------------------------------------------------
(* The dashboard.  Everything on it is drawn from one poll, d. *)

(* getDockerStatus; in place of it, a stopped container shows its last     *)
(* health.                                                                 *)
HealthFirst(c) ==
    CASE c.status = "unavailable" -> "lookup failed"
      [] c.status = "ok" /\ c.health = "healthy" -> "healthy"
      [] c.status = "ok" /\ c.health = "unhealthy" -> "unhealthy"
      [] c.status = "ok" /\ c.health = "starting" /\ c.runtime = "running" -> "starting"
      [] OTHER -> "stopped"

getDockerStatus(c) ==
    CASE c.status = "unavailable" -> "lookup failed"
      [] c.status = "ok" /\ c.runtime # "running" -> "stopped"
      [] OTHER -> c.health

isUnhealthy(c) ==
    \/ c.status = "unavailable"
    \/ c.status = "ok" /\ (c.runtime # "running" \/ c.health = "unhealthy")

(* ManagerHealthAlertBanner, of the components: the ones it names.  It is  *)
(* critical when it names any; the monitors it also names are those of     *)
(* MonitorBoard.                                                           *)
UnhealthyComponents(d) == {c \in ManagerComponents : isUnhealthy(d.actual[c])}

(* buildDeploymentComponentConsistency; in place of it, only a component   *)
(* that was not found makes a mismatch.                                    *)
MismatchIfUnavailable(d) == \E c \in ManagerComponents : d.actual[c].status = "unavailable"

hasMismatch(d) ==
    LET revisions == {d.actual[c].revision : c \in {x \in ManagerComponents : d.actual[x].status = "ok"}}
    IN  \E r, q \in revisions : r # q

(* The version of the deployment: of the first component that was found,   *)
(* or what the backend knows of itself.  latest is the newest release, 0   *)
(* while that could not be fetched; a build after it has its tag and a     *)
(* count of commits.                                                       *)
DeployedVersion(d) ==
    IF d.actual["backend"].status = "unavailable" /\ d.actual["frontend"].status = "ok"
    THEN d.actual["frontend"].revision ELSE d.actual["backend"].revision

buildDeploymentVersionDisplay(d) ==
    CASE d.latest = 0 -> "unknown"
      [] d.latest > DeployedVersion(d) -> "update"
      [] d.latest > 0 /\ d.latest < DeployedVersion(d) -> "post_release"
      [] OTHER -> "current"

getReleaseTone(state, mismatch) ==
    CASE mismatch \/ state \in {"update", "unknown"} -> "amber"
      [] ~mismatch /\ state = "post_release" -> "blue"
      [] OTHER -> "green"

(* DeploymentComponentRow *)
ComponentRow(d, c) ==
    [docker |-> getDockerStatus(d.actual[c]), mismatch |-> hasMismatch(d) /\ d.actual[c].status = "ok",
     failing |-> d.actual[c].status = "ok" /\ d.actual[c].health = "unhealthy"]

ManagerDeploymentCard(d) ==
    [badge |-> IF hasMismatch(d) THEN "mismatch" ELSE buildDeploymentVersionDisplay(d),
     tone  |-> getReleaseTone(buildDeploymentVersionDisplay(d), hasMismatch(d)),
     rows  |-> [c \in ManagerComponents |-> ComponentRow(d, c)]]

-----------------------------------------------------------------------------
(* The system. *)

Started(revision) == [status |-> "ok", runtime |-> "running", health |-> "starting", revision |-> revision]

HBMounted ==
    hb = LET fine == [c \in ManagerComponents |-> [Started(1) EXCEPT !.health = "healthy"]]
         IN  [actual |-> fine, latest |-> 1, enabled |-> TRUE, early |-> FALSE,
              stored |-> [c \in ManagerComponents |-> NotStored], since |-> [c \in ManagerComponents |-> AlertCooldown],
              log |-> [c \in ManagerComponents |-> <<NoEvent, NoEvent>>]]

(* One check interval passes, and the leader checks. *)
CheckManagerHealth ==
    LET older == [hb EXCEPT !.stored = [c \in ManagerComponents |->
                                          [hb.stored[c] EXCEPT !.age = IF @ < AlertCooldown THEN @ + 1 ELSE @]],
                            !.since = [c \in ManagerComponents |-> IF hb.since[c] < AlertCooldown
                                                                   THEN hb.since[c] + 1 ELSE hb.since[c]]]
    IN  hb' = IF hb.enabled THEN Checked(older) ELSE CheckDisabled(older)

SwitchMonitoring == hb' = [hb EXCEPT !.enabled = ~@]

(* A container becomes healthy or unhealthy, stops, or cannot be looked up.*)
ContainerChanges(c) ==
    \E health \in {"healthy", "unhealthy"}, runtime \in {"running", "exited"}, status \in {"ok", "unavailable"} :
      hb' = [hb EXCEPT !.actual[c] = [@ EXCEPT !.health = health, !.runtime = runtime, !.status = status]]

(* The blue-green deployment starts a component with the next revision.    *)
Redeployed(c) ==
    /\ hb.actual[c].revision < LastRevision
    /\ hb' = [hb EXCEPT !.actual[c] = Started(hb.actual[c].revision + 1)]

(* get_release_status, when its cache has expired. *)
ReleaseFetched == \E latest \in 0 .. LastRevision : hb' = [hb EXCEPT !.latest = latest]

HBNext ==
    \/ CheckManagerHealth \/ SwitchMonitoring \/ ReleaseFetched
    \/ (\E c \in Ailing : ContainerChanges(c)) \/ (\E c \in ManagerComponents : Redeployed(c))

(* The leader runs the check every thirty seconds. *)
HBFairness == WF_hb(hb # Unmounted /\ CheckManagerHealth)

-----------------------------------------------------------------------------
(* Properties. *)

HBTypeOK ==
    hb # Unmounted =>
      \A c \in ManagerComponents :
        /\ hb.stored[c].status \in {"none", "healthy", "unhealthy"} /\ hb.stored[c].age \in 0 .. AlertCooldown
        /\ hb.stored[c].active => hb.stored[c].status = "unhealthy" /\ hb.log[c][1] = "unhealthy"

(* The history never reports a recovery without the failure before it, and *)
(* no failure twice without its recovery: also when a failure is           *)
(* suppressed by the cooldown, a container is replaced while it fails, or  *)
(* its health cannot be looked up for some time.                           *)
RecoveryFollowsFailure ==
    hb # Unmounted =>
      \A c \in ManagerComponents : hb.log[c][1] # NoEvent =>
        hb.log[c][2] = IF hb.log[c][1] = "recovered" THEN "unhealthy"
                       ELSE IF hb.log[c][2] = NoEvent THEN NoEvent ELSE "recovered"

(* A container that flaps is not alerted again within the cooldown. *)
AlertsApart == hb # Unmounted => ~hb.early

(* A component that stays unhealthy is alerted in the end, also when its   *)
(* failure began within the cooldown of the one before.                    *)
LastingFailureAlerted ==
    \A c \in ManagerComponents :
      (hb # Unmounted /\ <>[](hb # Unmounted /\ hb.enabled /\ hb.actual[c].status = "ok" /\ hb.actual[c].health = "unhealthy"))
        => []<>(hb # Unmounted /\ hb.stored[c].active)

(* The banner names a component exactly when its row shows it stopped,     *)
(* failing or not found, and a row with the details of a failed check is   *)
(* always named.                                                           *)
BannerAgreesWithRows ==
    hb # Unmounted =>
      LET card == ManagerDeploymentCard(hb)
      IN  \A c \in ManagerComponents :
            /\ c \in UnhealthyComponents(hb) <=> card.rows[c].docker \in {"lookup failed", "stopped", "unhealthy"}
            /\ card.rows[c].failing => c \in UnhealthyComponents(hb)

(* During a deployment, while one component runs the new revision and the  *)
(* other the old one, the release card is never green or blue, and both    *)
(* rows are marked.                                                        *)
GreenMeansOneRevision ==
    hb # Unmounted =>
      LET card == ManagerDeploymentCard(hb)
      IN  (card.tone # "amber" \/ \E c \in ManagerComponents : ~card.rows[c].mismatch) =>
            \A c, e \in ManagerComponents :
              (hb.actual[c].status = "ok" /\ hb.actual[e].status = "ok")
                => hb.actual[c].revision = hb.actual[e].revision

=============================================================================
