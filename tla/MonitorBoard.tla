---------------------------- MODULE MonitorBoard ----------------------------
(***************************************************************************)
(* The monitors beside the container health check: three host watchdogs,   *)
(* which leave a state file for the backend, and two checks of the request *)
(* log, whose state is in the settings table.  Their transitions are       *)
(* recorded in the audit log.  The dashboard shows each in a card, names   *)
(* the ones in trouble in its banner, and lists the transitions.           *)
(* The monitors do not interact: one of them is watched, the others report *)
(* that all is well.                                                       *)
(***************************************************************************)
EXTENDS Browser, Naturals

CONSTANTS BoardMonitors,     \* of "watchdog", "selfban", "systemd", "api" and "latency"
          StaleAfter,        \* age at which a state file is stale
          BoardCooldown      \* the alert cooldown, in the same unit

(* The settings are in whole units of time, and there are five monitors.   *)
ASSUME BoardAssumption ==
    /\ StaleAfter \in Nat /\ BoardCooldown \in Nat
    /\ BoardMonitors \subseteq {"watchdog", "selfban", "systemd", "api", "latency"}

VARIABLE mb

(* What a state file can say; "unknown" if there is none. *)
HostStatuses ==
    [watchdog |-> {"unknown", "healthy", "unhealthy"}, systemd |-> {"unknown", "healthy", "unhealthy"},
     selfban |-> {"unknown", "healthy", "recovered", "blocked"}]
NotChecked == [checked |-> FALSE, available |-> FALSE, ready |-> FALSE, active |-> FALSE, age |-> BoardCooldown]

-----------------------------------------------------------------------------
(* The checks of the leader. *)

IsStale(s) == s.file.status # "unknown" /\ s.file.age >= StaleAfter

(* The audit log, newest first, of which the last two are kept.            *)
RowAdded(s, event) == IF event = "none" THEN s ELSE [s EXCEPT !.log = <<event, @[1]>>]

(* check_watchdog_staleness_once; audit is the status it stored last.  In  *)
(* place of it, a missing file counts as a fresh one.                      *)
MissingIsFresh(s) ==
    LET current == IF IsStale(s) THEN "stale" ELSE "healthy"
        event == CASE current = "stale" /\ s.audit # "stale" -> "manager_watchdog_stale"
                   [] current = "healthy" /\ s.audit # current -> "manager_watchdog_recovered"
                   [] OTHER -> "none"
    IN  [RowAdded(s, event) EXCEPT !.audit = current]

WatchdogChecked(s) ==
    LET current == IF IsStale(s) THEN "stale" ELSE "healthy"
        event == CASE current = "stale" /\ s.audit # "stale" -> "manager_watchdog_stale"
                   [] current = "healthy" /\ s.audit = "stale" -> "manager_watchdog_recovered"
                   [] OTHER -> "none"
    IN  IF s.file.status = "unknown" THEN s ELSE [RowAdded(s, event) EXCEPT !.audit = current]

(* check_manager_http_errors_once: an alert is due when the last check saw *)
(* none, and again after the cooldown.                                     *)
HttpErrorsChecked(s, found) ==
    LET event == CASE found = "breached" /\ (~s.stored.active \/ s.stored.age >= BoardCooldown) -> "manager_http_errors_high"
                   [] found = "fine" /\ s.stored.active -> "manager_http_errors_recovered"
                   [] OTHER -> "none"
    IN  IF found = "unavailable" THEN [s EXCEPT !.stored = [@ EXCEPT !.checked = TRUE, !.available = FALSE]]
        ELSE [RowAdded(s, event) EXCEPT
                !.stored = [NotChecked EXCEPT !.checked = TRUE, !.available = TRUE, !.active = found = "breached",
                                              !.age = IF event = "manager_http_errors_high" THEN 0 ELSE s.stored.age]]

(* check_manager_settings_history_latency_once: an alert is due after the  *)
(* cooldown only, and too few samples end it without a record.             *)
LatencyChecked(s, found) ==
    LET event == CASE found = "breached" /\ s.stored.age >= BoardCooldown -> "manager_settings_history_latency_high"
                   [] found = "fine" /\ s.stored.active -> "manager_settings_history_latency_recovered"
                   [] OTHER -> "none"
    IN  IF found = "unavailable" THEN [s EXCEPT !.stored = [@ EXCEPT !.checked = TRUE, !.available = FALSE]]
        ELSE [RowAdded(s, event) EXCEPT
                !.stored = [checked |-> TRUE, available |-> TRUE, ready |-> found # "sampling", active |-> found = "breached",
                            age |-> IF event = "manager_settings_history_latency_high" THEN 0 ELSE s.stored.age]]

-----------------------------------------------------------------------------
(* The cards. *)

(* getStatusView of UserSystemdWatchdogCard *)
UserSystemdWatchdogCard(s) ==
    CASE s.file.status = "unhealthy" -> "unhealthy"
      [] s.file.status # "unhealthy" /\ IsStale(s) -> "stale"
      [] OTHER -> s.file.status

TraefikSelfBanWatchdogCard(s) ==
    CASE s.file.status = "blocked" -> "blocked"
      [] s.file.status # "blocked" /\ IsStale(s) -> "stale"
      [] OTHER -> s.file.status

(* ManagerDeploymentStatusPanel: the line of the external watchdog shows   *)
(* its status and whether it is stale, here the worse of the two.          *)
ManagerDeploymentStatusPanel(s) ==
    CASE s.file.status = "unhealthy" -> "unhealthy"
      [] s.file.status # "unhealthy" /\ IsStale(s) -> "stale"
      [] OTHER -> s.file.status

HttpErrorMonitorStatus(s) ==
    CASE ~s.enabled -> "disabled"
      [] s.enabled /\ ~s.stored.checked -> "pending"
      [] s.enabled /\ s.stored.checked /\ ~s.stored.available -> "unavailable"
      [] OTHER -> IF s.stored.active THEN "breached" ELSE "healthy"

SettingsHistoryLatencyStatus(s) ==
    CASE ~s.enabled -> "disabled"
      [] s.enabled /\ ~s.stored.checked -> "pending"
      [] s.enabled /\ s.stored.checked /\ ~s.stored.available -> "unavailable"
      [] OTHER -> IF s.stored.active THEN "breached" ELSE IF s.stored.ready THEN "healthy" ELSE "sampling"

MonitorCard(s) ==
    CASE s.monitor = "systemd" -> UserSystemdWatchdogCard(s)
      [] s.monitor = "selfban" -> TraefikSelfBanWatchdogCard(s)
      [] s.monitor = "watchdog" -> ManagerDeploymentStatusPanel(s)
      [] s.monitor = "api" -> HttpErrorMonitorStatus(s)
      [] OTHER -> SettingsHistoryLatencyStatus(s)

(* ManagerHealthAlertBanner: whether it names the monitor; in place of it, *)
(* a check that could not read the log is not named.                       *)
BreachesOnly(s) ==
    CASE s.monitor = "api" -> s.enabled /\ s.stored.available /\ s.stored.active
      [] s.monitor = "latency" -> s.enabled /\ s.stored.active
      [] OTHER -> s.file.status \in {"unhealthy", "blocked"} \/ IsStale(s)

BannerNames(s) ==
    CASE s.monitor = "api" -> s.enabled /\ (IF s.stored.available THEN s.stored.active ELSE s.stored.checked)
      [] s.monitor = "latency" -> s.enabled /\ s.stored.active
      [] OTHER -> s.file.status \in {"unhealthy", "blocked"} \/ IsStale(s)

(* ManagerHealthHistoryRow: the colour of a recorded transition. *)
ManagerHealthHistoryRow(event) ==
    IF event \in {"manager_http_errors_recovered", "manager_settings_history_latency_recovered", "manager_watchdog_recovered"}
    THEN "green" ELSE "red"

-----------------------------------------------------------------------------

MBMounted ==
    \E m \in BoardMonitors :
      mb = [monitor |-> m, enabled |-> TRUE, file |-> [status |-> "unknown", age |-> 0], stored |-> NotChecked,
            audit |-> "none", log |-> <<"none", "none">>]

(* The watchdog of the host runs, and writes its file. *)
HostReports ==
    /\ mb.monitor \in DOMAIN HostStatuses
    /\ \E status \in HostStatuses[mb.monitor] : mb' = [mb EXCEPT !.file = [status |-> status, age |-> 0]]

BoardTimePasses ==
    mb' = [mb EXCEPT !.file.age = IF @ < StaleAfter THEN @ + 1 ELSE @,
                     !.stored.age = IF @ < BoardCooldown THEN @ + 1 ELSE @]

(* A check of the leader; with monitoring switched off it forgets what it  *)
(* knew, and the model starts a new log.                                   *)
LeaderChecks ==
    \/ mb.monitor = "watchdog" /\ mb' = WatchdogChecked(mb)
    \/ mb.monitor \in {"api", "latency"} /\ ~mb.enabled
         /\ mb' = [mb EXCEPT !.stored = NotChecked, !.log = <<"none", "none">>]
    \/ mb.monitor = "api" /\ mb.enabled
         /\ \E found \in {"unavailable", "breached", "fine"} : mb' = HttpErrorsChecked(mb, found)
    \/ mb.monitor = "latency" /\ mb.enabled
         /\ \E found \in {"unavailable", "sampling", "breached", "fine"} : mb' = LatencyChecked(mb, found)

SwitchBoardMonitoring == mb' = [mb EXCEPT !.enabled = ~@]

MBNext == HostReports \/ BoardTimePasses \/ LeaderChecks \/ SwitchBoardMonitoring

-----------------------------------------------------------------------------
(* Properties. *)

MBTypeOK ==
    mb # Unmounted =>
      /\ mb.monitor \in BoardMonitors /\ mb.audit \in {"none", "stale", "healthy"}
      /\ mb.file.age \in 0 .. StaleAfter /\ mb.stored.age \in 0 .. BoardCooldown
      /\ mb.audit # "none" => mb.monitor = "watchdog"
      /\ mb.stored.active => mb.log[1] # "none"

(* The banner names a monitor exactly when its card shows it in trouble,   *)
(* whatever a stale file says and however the checks of an unreadable log  *)
(* and the switch follow each other; only a latency check that cannot read *)
(* the log is left to its card.                                            *)
BannerAgreesWithCards ==
    mb # Unmounted =>
      \/ BannerNames(mb) <=> MonitorCard(mb) \in {"unhealthy", "blocked", "stale", "breached", "unavailable"}
      \/ mb.monitor = "latency" /\ ~mb.stored.available

(* In the history, a recovery of the API or of the watchdog follows the    *)
(* failure it ends; the newest row of the watchdog is red exactly when the *)
(* last check found its file stale.                                        *)
RecoveryRowsPaired ==
    (mb # Unmounted /\ mb.monitor \in {"api", "watchdog"} /\ mb.log[1] # "none") =>
      /\ ManagerHealthHistoryRow(mb.log[1]) = "green" =>
           mb.log[2] # "none" /\ ManagerHealthHistoryRow(mb.log[2]) = "red"
      /\ mb.monitor = "watchdog" => (ManagerHealthHistoryRow(mb.log[1]) = "red") <=> (mb.audit = "stale")

=============================================================================
