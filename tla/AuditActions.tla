---------------------------- MODULE AuditActions ----------------------------
(***************************************************************************)
(* What the audit page does with entries: rolling a change back and        *)
(* sending a failed alert again (useAuditLogActions.ts, the panels of a    *)
(* row and the cards of bulk operations), and the CSV export of the smoke  *)
(* account rotations with its count (useAuditRotationExportModel.ts).  The *)
(* alert card of the settings page sends failed alerts again as well, with *)
(* a lock of its own (useSettingsAlertRetry.ts): the kind "resend".        *)
(***************************************************************************)
EXTENDS Browser, Naturals, FiniteSets

CONSTANTS
    Logs,             \* audit entries with an action panel
    MaxRowRequests,   \* bound: requests of the three kinds per visit
    RotationDays      \* days on which a rotation was recorded

RowActions == {"rollback", "retry", "resend"}
NoLog == "noLog"
NoRange == 0
RotationToday == 3
AllDays == 1..RotationToday

(* Rotations are recorded up to today.                                     *)
ASSUME RotationsAssumption == RotationDays \subseteq AllDays

VARIABLE ac

(* The rotations a period and a range select. *)
RotationCount(period, from, to) ==
    Cardinality({d \in RotationDays :
                   CASE period = "all" -> TRUE
                     [] period = "7" -> d >= 2
                     [] period = "custom" -> from <= d /\ d <= to})

isRangeValid(s) ==
    s.period # "custom" \/ (s.from # NoRange /\ s.to # NoRange /\ s.from <= s.to)

ACMounted ==
    ac = [flying |-> [k \in RowActions |-> {}], latest |-> [k \in RowActions |-> 0],
          target |-> [k \in RowActions |-> NoLog], sent |-> 0, overlap |-> FALSE,
          period |-> "all", from |-> NoRange, to |-> NoRange,
          shown |-> 0, fetching |-> TRUE, failed |-> FALSE]

-----------------------------------------------------------------------------
(* Row actions.  isPending is that of the last mutation; the button of a   *)
(* row is disabled while a mutation is pending and the row is its target,  *)
(* the buttons of the settings page while any mutation is pending.         *)

LogsFlying(s, kind) == {r[2] : r \in s.flying[kind]}

(* In place of RowLocked: the buttons stay enabled. *)
NeverLocked(kind, log) == FALSE

isRowPending(kind) == \E r \in ac.flying[kind] : r[1] = ac.latest[kind]

RowLocked(kind, log) == isRowPending(kind) /\ ac.target[kind] = log

StartRowAction(kind, log) ==
    /\ ac.sent < MaxRowRequests
    /\ LET n == ac.sent + 1
           next == [ac EXCEPT !.sent = n, !.flying[kind] = @ \union {<<n, log>>},
                              !.latest[kind] = n, !.target[kind] = log]
       IN  ac' = [next EXCEPT !.overlap =
                    @ \/ \E k \in RowActions : Cardinality(LogsFlying(next, k)) > 1]

HandleRollback(log) == ~RowLocked("rollback", log) /\ StartRowAction("rollback", log)
HandleRetryDelivery(log) == ~RowLocked("retry", log) /\ StartRowAction("retry", log)

(* The settings page: the banner offers the last failure, the history      *)
(* below it every failed event, the last failure included.                 *)
LastFailure == CHOOSE log \in Logs : TRUE

HandleResend(log) == StartRowAction("resend", log)
ResendLastFailure == Logs # {} /\ ~isRowPending("resend") /\ HandleResend(LastFailure)
ResendFailedEvent(log) == ~isRowPending("resend") /\ HandleResend(log)

(* The finally block forgets the target, whichever request it belongs to. *)
RowActionSettled(kind) ==
    \E r \in ac.flying[kind] :
      LET next == [ac EXCEPT !.flying[kind] = @ \ {r}, !.target[kind] = NoLog]
      IN  ac' = [next EXCEPT !.overlap =
                   @ /\ \E k \in RowActions : next.flying[k] # {}]

-----------------------------------------------------------------------------
(* The rotation export.  The count query is keyed by the range; while a    *)
(* new key loads the previous count stays as placeholder.                  *)

(* In place of CountStatus: the placeholder counts as the answer. *)
PlaceholderReady ==
    CASE ~isRangeValid(ac) -> "waiting"
      [] isRangeValid(ac) /\ ac.failed -> "error"
      [] OTHER -> "ready"

CountStatus ==
    CASE ~isRangeValid(ac) -> "waiting"
      [] isRangeValid(ac) /\ ac.fetching -> "loading"
      [] isRangeValid(ac) /\ ~ac.fetching /\ ac.failed -> "error"
      [] OTHER -> "ready"

(* A key whose answer is cached and fresh needs no request. *)
Requery(s) ==
    {[s EXCEPT !.fetching = isRangeValid(s), !.failed = FALSE]} \union
    (IF isRangeValid(s)
     THEN {[s EXCEPT !.fetching = FALSE, !.failed = FALSE,
                     !.shown = RotationCount(s.period, s.from, s.to)]}
     ELSE {})

SetRotationPeriod(period) ==
    period # ac.period /\ ac' \in Requery([ac EXCEPT !.period = period])

SetRotationStart(day) ==
    ac.period = "custom" /\ ac' \in Requery([ac EXCEPT !.from = day])

SetRotationEnd(day) ==
    ac.period = "custom" /\ ac' \in Requery([ac EXCEPT !.to = day])

(* Offered when the count is zero: the day of the latest rotation, or today. *)
SetRotationRange(day) ==
    /\ CountStatus = "ready" /\ ac.shown = 0
    /\ ac' \in Requery([ac EXCEPT !.period = "custom", !.from = day, !.to = day])

CountAnswered ==
    /\ ac.fetching
    /\ \/ ac' = [ac EXCEPT !.fetching = FALSE, !.failed = FALSE,
                           !.shown = RotationCount(ac.period, ac.from, ac.to)]
       \/ ac' = [ac EXCEPT !.fetching = FALSE, !.failed = TRUE]

ACNext ==
    \/ \E log \in Logs : HandleRollback(log) \/ HandleRetryDelivery(log)
    \/ ResendLastFailure
    \/ \E log \in Logs : ResendFailedEvent(log)
    \/ \E kind \in RowActions : RowActionSettled(kind)
    \/ \E period \in {"all", "7", "custom"} : SetRotationPeriod(period)
    \/ \E day \in AllDays \union {NoRange} : SetRotationStart(day) \/ SetRotationEnd(day)
    \/ \E day \in RotationDays \union {RotationToday} : SetRotationRange(day)
    \/ CountAnswered

-----------------------------------------------------------------------------
(* Properties. *)

ACTypeOK ==
    ac # Unmounted =>
      /\ ac.target \in [RowActions -> Logs \union {NoLog}]
      /\ ac.from \in AllDays \union {NoRange} /\ ac.to \in AllDays \union {NoRange}
      /\ ac.shown \in 0..Cardinality(RotationDays)

(* A row's rollback or redelivery is sent once: a second request for the   *)
(* same row can be on its way only if requests for two different rows      *)
(* overlapped, because the page remembers a single target.  The settings   *)
(* page, which locks every button, never has two requests on their way,    *)
(* although the same failure is offered in two places.                     *)
NoDoubleRowAction ==
    ac # Unmounted =>
      \A kind \in RowActions :
        (kind = "resend" \/ ~ac.overlap) => Cardinality(ac.flying[kind]) <= 1

(* A count that is presented as final is the count of the range the CSV    *)
(* link downloads, never the placeholder of the range chosen before.       *)
CountIsOfRange ==
    (ac # Unmounted /\ CountStatus = "ready") =>
      ac.shown = RotationCount(ac.period, ac.from, ac.to)

=============================================================================
