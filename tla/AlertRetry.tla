----------------------------- MODULE AlertRetry -----------------------------
(***************************************************************************)
(* Retries of alerts that could not be delivered.  Each attempt leaves a   *)
(* row in the audit log, and the rows are all that the periodic sweep      *)
(* knows: it takes the newest failures that no row of its window is a      *)
(* retry of, sends them again one by one and commits the new rows together *)
(* at the end.  An administrator may retry any failed row meanwhile.       *)
(*                                                                         *)
(* The first row the sweep flushes takes SQLite's write lock, which it     *)
(* keeps while it sends the others: whoever wants to write waits for it or *)
(* gives up.  Messages, providers and categories are left out.             *)
(***************************************************************************)
EXTENDS Naturals, Sequences, FiniteSets, Functions

CONSTANTS
    MAX_AUTO_RETRY_ATTEMPTS,
    MAX_RETRIES_PER_RUN,
    Window,         \* the newest rows that are read (200)
    MaxAlerts,      \* bound: alerts
    MaxManual,      \* bound: retries by hand
    MaxCutOffs      \* bound: runs cut off

ASSUME LimitsAssumption ==
    MAX_AUTO_RETRY_ATTEMPTS \in Nat /\ MAX_RETRIES_PER_RUN \in Nat \ {0} /\ Window \in Nat
ASSUME AlertBoundsAssumption == MaxAlerts \in Nat /\ MaxManual \in Nat /\ MaxCutOffs \in Nat

VARIABLES
    rows,       \* committed rows about deliveries, oldest first
    aged,       \* so many of them are older than ALERT_RETRY_WINDOW_HOURS
    sweep,      \* the periodic run
    man,        \* the retry by hand that is under way
    alerts,     \* alerts so far
    autos,      \* history: automatic attempts of each alert
    manuals,    \* history: attempts of each alert by hand
    dropped,    \* history: automatic attempts whose row was lost
    cutOffs

retryVars == <<rows, aged, sweep, man, alerts, autos, manuals, dropped, cutOffs>>

AlertRow == [ok : BOOLEAN, of : Nat, attempt : Nat, alert : 1..MaxAlerts]
NoSweep == [todo |-> {}, sending |-> 0, pending |-> <<>>]
NoManual == [of |-> 0, ok |-> FALSE]
NoCount == [a \in 1..MaxAlerts |-> 0]

RetryInit ==
    /\ rows = <<>> /\ aged = 0 /\ sweep = NoSweep /\ man = NoManual
    /\ alerts = 0 /\ cutOffs = 0
    /\ autos = NoCount /\ manuals = NoCount /\ dropped = NoCount

WriteLocked == sweep.pending # <<>>
NoSweepUnderWay == sweep = NoSweep

(* notify_if_needed: an event is announced, and how that went is recorded  *)
(* in the transaction of the event.                                        *)
NewAlert(ok) ==
    /\ alerts < MaxAlerts /\ ~WriteLocked
    /\ alerts' = alerts + 1
    /\ rows' = Append(rows, [ok |-> ok, of |-> 0, attempt |-> 0, alert |-> alerts + 1])
    /\ UNCHANGED <<aged, sweep, man, autos, manuals, dropped, cutOffs>>

RowsAge ==
    /\ aged < Len(rows) /\ aged' = aged + 1
    /\ UNCHANGED <<rows, sweep, man, alerts, autos, manuals, dropped, cutOffs>>

(* The rows of the last hours, at most Window of them. *)
RecentRows == {i \in 1..Len(rows) : i > aged /\ i + Window > Len(rows)}

select_auto_retry_candidates ==
    LET retried == {rows[i].of : i \in RecentRows}
        candidates == {i \in RecentRows : /\ ~rows[i].ok /\ i \notin retried
                                      /\ rows[i].attempt < MAX_AUTO_RETRY_ATTEMPTS}
    IN  {i \in candidates : Cardinality({j \in candidates : j > i}) < MAX_RETRIES_PER_RUN}

SweepBegin ==
    /\ NoSweepUnderWay /\ select_auto_retry_candidates # {}
    /\ sweep' = [NoSweep EXCEPT !.todo = select_auto_retry_candidates]
    /\ UNCHANGED <<rows, aged, man, alerts, autos, manuals, dropped, cutOffs>>

(* deliver_alert, newest first. *)
SweepSend(i) ==
    /\ i \in sweep.todo /\ (\A j \in sweep.todo : j <= i) /\ sweep.sending = 0
    /\ sweep' = [sweep EXCEPT !.todo = @ \ {i}, !.sending = i]
    /\ autos' = [autos EXCEPT ![rows[i].alert] = @ + 1]
    /\ UNCHANGED <<rows, aged, man, alerts, manuals, dropped, cutOffs>>

(* In place of RetryRow: every attempt is counted as the first. *)
FirstRetryRow(i, ok) == [ok |-> ok, of |-> i, attempt |-> 1, alert |-> rows[i].alert]

RetryRow(i, ok) ==
    [ok |-> ok, of |-> i, attempt |-> rows[i].attempt + 1, alert |-> rows[i].alert]

(* record_delivery_result: the row is flushed, not committed. *)
SweepRecord(ok) ==
    /\ sweep.sending # 0
    /\ sweep' = [sweep EXCEPT !.sending = 0, !.pending = Append(@, RetryRow(sweep.sending, ok))]
    /\ UNCHANGED <<rows, aged, man, alerts, autos, manuals, dropped, cutOffs>>

SweepCommit ==
    /\ sweep.todo = {} /\ sweep.sending = 0 /\ sweep.pending # <<>>
    /\ rows' = rows \o sweep.pending
    /\ sweep' = NoSweep
    /\ UNCHANGED <<aged, man, alerts, autos, manuals, dropped, cutOffs>>

(* Attempts of an alert whose rows go when the sweep does. *)
Losing(a) ==
    Cardinality({k \in 1..Len(sweep.pending) : sweep.pending[k].alert = a})
      + (IF sweep.sending # 0 /\ rows[sweep.sending].alert = a THEN 1 ELSE 0)

(* The process ends, the leader changes, or a flush or the commit fails:   *)
(* the session is rolled back.                                             *)
SweepCutOff ==
    /\ ~NoSweepUnderWay /\ cutOffs < MaxCutOffs /\ cutOffs' = cutOffs + 1
    /\ dropped' = [a \in 1..MaxAlerts |-> dropped[a] + Losing(a)]
    /\ sweep' = NoSweep
    /\ UNCHANGED <<rows, aged, man, alerts, autos, manuals>>

(* retry_delivery of the audit router sends whatever failed row it is      *)
(* given.                                                                  *)
ManualSend(i, ok) ==
    /\ man = NoManual /\ ~rows[i].ok /\ SumFunction(manuals) < MaxManual
    /\ man' = [of |-> i, ok |-> ok]
    /\ manuals' = [manuals EXCEPT ![rows[i].alert] = @ + 1]
    /\ UNCHANGED <<rows, aged, sweep, alerts, autos, dropped, cutOffs>>

ManualRecord ==
    /\ man # NoManual /\ ~WriteLocked
    /\ rows' = Append(rows, [ok |-> man.ok, of |-> man.of, attempt |-> 0,
                             alert |-> rows[man.of].alert])
    /\ man' = NoManual
    /\ UNCHANGED <<aged, sweep, alerts, autos, manuals, dropped, cutOffs>>

(* The sweep keeps the lock for longer than SQLite waits. *)
ManualTimeout ==
    /\ man # NoManual /\ WriteLocked
    /\ man' = NoManual
    /\ UNCHANGED <<rows, aged, sweep, alerts, autos, manuals, dropped, cutOffs>>

RetryNext ==
    \/ \E ok \in BOOLEAN : NewAlert(ok)
    \/ RowsAge
    \/ SweepBegin \/ (\E i \in sweep.todo : SweepSend(i))
    \/ (\E ok \in BOOLEAN : SweepRecord(ok)) \/ SweepCommit \/ SweepCutOff
    \/ \E i \in 1..Len(rows), ok \in BOOLEAN : ManualSend(i, ok)
    \/ ManualRecord \/ ManualTimeout

RetrySpec == RetryInit /\ [][RetryNext]_retryVars

-----------------------------------------------------------------------------
(* Whatever is retried by hand, lost or delivered on the way, an alert is  *)
(* sent automatically at most MAX_AUTO_RETRY_ATTEMPTS times for its own    *)
(* failure and for each retry by hand, plus once for every attempt whose   *)
(* row was lost; the sweep works with rows about deliveries that happened. *)
RetriesBounded ==
    /\ rows \in Seq(AlertRow)
    /\ \A a \in 1..MaxAlerts :
         autos[a] <= MAX_AUTO_RETRY_ATTEMPTS * (1 + manuals[a]) + dropped[a]

=============================================================================
