-------------------------- MODULE ServiceDiagnosis --------------------------
(***************************************************************************)
(* The gateway diagnosis that follows the saving of a service, for one     *)
(* service: the form saves, waits and asks the server for a diagnosis up   *)
(* to three times, leaves a notice in the session storage and goes to the  *)
(* list page, which shows the notice once, a badge and a short history per *)
(* service.  Diagnoses are also recorded from the card of the service and  *)
(* by other administrators; all of them are in the audit log, newest last, *)
(* and are named by their position there (0: none).                        *)
(***************************************************************************)
EXTENDS Browser, Naturals, Sequences

CONSTANTS
    MaxSaves,        \* bound: saves of the form
    MaxDiagnoses     \* bound: diagnoses in the audit log

MaxAttempts == 3
Results == {"ok", "router missing", "network missing"}
NoNotice == [id |-> 0]
NoWork == [phase |-> "none"]

VARIABLE dg

DGMounted ==
    dg = [page |-> "form", log |-> << >>, cached |-> 0, saves |-> 0,
          snapshot |-> NoNotice, pending |-> NoNotice, seen |-> {},
          local |-> NoNotice, banner |-> NoNotice, connectionError |-> FALSE,
          save |-> NoWork, connect |-> NoWork]

-----------------------------------------------------------------------------
(* The two pages and the session storage. *)

(* In place of consumeNotice: the notice is read, not removed. *)
RememberNotice(notice) == notice

consumeNotice(notice) == NoNotice

(* The mount effect of the list page. *)
ListOpened(s) ==
    [s EXCEPT !.page = "list", !.banner = s.pending, !.local = s.snapshot,
              !.pending = consumeNotice(s.pending),
              !.seen = @ \union {s.pending.id}, !.connectionError = FALSE]

(* router.push to the page that is already open mounts nothing. *)
storeServiceSaveDiagnosisNotice(s, notice) ==
    LET stored == [s EXCEPT !.pending = notice, !.snapshot = notice, !.save = NoWork]
    IN  IF s.page = "list" THEN stored ELSE ListOpened(stored)

OpenForm ==
    /\ dg.page = "list" /\ dg.saves < MaxSaves
    /\ dg' = [dg EXCEPT !.page = "form", !.banner = NoNotice, !.local = NoNotice,
                        !.connectionError = FALSE,
                        !.connect = IF @.phase = "none" THEN @ ELSE [@ EXCEPT !.detached = TRUE]]

LeaveForm ==
    /\ dg.page = "form"
    /\ dg' = ListOpened(dg)

CloseBanner ==
    /\ dg.page = "list" /\ dg.banner # NoNotice
    /\ dg' = [dg EXCEPT !.banner = NoNotice, !.connectionError = FALSE]

-----------------------------------------------------------------------------
(* Saving, and the diagnosis that follows. *)

(* Bound: one save with its diagnosis at a time. *)
SaveService(active) ==
    /\ dg.page = "form" /\ dg.save = NoWork /\ dg.saves < MaxSaves
    /\ dg' = [dg EXCEPT !.saves = @ + 1,
                        !.save = [phase |-> IF active THEN "delay" ELSE "ask",
                                  active |-> active, attempt |-> 1, last |-> 0, at |-> 0]]

DelayOver ==
    /\ dg.save.phase = "delay"
    /\ dg' = [dg EXCEPT !.save.phase = "ask"]

Recorded(s, result) == [s EXCEPT !.log = Append(@, result)]

DiagnosisRecorded(result) ==
    /\ dg.save.phase = "ask" /\ Len(dg.log) < MaxDiagnoses
    /\ dg' = [Recorded(dg, result) EXCEPT !.save.phase = "answer",
                                          !.save.at = Len(dg.log) + 1]

buildNotice(id, at, failed) == [id |-> id, at |-> at, error |-> failed]

shouldRetryDiagnosis(save) == dg.log[save.at] = "router missing" /\ save.attempt < MaxAttempts

SaveAnswered ==
    /\ dg.save.phase = "answer"
    /\ IF dg.save.active /\ shouldRetryDiagnosis(dg.save)
         THEN dg' = [dg EXCEPT !.save = [dg.save EXCEPT !.phase = "delay", !.attempt = dg.save.attempt + 1,
                                                        !.last = dg.save.at]]
         ELSE dg' = storeServiceSaveDiagnosisNotice(dg, buildNotice(dg.saves, dg.save.at, FALSE))

(* The request fails, before or after the server recorded the diagnosis:   *)
(* the notice holds the diagnosis of the previous attempt.                 *)
FailureEscapes ==
    /\ dg.save.phase \in {"ask", "answer"}
    /\ dg' = [dg EXCEPT !.save = NoWork]
SaveDiagnosisFails ==
    /\ dg.save.phase \in {"ask", "answer"}
    /\ dg' = storeServiceSaveDiagnosisNotice(dg, buildNotice(dg.saves, dg.save.last, TRUE))

-----------------------------------------------------------------------------
(* "Connect the network" of the banner: connect, diagnose again, replace   *)
(* the notice, also when the banner was closed in between.                 *)

canConnectNetwork ==
    /\ dg.page = "list" /\ dg.banner # NoNotice /\ ~dg.connectionError
    /\ dg.banner.at # 0 /\ dg.log[dg.banner.at] = "network missing"

(* isConnecting disables the button; bound: one connection at a time. *)
handleConnectNetwork ==
    /\ canConnectNetwork /\ dg.connect = NoWork
    /\ dg' = [dg EXCEPT !.connect = [phase |-> "ask", notice |-> dg.banner.id, at |-> 0,
                                     detached |-> FALSE]]

ConnectRecorded(result) ==
    /\ dg.connect.phase = "ask" /\ Len(dg.log) < MaxDiagnoses
    /\ dg' = [Recorded(dg, result) EXCEPT !.connect.phase = "answer",
                                          !.connect.at = Len(dg.log) + 1]

ConnectAnswered ==
    /\ dg.connect.phase = "answer"
    /\ LET next == buildNotice(dg.connect.notice, dg.connect.at, FALSE)
           stored == [dg EXCEPT !.snapshot = next, !.connect = NoWork]
       IN  dg' = IF dg.connect.detached THEN stored
                 ELSE [stored EXCEPT !.banner = next, !.local = next]

ConnectFails ==
    /\ dg.connect.phase \in {"ask", "answer"}
    /\ dg' = [dg EXCEPT !.connect = NoWork,
                        !.connectionError = ~dg.connect.detached /\ dg.banner # NoNotice]

-----------------------------------------------------------------------------
(* The other sources of diagnoses, and the audit log query. *)

(* The button of the card, or another administrator. *)
DiagnoseElsewhere(result) ==
    /\ dg.page = "list" /\ Len(dg.log) < MaxDiagnoses
    /\ dg' = Recorded(dg, result)

AuditRefetched ==
    /\ dg.cached # Len(dg.log)
    /\ dg' = [dg EXCEPT !.cached = Len(dg.log)]

(* combinedDiagnosisSnapshots: what the badge of the card shows. *)
Badge == IF dg.local # NoNotice THEN dg.local.at ELSE dg.cached

FirstThree(history) == SubSeq(history, 1, IF Len(history) < 3 THEN Len(history) ELSE 3)

ServerHistory == FirstThree([i \in 1..dg.cached |-> dg.cached + 1 - i])

(* In place of WithLocal: the local diagnosis is not compared. *)
PrependAlways(current, at) == FirstThree(<<at>> \o current)

WithLocal(current, at) ==
    IF current # << >> /\ current[1] = at THEN current ELSE FirstThree(<<at>> \o current)

mergeDiagnosisHistories ==
    IF dg.local = NoNotice \/ dg.local.at = 0 THEN ServerHistory
    ELSE WithLocal(ServerHistory, dg.local.at)

DGNext ==
    \/ OpenForm \/ LeaveForm \/ CloseBanner
    \/ \E active \in BOOLEAN : SaveService(active)
    \/ DelayOver \/ SaveAnswered \/ SaveDiagnosisFails
    \/ \E result \in Results :
         DiagnosisRecorded(result) \/ ConnectRecorded(result) \/ DiagnoseElsewhere(result)
    \/ handleConnectNetwork \/ ConnectAnswered \/ ConnectFails
    \/ AuditRefetched

(* Timers fire and requests are answered. *)
DGFairness ==
    /\ WF_dg(dg # Unmounted /\ DelayOver)
    /\ WF_dg(dg # Unmounted /\ (SaveAnswered \/ SaveDiagnosisFails
               \/ \E result \in Results : DiagnosisRecorded(result)))

-----------------------------------------------------------------------------
(* Properties. *)

DGTypeOK ==
    dg # Unmounted =>
      /\ dg.page \in {"form", "list"} /\ dg.cached \in 0..Len(dg.log)
      /\ dg.save # NoWork => dg.save.attempt \in 1..MaxAttempts /\ dg.save.at \in 0..Len(dg.log)
      /\ dg.page = "form" => dg.banner = NoNotice /\ dg.local = NoNotice

(* The notice of a save opens the banner of the list page at most once,    *)
(* whatever way the user takes between the pages while the diagnosis runs. *)
NoticeShownOnce ==
    [][(dg # Unmounted /\ dg' # Unmounted /\ dg.page = "form" /\ dg'.page = "list"
          /\ dg'.banner # NoNotice)
        => dg'.banner.id \notin dg.seen]_dg

(* The history of a card lists at most three diagnoses, each once, newest  *)
(* first, as long as the audit log that was fetched holds none that is     *)
(* newer than the diagnosis kept in the session.                           *)
HistorySound ==
    (dg # Unmounted /\ dg.page = "list"
       /\ (dg.local # NoNotice /\ dg.local.at # 0 => dg.local.at >= dg.cached))
      => LET history == mergeDiagnosisHistories
         IN  /\ Len(history) <= 3
             /\ \A i \in 1..(Len(history) - 1) : history[i] > history[i + 1]

(* After a save the list page is reached, also when no diagnosis can be    *)
(* had.                                                                    *)
SaveReported ==
    (dg # Unmounted /\ dg.save # NoWork)
      ~> (dg = Unmounted \/ (dg.save = NoWork /\ dg.page = "list"))

=============================================================================
