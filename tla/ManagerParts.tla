---------------------------- MODULE ManagerParts ----------------------------
(***************************************************************************)
(* Parts of the manager whose requests overlap with each other, with those *)
(* of other administrators and with the host: nine pages of the dashboard  *)
(* (the settings, the configuration backup, the list of services, the      *)
(* assignment of middlewares, redirect hosts and users, the row actions of *)
(* the audit log, the Traefik update panel, certificates, monitors) and    *)
(* three parts of the backend (accounts and sessions, retries of alerts,   *)
(* retention of the audit log).                                            *)
(*                                                                         *)
(* The router shows one page at a time, and what two parts share is on the *)
(* server or stored by the first before the second is opened: a behaviour  *)
(* is one visit of one page, or one part of the backend, while every other *)
(* page is unmounted and the other parts of the backend rest.              *)
(***************************************************************************)
EXTENDS SettingsForms, BackupImport, ServicesPage, MiddlewareAssignment,
        CatalogPages, AuditActions, UpdatePanel, CertificatesPage,
        MonitorBoard, AccountSessions, AlertRetry, AuditRetention

VARIABLE part   \* the part that is explored

pages == <<st, bk, sv, ma, ct, ac, up, ce, mb>>
managerVars == <<part, pages, accountVars, retryVars, retentionVars>>

Pages == {"st", "bk", "sv", "ma", "ct", "ac", "up", "ce", "mb"}
Parts == Pages \cup {"accounts", "retry", "retention"}

Init ==
    /\ part \in Parts
    /\ IF part = "st" THEN STMounted ELSE st = Unmounted
    /\ IF part = "bk" THEN BKMounted ELSE bk = Unmounted
    /\ IF part = "sv" THEN SVMounted ELSE sv = Unmounted
    /\ IF part = "ma" THEN MAMounted ELSE ma = Unmounted
    /\ IF part = "ct" THEN CTMounted ELSE ct = Unmounted
    /\ IF part = "ac" THEN ACMounted ELSE ac = Unmounted
    /\ IF part = "up" THEN UPMounted ELSE up = Unmounted
    /\ IF part = "ce" THEN CEMounted ELSE ce = Unmounted
    /\ IF part = "mb" THEN MBMounted ELSE mb = Unmounted
    /\ IF part = "accounts" THEN AccountsInit
       ELSE AccountsStart(CHOOSE c \in Campaigns : TRUE, CHOOSE t \in Installations : TRUE)
    /\ RetryInit
    /\ IF part = "retention" THEN RetentionInit ELSE RetentionStart(TRUE)

(* The parts other than p stay as they are.                                *)
OnlyMoves(p) ==
    /\ part = p /\ part' = p
    /\ IF p = "st" THEN TRUE ELSE UNCHANGED st
    /\ IF p = "bk" THEN TRUE ELSE UNCHANGED bk
    /\ IF p = "sv" THEN TRUE ELSE UNCHANGED sv
    /\ IF p = "ma" THEN TRUE ELSE UNCHANGED ma
    /\ IF p = "ct" THEN TRUE ELSE UNCHANGED ct
    /\ IF p = "ac" THEN TRUE ELSE UNCHANGED ac
    /\ IF p = "up" THEN TRUE ELSE UNCHANGED up
    /\ IF p = "ce" THEN TRUE ELSE UNCHANGED ce
    /\ IF p = "mb" THEN TRUE ELSE UNCHANGED mb
    /\ IF p = "accounts" THEN TRUE ELSE UNCHANGED accountVars
    /\ IF p = "retry" THEN TRUE ELSE UNCHANGED retryVars
    /\ IF p = "retention" THEN TRUE ELSE UNCHANGED retentionVars

Next ==
    \/ OnlyMoves("st") /\ STNext
    \/ OnlyMoves("bk") /\ BKNext
    \/ OnlyMoves("sv") /\ SVNext
    \/ OnlyMoves("ma") /\ MANext
    \/ OnlyMoves("ct") /\ CTNext
    \/ OnlyMoves("ac") /\ ACNext
    \/ OnlyMoves("up") /\ UPNext
    \/ OnlyMoves("ce") /\ CENext
    \/ OnlyMoves("mb") /\ MBNext
    \/ OnlyMoves("accounts") /\ AccountsNext
    \/ OnlyMoves("retry") /\ RetryNext
    \/ OnlyMoves("retention") /\ RetentionNext

Spec == Init /\ [][Next]_managerVars

-----------------------------------------------------------------------------
(* The fields of the page that is open have their types. *)
PagesTypeOK ==
    /\ STTypeOK /\ BKTypeOK /\ SVTypeOK /\ MATypeOK /\ CTTypeOK /\ ACTypeOK
    /\ UPTypeOK /\ CETypeOK /\ MBTypeOK

(* Whatever order requests and answers come in, a result on screen is      *)
(* about what it is shown for, and nothing is done twice: previews, tests, *)
(* reviews and preflights belong to the form, file or certificate beside   *)
(* them; lists show what was saved; retries, alerts, reports and requests  *)
(* to the host are those the page shows, once each; every fault has its    *)
(* cause, its advice and its place in the banner.  Types included.         *)
AnswersBelong ==
    /\ PagesTypeOK
    /\ PreviewIsOfForm /\ TestIsOfStoredSettings
    /\ PreviewForetells /\ ReviewIsOfChoice
    /\ RetryIsWhatIsShown /\ ReloadShowsSame /\ OneCausePerFailure
    /\ AssignedAsChecked /\ UntouchedDialogSendsNothing /\ ListShowsSave
    /\ NoDoubleRowAction /\ CountIsOfRange
    /\ QueuedIsPatch /\ AlertDeliveredOnce /\ OfferedIsPatch /\ BlockedIsExplained
    /\ PreflightOfOpened /\ TrendHasReason /\ ReportsApart /\ AdviceForEveryFault
    /\ BannerAgreesWithCards /\ RecoveryRowsPaired

(* What a save, an import or an operation on several services changes on   *)
(* the server is confined to what was asked for, also when a part of it    *)
(* fails, when it is repeated and when others save meanwhile; afterwards   *)
(* the page shows it and reports what failed.                              *)
WritesConfined ==
    /\ ReadYourWrites /\ OnlyTypedSettingsChange
    /\ FailedMergeKeepsRoutes /\ RepeatedImportHarmless
    /\ BulkReportTrue /\ CleanSaveKeepsOthers /\ EditKeepsUntyped

=============================================================================
