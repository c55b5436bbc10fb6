-------------------------- MODULE CertificatesPage --------------------------
(***************************************************************************)
(* The certificates page: the list (polled), the drawer of one             *)
(* certificate with its checklist, and the preflight that the drawer runs  *)
(* on the server, compared there with the one before.  The page keeps only *)
(* the newest preflight request (the mutation of TanStack Query); the ones *)
(* it replaced still run, and are recorded, on the server.                 *)
(***************************************************************************)
EXTENDS Browser, Naturals, Sequences, FiniteSets

CONSTANTS CertDomains,      \* domains with a TLS router
          VolatileDomains,  \* those whose router is removed and added while the page is open
          MaxPreflights,    \* bound: preflights the user starts
          AlertThreshold, RepeatWindow, Cooldown,    \* CertificateDiagnosticsSettings, in days
          LastDay,          \* bound: days
          Probes            \* what a preflight may find

(* The settings count preflights and days.                                *)
ASSUME DiagnosticsAssumption ==
    /\ VolatileDomains \subseteq CertDomains
    /\ AlertThreshold \in Nat /\ RepeatWindow \in Nat /\ Cooldown \in Nat /\ LastDay \in Nat

VARIABLE ce

-----------------------------------------------------------------------------
(* A certificate: what Traefik says, the status and the checklist.         *)

CertFacts == [resolver : BOOLEAN, expires : {"never", "past", "soon", "later"},
              acme : {"none", "dns", "rate_limit", "unknown"}]

(* to_certificate_response; in place of it, the status it starts from.     *)
UnknownExpiryWarns(c) ==
    CASE c.expires = "past" -> "error" [] c.expires = "later" -> "active" [] OTHER -> "warning"

CertStatus(c) ==
    CASE c.expires = "past" -> "error"
      [] c.expires = "soon" -> "warning"
      [] c.expires = "later" -> "active"
      [] c.expires = "never" /\ c.resolver -> "pending"
      [] OTHER -> "inactive"

(* getCertificateChecklistItems; a listed certificate has a router.        *)
ChecklistItems(c) ==
    [resolver |-> IF c.resolver THEN "ok" ELSE "fail",
     issued   |-> CASE c.expires # "never" -> "ok" [] CertStatus(c) = "pending" -> "pending"
                    [] OTHER -> "fail",
     recent   |-> IF c.acme = "none" THEN "ok" ELSE "fail"]

(* getCertificateChecklistAction *)
ChecklistAction(c) ==
    CASE c.acme \in {"dns", "rate_limit"} -> c.acme
      [] c.acme \notin {"dns", "rate_limit"} /\ ~c.resolver -> "attachResolver"
      [] OTHER -> IF CertStatus(c) \in {"pending", "inactive"} THEN CertStatus(c) ELSE "nothingToDo"

-----------------------------------------------------------------------------
(* Preflights.  What a probe finds, Probes, is one of "fine", "redirected",*)
(* "defaultCert" and "closed"; its items have a status and a detail.      *)

PreflightItems(probe) ==
    [http  |-> IF probe = "closed" THEN [status |-> 2, detail |-> "noAnswer"]
               ELSE [status |-> 0, detail |-> IF probe = "redirected" THEN "301" ELSE "200"],
     https |-> [status |-> IF probe = "defaultCert" THEN 1 ELSE 0, detail |-> probe = "defaultCert"]]

(* compute_preflight_overall_status: 0 ok, 1 warning, 2 error. *)
Overall(probe) == LET items == PreflightItems(probe)
                  IN  IF items.http.status = 2 THEN 2 ELSE items.https.status

FailingKeys(probe) == {k \in {"http", "https"} : PreflightItems(probe)[k].status > 0}

(* get_preflight_failure_signature *)
Signature(probe) == [overall |-> Overall(probe), keys |-> FailingKeys(probe)]

(* calculate_preflight_failure_streak; the newest preflight is the first.  *)
(* Records beyond the threshold and one more are dropped from the history: *)
(* the streak is only compared with the threshold.                         *)
FailureStreak(history) ==
    LET Repeats(k) == /\ Signature(history[k].probe) = Signature(history[1].probe)
                      /\ history[1].day - history[k].day <= RepeatWindow
    IN  IF history = <<>> \/ Overall(Head(history).probe) = 0 THEN 0
        ELSE Cardinality({n \in 1 .. Len(history) : \A k \in 1 .. n : Repeats(k)})

(* record_certificate_preflight_result: the repeated failure is reported   *)
(* when the streak reaches the threshold, unless the newest report of the  *)
(* same failure is within the cooldown; in place of it, at every threshold.*)
ReportAtThreshold(alerts, history) ==
    FailureStreak(history) = AlertThreshold

ShouldReport(alerts, history) ==
    LET earlier == {i \in DOMAIN alerts : alerts[i].signature = Signature(Head(history).probe)}
    IN  /\ FailureStreak(history) = AlertThreshold
        /\ \A newest \in earlier :
             (\A i \in earlier : newest <= i) => Head(history).day - alerts[newest].day > Cooldown

Recorded(s, d, probe) ==
    LET all == <<[probe |-> probe, day |-> s.day]>> \o s.history[d]
        history == SubSeq(all, 1, IF Len(all) > AlertThreshold THEN AlertThreshold + 1 ELSE Len(all))
    IN  [s EXCEPT !.history[d] = history,
                  !.alerts[d] = IF ShouldReport(@, history)
                                THEN <<[signature |-> Signature(probe), day |-> s.day]>> \o @ ELSE @]

(* The comparison that the drawer shows: getPreflightTrend and             *)
(* getChangedPreflightItems.                                               *)
PreflightTrend(now, before) ==
    CASE Overall(now) < Overall(before) -> "better"
      [] Overall(now) > Overall(before) -> "worse"
      [] OTHER -> "same"

(* In place of ChangedItems: only the challenge path is compared. *)
ChangedHttp(now, before) ==
    {k \in {"http"} : PreflightItems(now)[k] # PreflightItems(before)[k]}

ChangedItems(now, before) ==
    {k \in {"http", "https"} : PreflightItems(now)[k] # PreflightItems(before)[k]}

Comparison(now, before) ==
    [trend |-> PreflightTrend(now, before), changed |-> ChangedItems(now, before)]

-----------------------------------------------------------------------------
(* The page.  request is the mutation; strays are replaced requests that   *)
(* the server has not handled yet.                                         *)

NoPreflight == [status |-> "idle"]

CEMounted ==
      ce = LET none == [d \in CertDomains |-> <<>>]
           IN  [listed |-> CertDomains, history |-> none, alerts |-> none, day |-> 0,
                list |-> CertDomains, listError |-> FALSE, selected |-> "none",
                request |-> NoPreflight, strays |-> {}, started |-> 0]

DrawerOpen(s) == ~s.listError /\ s.selected \in s.list

(* The rows are shown without an error, and covered by an open drawer.     *)
Openable(d) == ~ce.listError /\ ~DrawerOpen(ce) /\ d \in ce.list

CertListRefetched == ce' = [ce EXCEPT !.list = ce.listed, !.listError = FALSE]
CertListFails == ~ce.listError /\ ce' = [ce EXCEPT !.listError = TRUE]

(* mutate: the request under way, if any, is no longer watched.            *)
runPreflight(s, d) ==
    [s EXCEPT !.strays = @ \cup IF s.request.status = "sent" THEN {s.request.domain} ELSE {},
              !.request = [status |-> "sent", domain |-> d], !.started = @ + 1]

resetPreflight(s) ==
    [s EXCEPT !.strays = @ \cup IF s.request.status = "sent" THEN {s.request.domain} ELSE {},
              !.request = NoPreflight]

(* In place of openCertificateDrawer: a finished request is not repeated.  *)
openWithoutRun(d) ==
    /\ ce.started < MaxPreflights /\ Openable(d)
    /\ ce' = IF ce.request.status = "idle" THEN runPreflight([ce EXCEPT !.selected = d], d)
             ELSE [ce EXCEPT !.selected = d]

openCertificateDrawer(d) ==
    /\ ce.started < MaxPreflights /\ Openable(d)
    /\ ce' = runPreflight([ce EXCEPT !.selected = d], d)

closeCertificateDrawer ==
    /\ DrawerOpen(ce)
    /\ ce' = resetPreflight([ce EXCEPT !.selected = "none"])

RunPreflightAgain ==
    /\ DrawerOpen(ce) /\ ce.request.status \notin {"sent", "done"} /\ ce.started < MaxPreflights
    /\ ce' = runPreflight(ce, ce.selected)

(* The server handles the request; its answer holds the preflight before.  *)
PreflightHandled ==
    /\ ce.request.status = "sent"
    /\ \E probe \in Probes :
         LET d == ce.request.domain
         IN  ce' = [Recorded(ce, d, probe) EXCEPT !.request =
               [status |-> "done", domain |-> d, probe |-> probe,
                previous |-> IF ce.history[d] = <<>> THEN "none" ELSE Head(ce.history[d]).probe]]

PreflightAnswered ==
    /\ ce.request.status = "done"
    /\ ce' = [ce EXCEPT !.request.status = "success"]

PreflightFails ==
    /\ ce.request.status \in {"sent", "done"}
    /\ ce' = [ce EXCEPT !.request = [status |-> "error", domain |-> ce.request.domain]]

StrayHandled ==
    \E d \in ce.strays, probe \in Probes :
      ce' = [Recorded(ce, d, probe) EXCEPT !.strays = @ \ {d}]

(* A router is added or removed; time passes. *)
RoutersChange(d) ==
    ce' = [ce EXCEPT !.listed = IF d \in @ THEN @ \ {d} ELSE @ \cup {d}]

DayPasses == ce.day < LastDay /\ ce' = [ce EXCEPT !.day = @ + 1]

CENext ==
    \/ CertListRefetched \/ CertListFails \/ closeCertificateDrawer \/ RunPreflightAgain
    \/ (\E d \in CertDomains : openCertificateDrawer(d)) \/ (\E d \in VolatileDomains : RoutersChange(d))
    \/ PreflightHandled \/ PreflightAnswered \/ PreflightFails \/ StrayHandled \/ DayPasses

-----------------------------------------------------------------------------
(* Properties. *)

CETypeOK ==
    ce # Unmounted =>
      /\ ce.listed \subseteq CertDomains /\ ce.list \subseteq CertDomains
      /\ ce.selected \in CertDomains \cup {"none"} /\ ce.strays \subseteq CertDomains
      /\ ce.request.status \in {"idle", "sent", "done", "success", "error"}
      /\ \A d \in CertDomains : Len(ce.history[d]) <= AlertThreshold + 1

(* The drawer never shows the preflight, the error or the progress of      *)
(* another certificate: also when its own left the list and came back, and *)
(* the answer of the certificate opened before it is late.                 *)
PreflightOfOpened ==
    (ce # Unmounted /\ DrawerOpen(ce) /\ ce.request # NoPreflight) =>
      ce.request.domain = ce.selected

(* The comparison names the item that made the result better or worse.     *)
TrendHasReason ==
    (ce # Unmounted /\ ce.request.status = "success" /\ ce.request.previous # "none") =>
      LET shown == Comparison(ce.request.probe, ce.request.previous)
      IN  shown.trend # "same" => shown.changed # {}

(* The same failure of a domain is not reported twice within the cooldown, *)
(* however preflights of it follow each other, and two reports of it are   *)
(* at least a threshold of preflights apart.                               *)
ReportsApart ==
    ce # Unmounted =>
      \A d \in CertDomains : \A i, j \in DOMAIN ce.alerts[d] :
        (i < j /\ ce.alerts[d][i].signature = ce.alerts[d][j].signature) =>
          ce.alerts[d][i].day - ce.alerts[d][j].day > Cooldown

(* A fault in the checklist comes with advice, except an ACME failure that *)
(* was not classified: the backend's status and the page's advice agree.   *)
AdviceForEveryFault ==
    ce # Unmounted =>
      \A c \in CertFacts :
        (c.acme # "unknown" /\ \E k \in {"resolver", "issued", "recent"} : ChecklistItems(c)[k] = "fail")
          => ChecklistAction(c) # "nothingToDo"

=============================================================================
