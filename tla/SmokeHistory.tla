---------------------------- MODULE SmokeHistory -----------------------------
(***************************************************************************)
(* The history of smoke runs on the settings page: filters kept in the     *)
(* query string (useSmokeRecentRunFilters.ts), the list and its pages      *)
(* (SmokeRecentRunHistory.tsx), the trend chart with a selection of its    *)
(* own and the manual classification of failures                           *)
(* (SmokeFailureTypeTrend.tsx).                                            *)
(***************************************************************************)
EXTENDS Browser, Naturals, FiniteSets, Sequences

CONSTANTS
    HistoryPages,      \* pages the server has for any filter
    UnclassifiedRuns   \* failed runs without a failure type

ASSUME HistoryAssumption == HistoryPages \in Nat

RunStatuses == {"all", "success", "failure", "cancelled"}
NoCategory == "none"
DefaultHistory == [search |-> "", status |-> "all", failureType |-> "all",
                   reason |-> "all", days |-> 30, page |-> 1]

VARIABLE sh   \* filters, the text being typed, the URL, trend and requests

-----------------------------------------------------------------------------
(* In place of readHistoryFilters: a failure type is taken from the URL    *)
(* whatever the status is.                                                 *)
TrustedSubfilter(url) ==
    [url EXCEPT !.status = IF @ \in RunStatuses THEN @ ELSE "all",
                !.reason = IF url.status = "cancelled" THEN @ ELSE "all",
                !.days = IF @ = 7 THEN 7 ELSE 30,
                !.page = IF @ > 0 THEN @ ELSE 1]

(* readHistoryFilters: sub-filters count only under their status, and a    *)
(* value that is not offered means the default.                            *)
readHistoryFilters(url) ==
    [url EXCEPT !.status = IF @ \in RunStatuses THEN @ ELSE "all",
                !.failureType = IF url.status = "failure" THEN @ ELSE "all",
                !.reason = IF url.status = "cancelled" THEN @ ELSE "all",
                !.days = IF @ = 7 THEN 7 ELSE 30,
                !.page = IF @ > 0 THEN @ ELSE 1]

(* A query string from a bookmark, a typed URL or the link of an audit     *)
(* entry (getSmokeFailureRunHistoryUrl: search and status failure).        *)
HistoryLinks ==
    [search : {"", "run"}, status : {"all", "failure", "cancelled", "weird"},
     failureType : {"all", "login"}, reason : {"all", "timeout"},
     days : {30, 90}, page : {0, 1, HistoryPages + 1}]

SHMounted ==
    \E url \in HistoryLinks, trend \in {NoCategory, "login"}, unclassified \in SUBSET UnclassifiedRuns :
      sh = [filters |-> readHistoryFilters(url), typed |-> readHistoryFilters(url).search,
            url |-> url, trend |-> trend, trendUrl |-> trend,
            unclassified |-> unclassified, classifying |-> {}, locked |-> {}]

(* In place of ChangeHistory: the page is kept. *)
ChangeOnPage(names, f) ==
    LET next == [f EXCEPT !.search = sh.typed]
    IN  sh' = [sh EXCEPT !.filters = next,
                         !.url = [k \in DOMAIN @ |->
                                    IF k \in names \union {"search", "page"}
                                    THEN next[k] ELSE @[k]]]

(* Every change applies the typed text and goes back to the first page;    *)
(* the URL keeps the parameters that the handler does not name.            *)
ChangeHistory(names, f) ==
    LET next == [f EXCEPT !.search = sh.typed, !.page = 1]
    IN  sh' = [sh EXCEPT !.filters = next,
                         !.url = [k \in DOMAIN @ |->
                                    IF k \in names \union {"search", "page"}
                                    THEN next[k] ELSE @[k]]]

TypeSearch(text) == text # sh.typed /\ sh' = [sh EXCEPT !.typed = text]

ApplySearch == ChangeHistory({}, sh.filters)

ChangeStatus(status) ==
    LET type == IF status = "failure" THEN sh.filters.failureType ELSE "all"
    IN  ChangeHistory({"status", "reason", "failureType"},
                      [sh.filters EXCEPT !.status = status, !.failureType = type,
                                         !.reason = "all"])

(* In place of ChangeFailureType: the implied status is not written. *)
TypeOnlyInUrl(type) ==
    LET status == IF type = "all" THEN sh.filters.status ELSE "failure"
        reason == IF status = "cancelled" THEN sh.filters.reason ELSE "all"
    IN  ChangeHistory({"failureType"},
                      [sh.filters EXCEPT !.status = status, !.failureType = type,
                                         !.reason = reason])

ChangeFailureType(type) ==
    LET status == IF type = "all" THEN sh.filters.status ELSE "failure"
        reason == IF status = "cancelled" THEN sh.filters.reason ELSE "all"
    IN  ChangeHistory({"status", "reason", "failureType"},
                      [sh.filters EXCEPT !.status = status, !.failureType = type,
                                         !.reason = reason])

(* The select of the reasons is disabled for every other status. *)
ChangeCancellationReason(reason) ==
    /\ sh.filters.status = "cancelled"
    /\ ChangeHistory({"reason"}, [sh.filters EXCEPT !.reason = reason])

ChangeDays(days) == ChangeHistory({"days"}, [sh.filters EXCEPT !.days = days])

(* The two buttons of the page navigation; a bookmark may be beyond it. *)
ChangePage(page) ==
    /\ HistoryPages > 1
    /\ \/ page = sh.filters.page - 1 /\ page >= 1
       \/ page = sh.filters.page + 1 /\ page <= HistoryPages
    /\ sh' = [sh EXCEPT !.filters.page = page, !.url.page = page]

ResetFilters ==
    /\ sh.filters # DefaultHistory \/ sh.typed # ""
    /\ sh' = [sh EXCEPT !.filters = DefaultHistory, !.typed = "", !.url = DefaultHistory]

(* Pressing a bar of the trend toggles it and writes it to the URL; the    *)
(* chart is mounted again whenever the period changes.                     *)
ToggleTrend(category) ==
    LET next == IF sh.trend = category THEN NoCategory ELSE category
    IN  sh' = [sh EXCEPT !.trend = next, !.trendUrl = next]

ClearTrend ==
    /\ sh.trend # NoCategory
    /\ sh' = [sh EXCEPT !.trend = NoCategory, !.trendUrl = NoCategory]

(* handleClassifyRun: only the run of the latest request is disabled. *)
ClassifyRun(run) ==
    /\ run \in sh.unclassified \ sh.locked
    /\ sh' = [sh EXCEPT !.classifying = @ \union {run}, !.locked = {run}]

RunClassified(run) ==
    /\ run \in sh.classifying
    /\ \E ok \in BOOLEAN :
         sh' = [sh EXCEPT !.classifying = @ \ {run},
                          !.unclassified = IF ok THEN @ \ {run} ELSE @,
                          !.locked = @ \ {run}]

ReloadHistory ==
    sh' = [sh EXCEPT !.filters = readHistoryFilters(sh.url),
                     !.typed = readHistoryFilters(sh.url).search,
                     !.trend = sh.trendUrl, !.classifying = {}, !.locked = {}]

SHNext ==
    \/ \E text \in {"", "run"} : TypeSearch(text)
    \/ ApplySearch
    \/ \E status \in RunStatuses : ChangeStatus(status)
    \/ \E type \in {"all", "login"} : ChangeFailureType(type)
    \/ \E reason \in {"all", "timeout"} : ChangeCancellationReason(reason)
    \/ \E days \in {7, 30} : ChangeDays(days)
    \/ \E page \in 1..HistoryPages : ChangePage(page)
    \/ ResetFilters
    \/ ToggleTrend("login") \/ ClearTrend
    \/ \E run \in UnclassifiedRuns : ClassifyRun(run) \/ RunClassified(run)
    \/ ReloadHistory

-----------------------------------------------------------------------------
(* Properties. *)

SHTypeOK ==
    sh # Unmounted =>
      /\ sh.filters \in [search : {"", "run"}, status : RunStatuses,
                         failureType : {"all", "login"}, reason : {"all", "timeout"},
                         days : {7, 30}, page : 1..(HistoryPages + 1)]
      /\ sh.locked \subseteq UnclassifiedRuns /\ sh.classifying \subseteq UnclassifiedRuns

(* Copying the URL after any sequence of filter changes reproduces the     *)
(* history that is on the screen, sub-filters, page and trend included.    *)
HistoryUrlRestores ==
    sh # Unmounted =>
      readHistoryFilters(sh.url) = sh.filters /\ sh.trendUrl = sh.trend

(* A failure type is only ever combined with failed runs and a reason only *)
(* with cancelled ones: no sequence of changes leaves a hidden sub-filter  *)
(* that empties the list.                                                  *)
NoHiddenSubfilter ==
    sh # Unmounted =>
      /\ sh.filters.failureType # "all" => sh.filters.status = "failure"
      /\ sh.filters.reason # "all" => sh.filters.status = "cancelled"

(* A step that changes what is listed shows its first page. *)
NewFilterFirstPage ==
    [][(sh # Unmounted /\ sh' # Unmounted
          /\ [sh'.filters EXCEPT !.page = 1] # [sh.filters EXCEPT !.page = 1])
        => sh'.filters.page = 1]_sh

-----------------------------------------------------------------------------
(* The smoke statistics of the dashboard.  The server counts the runs of a *)
(* window when its history is refreshed and lists only the newest; the     *)
(* page, with a clock of its own, shows the server's counts and takes the  *)
(* failed runs it links from the list.  Below them are the runs that the   *)
(* manager stored, with filters kept in the query string.                  *)
CONSTANTS WindowDays, ThresholdPercent, MinRuns,     \* the alert's settings
          ListLimit,         \* runs in the list
          MaxSmokeRuns, LastSmokeDay                 \* bounds

VARIABLE ks

StatisticStatuses == {"success", "failure", "cancelled"}
LocalFilters == [status : {"all", "success", "failure"}, admin : {"all", "admin", "viewer"}]

-----------------------------------------------------------------------------
(* The failure rate. *)

(* getCompletedSmokeRunsInWindow: the day at the edge counts.              *)
CompletedInWindow(runs, now) ==
    SelectSeq(runs, LAMBDA r : r.status \in {"success", "failure"} /\ r.day + WindowDays >= now)

Failures(runs) == SelectSeq(runs, LAMBDA r : r.status = "failure")

(* getSmokeFailureRateFromCounts: the percentage is rounded. *)
IsAlert(successes, failures) ==
    LET total == successes + failures
    IN  total >= MinRuns /\ total > 0 /\ (200 * failures + total) \div (2 * total) >= ThresholdPercent

(* _build_window_statistics, on all runs of the window; in place of it,    *)
(* cancelled runs count as failed.                                         *)
CancelledFail(runs, now) ==
    LET recent == SelectSeq(runs, LAMBDA r : r.day + WindowDays >= now)
    IN  [success |-> Len(SelectSeq(recent, LAMBDA r : r.status = "success")),
         failure |-> Len(SelectSeq(recent, LAMBDA r : r.status # "success"))]

WindowStatistics(runs, now) ==
    LET recent == SelectSeq(runs, LAMBDA r : r.day + WindowDays >= now)
        Count(status) == Len(SelectSeq(recent, LAMBDA r : r.status = status))
    IN  [success |-> Count("success"), failure |-> Count("failure")]

(* SmokeRunTrend: the alert and the rate, from the server's counts, and    *)
(* the failed runs it links, from the list.                                *)
AlertShown(s) == IsAlert(s.statistics.success, s.statistics.failure)
RateShown(s) ==
    LET total == s.statistics.success + s.statistics.failure
    IN  CASE total = 0 -> "no runs"
          [] total > 0 /\ total < MinRuns -> "too few"
          [] OTHER -> IF AlertShown(s) THEN "alert" ELSE "rate"
FailedRunLinks(s) == Failures(CompletedInWindow(s.list, s.clock))

-----------------------------------------------------------------------------
(* The runs that the manager stored, when they called back: admin says     *)
(* whether the run checked the pages of administrators.                    *)

LocalRuns(runs) == SelectSeq(runs, LAMBDA r : r.status \in {"success", "failure"})

filterSmokeLocalRuns(runs, filters) ==
    SelectSeq(runs, LAMBDA r : /\ filters.status \in {"all", r.status}
                               /\ filters.admin \in {"all", IF r.admin THEN "admin" ELSE "viewer"})

(* SmokeRunStatisticsHistory: the numbers in the options of its filters;   *)
(* in place of it, they count what the other filter has left.              *)
CountsOfShown(s) ==
    LET rows == filterSmokeLocalRuns(s.local, s.filters)
        Count(P(_)) == Len(SelectSeq(rows, P))
        admins == Count(LAMBDA r : r.admin)
    IN  [status |-> [all |-> Len(rows), success |-> Count(LAMBDA r : r.status = "success"),
                     failure |-> Count(LAMBDA r : r.status = "failure")],
         admin |-> [all |-> Len(rows), admin |-> admins, viewer |-> Len(rows) - admins]]

LocalRunCounts(s) ==
    LET Count(P(_)) == Len(SelectSeq(s.local, P))
        admins == Count(LAMBDA r : r.admin)
    IN  [status |-> [all |-> Len(s.local), success |-> Count(LAMBDA r : r.status = "success"),
                     failure |-> Count(LAMBDA r : r.status = "failure")],
         admin |-> [all |-> Len(s.local), admin |-> admins, viewer |-> Len(s.local) - admins]]

-----------------------------------------------------------------------------
(* Their filters. *)

(* parseSmokeLocalRun...Filter: any other value is "all".                  *)
parseLocalFilters(url) ==
    [status |-> IF url.status \in {"success", "failure"} THEN url.status ELSE "all",
     admin  |-> IF url.admin \in {"admin", "viewer"} THEN url.admin ELSE "all"]

-----------------------------------------------------------------------------

KSMounted ==
    \E url \in {[status |-> "all", admin |-> "all"], [status |-> "broken", admin |-> "viewer"]} :
      ks = [runs |-> <<>>, day |-> 0, list |-> <<>>, local |-> <<>>, statistics |-> [success |-> 0, failure |-> 0],
            fetchedOn |-> 0, seen |-> 0, clock |-> 0, url |-> url, filters |-> parseLocalFilters(url)]

SmokeRunCompletes ==
    /\ Len(ks.runs) < MaxSmokeRuns
    /\ \E status \in StatisticStatuses, admin \in BOOLEAN :
         ks' = [ks EXCEPT !.runs = <<[status |-> status, day |-> ks.day, admin |-> admin]>> \o @]

SmokeDayPasses == ks.day < LastSmokeDay /\ ks' = [ks EXCEPT !.day = @ + 1]

(* The history is refreshed on the server and polled. *)
StatisticsFetched ==
    LET Newest(runs) == SubSeq(runs, 1, IF Len(runs) < ListLimit THEN Len(runs) ELSE ListLimit)
    IN  ks' = [ks EXCEPT !.list = Newest(ks.runs), !.local = Newest(LocalRuns(ks.runs)),
                         !.statistics = WindowStatistics(ks.runs, ks.day), !.fetchedOn = ks.day, !.seen = Len(ks.runs)]

(* refreshClock: every minute, and when the window gets the focus. *)
RefreshClock == ks.clock # ks.day /\ ks' = [ks EXCEPT !.clock = ks.day]

(* In place of UpdateLocalFilter: the query string is left alone. *)
FilterOnly(key, value) == ks' = [ks EXCEPT !.filters[key] = value]

UpdateLocalFilter(key, value) ==
    ks' = [ks EXCEPT !.filters[key] = value, !.url[key] = value]

KSNext ==
    \/ SmokeRunCompletes \/ SmokeDayPasses \/ StatisticsFetched \/ RefreshClock
    \/ \E status \in {"all", "failure"} : UpdateLocalFilter("status", status)
    \/ \E admin \in {"all", "admin"} : UpdateLocalFilter("admin", admin)

-----------------------------------------------------------------------------
(* Properties. *)

KSTypeOK ==
    ks # Unmounted =>
      /\ ks.filters \in LocalFilters
      /\ Len(ks.list) <= ListLimit /\ ks.clock <= ks.day

(* While what is shown is of the page's own day and the list is complete,  *)
(* the alert that comes from the server's counts is the one that the list  *)
(* would give, and it is shown with the failed runs behind it.             *)
AlertAgreesWithList ==
    (ks # Unmounted /\ ks.fetchedOn = ks.clock /\ ks.seen <= ListLimit) =>
      LET failed == Len(FailedRunLinks(ks))
      IN  /\ AlertShown(ks) <=> IsAlert(Len(CompletedInWindow(ks.list, ks.clock)) - failed, failed)
          /\ AlertShown(ks) => failed > 0 /\ RateShown(ks) = "alert"

(* Whatever is filtered, the number in an option is the number of runs     *)
(* that remain when it is chosen and the other filter is off.              *)
LocalCountsTrue ==
    ks # Unmounted =>
      LET counts == LocalRunCounts(ks)
          Left(status, admin) == Len(filterSmokeLocalRuns(ks.local, [status |-> status, admin |-> admin]))
      IN  /\ \A status \in {"all", "success", "failure"} : counts.status[status] = Left(status, "all")
          /\ \A admin \in {"all", "admin", "viewer"} : counts.admin[admin] = Left("all", admin)

(* The link that is copied restores the filters it was copied with, also   *)
(* on a page that was opened with values it does not know.                 *)
LocalLinkRestores == ks # Unmounted => parseLocalFilters(ks.url) = ks.filters

=============================================================================
