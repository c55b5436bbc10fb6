---------------------------- MODULE AuditFilters ----------------------------
(***************************************************************************)
(* The filters of the audit log.  The query string is the only state: each *)
(* handler of useAuditLogQueryState.ts rewrites parameters, and            *)
(* decodeAuditLogQuery reads them back on every render.                    *)
(*                                                                         *)
(* Search text, delivery status, provider, health window and page size are *)
(* each one parameter that one handler sets; "single" stands for them.     *)
(* Old bookmarks name filters that became a source or a status of the      *)
(* manager filter (isLegacyManagerFilter).                                 *)
(***************************************************************************)
EXTENDS Browser, Naturals, FiniteSets

CONSTANTS
    LogPages,   \* pages of the log and of the bulk operations for any filter
    LogDays     \* calendar days

ASSUME LogAssumption == LogDays \subseteq Nat

NoDate == 0       \* an absent date
AuditFilterKeys == {"all", "security", "delayed_retry", "manager_health"}
LegacyFilters == {"manager_docker", "manager_unhealthy"}
DefaultUrl == [filter |-> "all", source |-> "all", status |-> "all", single |-> "all",
               period |-> "all", from |-> NoDate, to |-> NoDate, page |-> 1,
               bulk |-> "all", bulkPage |-> 1, expand |-> "none"]

VARIABLE au   \* the query string and expandedLogId

-----------------------------------------------------------------------------
decodeAuditLogQuery(url) ==
    [url EXCEPT
       !.filter = CASE @ \in AuditFilterKeys -> @
                    [] @ \in LegacyFilters -> "manager_health"
                    [] OTHER -> "all",
       !.source = IF @ = "all" /\ url.filter = "manager_docker" THEN "docker" ELSE @,
       !.status = IF @ = "all" /\ url.filter = "manager_unhealthy" THEN "unhealthy" ELSE @,
       !.period = IF url.from # NoDate \/ url.to # NoDate THEN "all" ELSE @]

(* buildAuditLogQuery and buildFilterQuery: the parameters of the request. *)
buildAuditLogQuery(q) ==
    [filter |-> q.filter,
     source |-> IF q.filter = "manager_health" THEN q.source ELSE "all",
     status |-> IF q.filter = "manager_health" THEN q.status ELSE "all",
     single |-> q.single, period |-> q.period, from |-> q.from, to |-> q.to,
     offset |-> q.page - 1]

(* The validation of the API (audit_log_filters.py): a period excludes     *)
(* dates and the range is not reversed.                                    *)
QueryAccepted(r) ==
    /\ r.period # "all" => r.from = NoDate /\ r.to = NoDate
    /\ r.from # NoDate /\ r.to # NoDate => r.from <= r.to

(* buildAuditActiveConditions: one chip per condition. *)
ActiveConditions(url) ==
    LET q == decodeAuditLogQuery(url)
    IN  {k \in {"filter", "source", "status", "single", "period", "bulk"} : q[k] # "all"}
        \union (IF q.from # NoDate \/ q.to # NoDate THEN {"dates"} ELSE {})

-----------------------------------------------------------------------------
(* Links of the dashboard, and two bookmarks of earlier releases. *)
AuditLinks ==
    {DefaultUrl,
     [DefaultUrl EXCEPT !.filter = "manager_health"],
     [DefaultUrl EXCEPT !.filter = "manager_health", !.source = "api", !.period = "90"],
     [DefaultUrl EXCEPT !.from = 1, !.to = 2],
     [DefaultUrl EXCEPT !.single = "set", !.expand = "latest"],
     [DefaultUrl EXCEPT !.bulk = "failure", !.bulkPage = LogPages + 1],
     [DefaultUrl EXCEPT !.filter = "manager_docker"],
     [DefaultUrl EXCEPT !.filter = "manager_unhealthy", !.page = LogPages + 1]}

AUMounted == \E url \in AuditLinks : au = [url |-> url, expanded |-> "auto"]

(* In place of ChangeAuditQuery: page and open row are kept. *)
ChangeInPlace(url) == au' = [au EXCEPT !.url = url]

(* replaceFilterQueryParams: first page, and no row stays open. *)
ChangeAuditQuery(url) == au' = [au EXCEPT !.url = [url EXCEPT !.page = 1], !.expanded = "none"]

(* In place of HandleFilterChange: source and status outlive their filter. *)
KeepManagerChips(filter) ==
    LET q == decodeAuditLogQuery(au.url)
    IN  ChangeAuditQuery([au.url EXCEPT !.filter = filter, !.source = q.source, !.status = q.status])

HandleFilterChange(filter) ==
    LET q == decodeAuditLogQuery(au.url)
        keep(k) == IF filter = "manager_health" THEN q[k] ELSE "all"
    IN  ChangeAuditQuery([au.url EXCEPT !.filter = filter, !.source = keep("source"),
                                        !.status = keep("status")])

(* In place of HandleManagerSourceChange: a legacy filter is kept. *)
KeepLegacyFilter(source) ==
    ChangeAuditQuery([au.url EXCEPT !.filter = IF @ \in LegacyFilters THEN @ ELSE "manager_health",
                                    !.source = source])

HandleManagerSourceChange(source) ==
    ChangeAuditQuery([au.url EXCEPT !.filter = "manager_health", !.source = source])

HandleManagerStatusChange(status) ==
    ChangeAuditQuery([au.url EXCEPT !.filter = "manager_health", !.status = status])

(* Search, delivery status and provider, health window, page size. *)
HandleSingleParameter(value) == ChangeAuditQuery([au.url EXCEPT !.single = value])

HandlePeriodChange(period) ==
    ChangeAuditQuery([au.url EXCEPT !.period = period, !.from = NoDate, !.to = NoDate])

(* In place of HandleDateRangeChange: a reversed range is applied. *)
AnyDateRange(from, to) ==
    ChangeAuditQuery([au.url EXCEPT !.from = from, !.to = to, !.period = "all"])

HandleDateRangeChange(from, to) ==
    /\ from # NoDate /\ to # NoDate => from <= to
    /\ ChangeAuditQuery([au.url EXCEPT !.from = from, !.to = to, !.period = "all"])

HandleBulkChange(status) ==
    au' = [au EXCEPT !.url = [@ EXCEPT !.bulk = status, !.bulkPage = 1]]

(* The buttons of the bulk operations, and the effect that moves a page    *)
(* beyond the last one back.                                               *)
HandleBulkPageChange(page) ==
    /\ \/ page \in {au.url.bulkPage - 1, au.url.bulkPage + 1} \intersect 1..LogPages
       \/ au.url.bulkPage > LogPages /\ page = LogPages
    /\ au' = [au EXCEPT !.url.bulkPage = page]

HandleResetFilters == au' = [au EXCEPT !.url = DefaultUrl, !.expanded = "none"]

(* A bar of the delayed-retry trend replaces every other parameter. *)
HandleDelayedRetryPeriod(period) ==
    au' = [au EXCEPT !.url = [DefaultUrl EXCEPT !.filter = "delayed_retry", !.period = period],
                     !.expanded = "none"]

(* Previous, next, and the page typed into the form. *)
HandlePageChange(page) ==
    /\ page \in 1..LogPages
    /\ page # au.url.page
    /\ au' = [au EXCEPT !.url.page = page, !.expanded = "none"]

ToggleRow == au' = [au EXCEPT !.expanded = IF @ = "row" THEN "none" ELSE "row"]

(* The cross of a chip calls the handler of its condition. *)
RemoveCondition(c) ==
    /\ c \in ActiveConditions(au.url)
    /\ CASE c = "filter" -> HandleFilterChange("all")
         [] c = "source" -> HandleManagerSourceChange("all")
         [] c = "status" -> HandleManagerStatusChange("all")
         [] c = "single" -> HandleSingleParameter("all")
         [] c = "period" -> HandlePeriodChange("all")
         [] c = "dates" -> HandleDateRangeChange(NoDate, NoDate)
         [] c = "bulk" -> HandleBulkChange("all")

AUNext ==
    \/ \E filter \in AuditFilterKeys : HandleFilterChange(filter)
    \/ \E source \in {"all", "docker", "api"} : HandleManagerSourceChange(source)
    \/ \E status \in {"all", "unhealthy"} : HandleManagerStatusChange(status)
    \/ \E value \in {"all", "set"} : HandleSingleParameter(value)
    \/ \E period \in {"all", "7"} : HandlePeriodChange(period)
    \/ \E from, to \in LogDays \union {NoDate} : HandleDateRangeChange(from, to)
    \/ \E status \in {"all", "failure"} : HandleBulkChange(status)
    \/ \E page \in 1..LogPages : HandleBulkPageChange(page) \/ HandlePageChange(page)
    \/ HandleResetFilters
    \/ HandleDelayedRetryPeriod("7")
    \/ ToggleRow
    \/ \E c \in {"filter", "source", "status", "single", "period", "dates", "bulk"} :
         RemoveCondition(c)

-----------------------------------------------------------------------------
(* Properties. *)

AUTypeOK ==
    au # Unmounted =>
      /\ decodeAuditLogQuery(au.url).filter \in AuditFilterKeys
      /\ au.url.page \in 1..(LogPages + 1) /\ au.url.bulkPage \in 1..(LogPages + 1)
      /\ au.expanded \in {"auto", "none", "row"}

(* Whatever was clicked, and from whichever link the page was opened, the  *)
(* request is one that the API accepts.                                    *)
AuditQueryAccepted ==
    au # Unmounted => QueryAccepted(buildAuditLogQuery(decodeAuditLogQuery(au.url)))

(* A source or a status is only active under the manager filter: no step   *)
(* leaves a chip on the screen that the request ignores.                   *)
ChipsAreApplied ==
    au # Unmounted =>
      LET q == decodeAuditLogQuery(au.url)
      IN  q.filter # "manager_health" => q.source = "all" /\ q.status = "all"

(* Removing a chip removes its condition and adds none. *)
RemovalRemoves ==
    [][au # Unmounted =>
         \A c \in ActiveConditions(au.url) :
           RemoveCondition(c) => ActiveConditions(au'.url) \subseteq ActiveConditions(au.url) \ {c}]_au

(* A new result set starts at its first page with every row closed, so no  *)
(* row of the old result stays expanded under the new one.                 *)
NewResultFromTop ==
    [][(au # Unmounted /\ au' # Unmounted) =>
         LET before == buildAuditLogQuery(decodeAuditLogQuery(au.url))
             after == buildAuditLogQuery(decodeAuditLogQuery(au'.url))
         IN  /\ [before EXCEPT !.offset = 0] # [after EXCEPT !.offset = 0] => after.offset = 0
             /\ before # after => au'.expanded = "none"]_au

=============================================================================
