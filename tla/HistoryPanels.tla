---------------------------- MODULE HistoryPanels ----------------------------
(***************************************************************************)
(* The filtered histories of the dashboard's first page: deployments of    *)
(* the manager, Traefik updates, watchdog alerts, bottleneck events and    *)
(* maintenance changes.  Each keeps its filters in its own parameters of   *)
(* the one query string, offers controls that depend on what is listed,    *)
(* and exports what it shows.                                              *)
(*                                                                         *)
(* A control is the partial filter record it hands to updateFilters.  Days *)
(* are numbers and day 0 is "no date".                                     *)
(***************************************************************************)
EXTENDS Browser, Integers, FiniteSets
LOCAL Sets == INSTANCE FiniteSetsExt

CONSTANTS Deployments,    \* records version, status, stage, took, day, archived, sample, stages
          HistoryPanels   \* the panels a run opens

AllPanels == {"deployment", "traefik", "maintenance", "watchdog", "bottleneck"}

ASSUME PanelsAssumption == HistoryPanels \subseteq AllPanels

VARIABLE hp

HPDays == 2 .. 3
ReferenceDay == 3
Dates == {0} \union HPDays
Untimed == -1            \* a duration that cannot be computed
DeploymentStages == {"build", "migration"}
ShortThreshold == 15

(* The values each parameter of a panel may have, the default first. *)
FilterValues(p) ==
    CASE p = "deployment" ->
           [source |-> {"current", "all", "archive"}, sample |-> {"all", "daily"},
            period |-> {"all", "1"}, from |-> Dates, to |-> Dates,
            status |-> {"all", "success", "failure", "rollback"},
            stage |-> {"all", "unknown", "build"}, speed |-> {"all", "average", "p95"},
            threshold |-> {60, ShortThreshold}, search |-> {"", "v2"}]
      [] p = "traefik" ->
           [actor |-> {"", "kim"}, period |-> {"all", "1"}, from |-> Dates, to |-> Dates,
            retry |-> {"all", "retried", "not_retried"}, status |-> {"all", "success", "rejected"}]
      [] p = "maintenance" ->
           [actor |-> {"all", "kim"}, period |-> {"all", "7", "custom"}, start |-> Dates, end |-> Dates]
      [] p = "watchdog" ->
           [event |-> {"all", "failure"}, result |-> {"all", "success", "failure", "pending", "other"}]
      [] p = "bottleneck" ->
           [event |-> {"all", "alerted", "cleared"}, period |-> {"all", "1"}]

FilterDefaults(p) ==
    [f \in DOMAIN FilterValues(p) |->
       CASE f \in {"from", "to", "start", "end"} -> 0
         [] f = "threshold" -> 60
         [] f = "search" -> ""
         [] f = "actor" /\ p = "traefik" -> ""
         [] f = "source" -> "current"
         [] OTHER -> "all"]

-----------------------------------------------------------------------------
(* Reading the location. *)

(* parse...: a value that is not one of the choices is the default. *)
parseFilter(p, f, v) == IF v \in FilterValues(p)[f] THEN v ELSE FilterDefaults(p)[f]

readDeploymentFilters(u) ==
    [u EXCEPT !.sample = IF u.source = "current" THEN "all" ELSE @]

readTraefikUpdateHistoryFilters(u) ==
    [u EXCEPT !.period = IF u.from # 0 \/ u.to # 0 THEN "all" ELSE @]

readMaintenanceHistoryFilters(u) ==
    LET end == IF u.start # 0 /\ u.end # 0 /\ u.start > u.end THEN 0 ELSE u.end
    IN  [u EXCEPT !.end = end,
                  !.period = IF u.start # 0 \/ end # 0 THEN "custom"
                             ELSE IF u.period = "custom" THEN "all" ELSE u.period]

readPanelFilters(p, url) ==
    LET u == [f \in DOMAIN url |-> parseFilter(p, f, url[f])]
    IN  CASE p = "deployment" -> readDeploymentFilters(u)
          [] p = "traefik" -> readTraefikUpdateHistoryFilters(u)
          [] p = "maintenance" -> readMaintenanceHistoryFilters(u)
          [] OTHER -> u

PanelOpened(p, url) ==
    [panel |-> p, url |-> url, filters |-> readPanelFilters(p, url), exported |-> {}]

(* A link may hold a status that this version does not know. *)
HPMounted ==
    \E p \in HistoryPanels, old \in BOOLEAN :
      hp = PanelOpened(p, IF old THEN [f \in DOMAIN FilterDefaults(p) |->
                                         IF f \in {"status", "event"} THEN "junk" ELSE FilterDefaults(p)[f]]
                          ELSE FilterDefaults(p))

-----------------------------------------------------------------------------
(* The deployments a filter shows. *)

ArchivedDeployments == {e \in Deployments : e.archived}

visibleEntries(f) ==
    {e \in Deployments : /\ f.source = "all" \/ e.archived = (f.source = "archive")
                         /\ f.sample = "all" \/ ~e.archived \/ e.sample = f.sample}

summaryEntries(f) ==
    {e \in visibleEntries(f) : /\ f.period = "all" \/ e.day >= ReferenceDay - 1
                               /\ f.from = 0 \/ e.day >= f.from
                               /\ f.to = 0 \/ e.day < f.to + 1}

Timed(entries) == {e \in entries : e.took # Untimed}

(* The n-th shortest duration, from 0, equal durations included. *)
NthDuration(entries, n) ==
    (CHOOSE e \in entries : /\ Cardinality({x \in entries : x.took < e.took}) <= n
                            /\ Cardinality({x \in entries : x.took <= e.took}) > n).took

RoundedRatio(a, b) == (2 * a + b) \div (2 * b)

AverageDuration(entries) ==
    IF Timed(entries) = {} THEN Untimed
    ELSE RoundedRatio(Sets!MapThenSumSet(LAMBDA e : e.took, Timed(entries)), Cardinality(Timed(entries)))

(* percentile, with a ratio of 95 in 100, between two neighbours. *)
PercentileDuration(entries) ==
    LET timed == Timed(entries)
        position == (Cardinality(timed) - 1) * 95
        low == NthDuration(timed, position \div 100)
        high == NthDuration(timed, (position + 99) \div 100)
    IN  IF timed = {} THEN Untimed
        ELSE low + RoundedRatio((high - low) * (position % 100), 100)

MedianDuration(entries) ==
    LET timed == Timed(entries)
        n == Cardinality(timed)
    IN  CASE n = 0 -> Untimed
          [] n % 2 = 1 -> NthDuration(timed, n \div 2)
          [] OTHER -> RoundedRatio(NthDuration(timed, n \div 2 - 1) + NthDuration(timed, n \div 2), 2)

speedThreshold(f) ==
    IF f.speed = "p95" THEN PercentileDuration(summaryEntries(f)) ELSE AverageDuration(summaryEntries(f))

isSlower(e, threshold) == e.took # Untimed /\ threshold # Untimed /\ e.took > threshold

matchesDeploymentStatus(e, status) ==
    CASE status = "all" -> TRUE
      [] status = "failure" -> e.status # "success"
      [] status = "rollback" -> e.status \in {"rolled_back", "rollback_failed"}
      [] OTHER -> e.status = status

filteredEntries(f) ==
    {e \in summaryEntries(f) :
       /\ matchesDeploymentStatus(e, f.status)
       /\ CASE f.stage = "all" -> TRUE
            [] f.stage = "unknown" -> e.status # "success" /\ e.stage = "none"
            [] OTHER -> e.stage = f.stage
       /\ f.search = "" \/ e.version = f.search
       /\ f.speed = "all" \/ isSlower(e, speedThreshold(f))}

(* The window before the filtered one, equally long; none for all time or  *)
(* for a range that is open on a side.                                     *)
ComparisonRange(f) == IF f.from # 0 THEN <<f.from, f.to + 1>> ELSE <<ReferenceDay - 1, ReferenceDay>>
hasComparison(f) ==
    /\ (f.from = 0) = (f.to = 0)
    /\ f.from # 0 \/ f.period # "all"
    /\ ComparisonRange(f)[1] < ComparisonRange(f)[2]

(* In place of periodComparison: the first day counts in both periods. *)
WithBoundaryDay(f) ==
    LET range == ComparisonRange(f)
    IN  {e \in visibleEntries(f) : e.day >= 2 * range[1] - range[2] /\ e.day <= range[1]}

periodComparison(f) ==
    LET range == ComparisonRange(f)
    IN  {e \in visibleEntries(f) : e.day >= 2 * range[1] - range[2] /\ e.day < range[1]}

(* The slowest stage of a deployment and the deployments above the limit. *)
BottleneckMs(e) == IF e.stages = <<>> THEN Untimed ELSE Sets!Max({e.stages[s] : s \in DOMAIN e.stages})

(* In place of bottleneckAlerts: the limit itself is above it. *)
AlertsFromThreshold(entries, limit) == {e \in entries : BottleneckMs(e) >= limit}

bottleneckAlerts(entries, limit) == {e \in entries : BottleneckMs(e) > limit}

(* The banner over the history: how many deployments, and the slowest. *)
BottleneckBanner(entries, limit) ==
    LET alerts == bottleneckAlerts(entries, limit)
    IN  [count |-> Cardinality(alerts),
         worst |-> IF alerts = {} THEN Untimed ELSE Sets!Max({BottleneckMs(e) : e \in alerts})]

(* getManagerDeploymentStageStats: a stage is listed once it was timed. *)
StageSamples(entries, s) == {e \in entries : s \in DOMAIN e.stages}
StageMax(entries, s) == Sets!Max({e.stages[s] : e \in StageSamples(entries, s)})
StageAverage(entries, s) ==
    RoundedRatio(Sets!MapThenSumSet(LAMBDA e : e.stages[s], StageSamples(entries, s)),
                 Cardinality(StageSamples(entries, s)))
TimedStages(entries) == {s \in DeploymentStages : StageSamples(entries, s) # {}}

(* The rows of the stage table that warn. *)
StageWarnings(entries, limit) == {s \in TimedStages(entries) : StageMax(entries, s) > limit}

(* A deployment of the list: whether its durations warn, and its red bars. *)
RowWarns(e, limit) == e.stages # <<>> /\ BottleneckMs(e) > limit
RedBars(e, limit) == {s \in DOMAIN e.stages : e.stages[s] > limit}

(* The bars of the trend that are drawn as slow, and the badge of a row,   *)
(* which is above the average unless the filter asks for the percentile.   *)
SlowBars(f) ==
    {e \in Timed(summaryEntries(f)) :
       speedThreshold(f) # Untimed /\ e.took > speedThreshold(f)}
SlowBadge(f, e) == isSlower(e, speedThreshold(f))

(* The stages compared with the period before, and by how much they differ. *)
ComparedStages(f) ==
    IF hasComparison(f) THEN TimedStages(summaryEntries(f)) \union TimedStages(periodComparison(f)) ELSE {}
StageDelta(f, s) ==
    LET now == summaryEntries(f)
        before == periodComparison(f)
    IN  IF s \in TimedStages(now) \cap TimedStages(before)
        THEN StageAverage(now, s) - StageAverage(before, s) ELSE 0

-----------------------------------------------------------------------------
(* The controls of the deployment history. *)

(* The spread of one object over another, and an object of one field. *)
Spread(f, updates) == [x \in DOMAIN f |-> IF x \in DOMAIN updates THEN updates[x] ELSE f[x]]
Only(field, value) == [x \in {field} |-> value]

Toggled(field, value, f) == Only(field, IF f[field] = value THEN "all" ELSE value)

SourceControls(f) ==
    IF ArchivedDeployments = {} /\ f.source = "current" THEN {}
    ELSE {[source |-> s, stage |-> "all", status |-> "all"] : s \in {"current", "all", "archive"}}

PeriodControls(f) == {[period |-> v, from |-> 0, to |-> 0] : v \in {"all", "1"}}

(* In place of DateControls: the other bound stays. *)
DatesAsTyped(f) ==
    {[from |-> d, period |-> "all"] : d \in Dates} \union {[to |-> d, period |-> "all"] : d \in Dates}

(* A bound beyond the other one moves it. *)
DateControls(f) ==
    {[from |-> d, to |-> IF d # 0 /\ f.to # 0 /\ d > f.to THEN d ELSE f.to, period |-> "all"] : d \in Dates}
      \union
    {[to |-> d, from |-> IF d # 0 /\ f.from # 0 /\ d < f.from THEN d ELSE f.from, period |-> "all"] : d \in Dates}

ResetControl(p, f) ==
    LET reset == [x \in DOMAIN f \ {"source"} |-> FilterDefaults(p)[x]]
    IN  IF \E x \in DOMAIN reset : f[x] # reset[x] THEN {reset} ELSE {}

PrimaryControls(f) ==
    PeriodControls(f) \union DateControls(f) \union ResetControl("deployment", f)
      \union {[search |-> text] : text \in {"", "v2"}}
      \union (IF f.source # "current" /\ ArchivedDeployments # {} THEN {[sample |-> v] : v \in {"all", "daily"}} ELSE {})

OutcomeControls(f) ==
    IF summaryEntries(f) = {} THEN {}
    ELSE {Toggled("status", s, f) : s \in {"success", "failure", "rollback"}}
           \union (IF AverageDuration(summaryEntries(f)) = Untimed THEN {}
                   ELSE {Toggled("speed", s, f) : s \in {"average", "p95"}})

StatusButtons(f) == {[status |-> s] : s \in FilterValues("deployment").status}

FailureStageControls(f) ==
    {Toggled("stage", s, f) :
       s \in {x \in {"unknown", "build"} :
                \E e \in summaryEntries(f) : e.status # "success" /\ e.stage = IF x = "unknown" THEN "none" ELSE x}}

ThresholdControl(f) ==
    IF \A e \in summaryEntries(f) : e.stages = <<>> THEN {}
    ELSE {[threshold |-> t] : t \in FilterValues("deployment").threshold}

(* One chip for every filter that is on. *)
ConditionChips(f) ==
    {Only(x, FilterDefaults("deployment")[x]) : x \in {y \in DOMAIN f : f[y] # FilterDefaults("deployment")[y]}}

DeploymentControls(f) ==
    SourceControls(f)
      \union (IF visibleEntries(f) = {} THEN {}
              ELSE PrimaryControls(f) \union OutcomeControls(f) \union StatusButtons(f) \union ConditionChips(f))
      \union FailureStageControls(f) \union ThresholdControl(f)

(* The controls of the other panels. *)

TraefikUpdateControls(f) ==
    (UNION {{Only(x, v) : v \in FilterValues("traefik")[x]} : x \in {"status", "actor", "retry"}})
      \union PeriodControls(f) \union ResetControl("traefik", f)
      \union {[from |-> d, period |-> "all"] : d \in Dates} \union {[to |-> d, period |-> "all"] : d \in Dates}

WatchdogControls(f) ==
    (UNION {{Only(x, v) : v \in FilterValues("watchdog")[x]} : x \in DOMAIN f}) \union ResetControl("watchdog", f)

BottleneckControls(f) == UNION {{Only(x, v) : v \in FilterValues("bottleneck")[x]} : x \in DOMAIN f}

(* A bound beyond the other one clears it; a date makes the period custom. *)
MaintenanceControls(f) ==
    LET custom(start, end) ==
          [start |-> start, end |-> end, period |-> IF start = 0 /\ end = 0 THEN "all" ELSE "custom"]
    IN  {[actor |-> v] : v \in FilterValues("maintenance").actor}
          \union {[period |-> v, start |-> 0, end |-> 0] : v \in {"all", "7"}}
          \union {custom(d, IF d # 0 /\ f.end # 0 /\ d > f.end THEN 0 ELSE f.end) : d \in Dates}
          \union {custom(IF d # 0 /\ f.start # 0 /\ d < f.start THEN 0 ELSE f.start, d) : d \in Dates}

PanelControls(p, f) ==
    CASE p = "deployment" -> DeploymentControls(f)
      [] p = "traefik" -> TraefikUpdateControls(f)
      [] p = "maintenance" -> MaintenanceControls(f)
      [] p = "watchdog" -> WatchdogControls(f)
      [] p = "bottleneck" -> BottleneckControls(f)

-----------------------------------------------------------------------------
(* What a control does. *)

(* The deployment history drops the sample filter with the archive. *)
PlainUpdates(p, updates) == updates
FullUpdates(p, updates) ==
    IF p = "deployment" /\ "source" \in DOMAIN updates
         /\ updates["source"] = "current" /\ "sample" \notin DOMAIN updates
    THEN [x \in DOMAIN updates \union {"sample"} |-> IF x = "sample" THEN "all" ELSE updates[x]]
    ELSE updates

(* The parameters rewritten in the location: the changed ones, or all of   *)
(* the panel's; the others of the query string stay.                       *)
WrittenParameters(p, filters, updates) ==
    IF p \in {"traefik", "maintenance"} THEN filters ELSE updates

(* In place of UpdateFilters: the notice of the copied link stays. *)
KeepNotice(updates) ==
    LET full == FullUpdates(hp.panel, updates)
        next == Spread(hp.filters, full)
    IN  hp' = [hp EXCEPT !.filters = next, !.url = Spread(@, WrittenParameters(hp.panel, next, full))]

UpdateFilters(updates) ==
    LET full == FullUpdates(hp.panel, updates)
        next == Spread(hp.filters, full)
    IN  hp' = [hp EXCEPT !.filters = next,
                         !.url = Spread(@, WrittenParameters(hp.panel, next, full)),
                         !.exported = {}]

isDateRangeValid(f) == f.from = 0 \/ f.to = 0 \/ f.from < f.to + 1

canExport(p, f) ==
    CASE p = "deployment" -> visibleEntries(f) # {}
      [] p = "traefik" -> isDateRangeValid(f)      \* and something is listed
      [] p = "bottleneck" -> TRUE
      [] OTHER -> FALSE

(* The notice names the file, which names the filters; the deployment      *)
(* history uses a toast instead.                                           *)
ExportHistory ==
    /\ canExport(hp.panel, hp.filters)
    /\ hp' = [hp EXCEPT !.exported = IF hp.panel = "deployment" THEN {} ELSE {hp.filters}]

ReloadPanels == hp' = PanelOpened(hp.panel, hp.url)

HPNext ==
    \/ \E updates \in PanelControls(hp.panel, hp.filters) : UpdateFilters(updates)
    \/ ExportHistory
    \/ ReloadPanels

-----------------------------------------------------------------------------
(* Properties. *)

OfPanel(p) == hp # Unmounted /\ hp.panel = p

HPTypeOK ==
    hp # Unmounted => \A f \in DOMAIN hp.filters : hp.filters[f] \in FilterValues(hp.panel)[f]

(* The location always describes what is shown: a reload, or a colleague   *)
(* who opens the copied link, gets the same filters, although some panels  *)
(* write only what changed and what is read is brought in line.            *)
PanelUrlRestores ==
    hp # Unmounted => readPanelFilters(hp.panel, hp.url) = hp.filters

(* No two filters contradict each other: a period and dates are never both *)
(* in force, a range is never inverted (the Traefik history, which does    *)
(* not correct one, exports nothing then), and an archive sample is only   *)
(* asked for while archived deployments are shown.                         *)
FiltersAgree ==
    LET f == hp.filters
    IN  /\ OfPanel("deployment") =>
             /\ f.period # "all" => f.from = 0 /\ f.to = 0
             /\ f.from # 0 /\ f.to # 0 => f.from <= f.to
             /\ f.source = "current" => f.sample = "all"
        /\ OfPanel("traefik") =>
             /\ f.period # "all" => f.from = 0 /\ f.to = 0
             /\ f.from # 0 /\ f.to # 0 /\ f.from > f.to => ~canExport("traefik", f)
        /\ OfPanel("maintenance") =>
             /\ (f.period = "custom") = (f.start # 0 \/ f.end # 0)
             /\ f.start # 0 /\ f.end # 0 => f.start <= f.end

(* The banner over the history, the warning rows of the stage table, the   *)
(* warning of each deployment and its red bars are computed apart and      *)
(* agree for whatever period is shown: the banner counts the deployments   *)
(* that warn, its slowest stage is the slowest of the table, and a         *)
(* deployment warns exactly when one of its bars is red.                   *)
BottlenecksAgree ==
    OfPanel("deployment") =>
      LET shown == summaryEntries(hp.filters)
          limit == hp.filters.threshold
          banner == BottleneckBanner(shown, limit)
      IN  /\ (banner.count > 0) = (StageWarnings(shown, limit) # {})
          /\ banner.count = Cardinality({e \in shown : RowWarns(e, limit)})
          /\ banner.count > 0 =>
               banner.worst = Sets!Max({StageMax(shown, s) : s \in StageWarnings(shown, limit)})
          /\ \A e \in shown : RowWarns(e, limit) = (RedBars(e, limit) # {})

(* The statistics of a period lie between its shortest and its longest     *)
(* deployment, so the slow filters never list the fastest one; what they   *)
(* list is what the trend draws as slow and the rows mark; the period is   *)
(* compared with deployments outside of it, and a stage that is slower     *)
(* than before in the comparison has a deployment that was slower.         *)
StatisticsSound ==
    OfPanel("deployment") =>
      LET f == hp.filters
          shown == summaryEntries(f)
          timed == Timed(shown)
          before == periodComparison(f)
      IN  /\ timed # {} =>
               /\ \A stat \in {AverageDuration(shown), MedianDuration(shown), PercentileDuration(shown)} :
                    (\E e \in timed : e.took <= stat) /\ (\E e \in timed : stat <= e.took)
               /\ MedianDuration(shown) <= PercentileDuration(shown)
          /\ \A e \in shown : SlowBadge(f, e) = (e \in SlowBars(f))
          /\ f.speed # "all" => filteredEntries(f) \subseteq SlowBars(f)
          /\ hasComparison(f) => before \cap shown = {}
          /\ \A s \in ComparedStages(f) :
               StageDelta(f, s) > 0 =>
                 \E e \in StageSamples(shown, s), o \in StageSamples(before, s) : e.stages[s] > o.stages[s]

(* A notice of an export belongs to the filters on the screen, in the      *)
(* panels that show it beside them.                                        *)
ExportNoticeCurrent ==
    (OfPanel("traefik") \/ OfPanel("bottleneck")) => hp.exported \subseteq {hp.filters}

=============================================================================
