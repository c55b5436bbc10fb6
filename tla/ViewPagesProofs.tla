-------------------------- MODULE ViewPagesProofs ---------------------------
(***************************************************************************)
(* What ViewPages promises of the location, of what is sent and of each    *)
(* step, for any number of deployments, runs, pages and schedules.         *)
(*                                                                         *)
(* LinksRestore does not follow from itself: that a changed location reads *)
(* as the filters that are shown needs to know which filters can be shown. *)
(* Each page gets an invariant that says it:                               *)
(*   - the filters of a history are values its parameters may have, and    *)
(*     what reading the location brings in line is in line already: every  *)
(*     control hands over what keeps them there (HPInv);                   *)
(*   - each tab of the middlewares holds a search and a status of its own, *)
(*     and the location is that of the tab on screen (MFInv);              *)
(*   - the location and the filters of failed runs agree on what they      *)
(*     select on, where a custom period without a day, a day that cannot   *)
(*     be parsed and a cleared bound differ in the location only (FMInv);  *)
(*   - the smoke history holds filters whose sub-filters fit their status  *)
(*     (SHInv), and the stored runs what their location parses to (KSInv); *)
(*   - an extension under way ends after the click and after the end that  *)
(*     was on screen (MPInv).                                              *)
(*                                                                         *)
(* What is sent or kept rests on the same and on                           *)
(*   - a location of the audit log whose parts fit each other (AUInv);     *)
(*   - saved filters that are normal and whose names differ, in the list,  *)
(*     in the storage and in a backup that waits for its answer (SFInv);   *)
(*   - an address of the artifacts, and a link, of the filter that is      *)
(*     chosen (ALInv);                                                     *)
(*   - a form of a service whose payload is consistent and, until a field  *)
(*     is touched, that of the service (FOInv); the same of a template     *)
(*     (TFInv);                                                            *)
(*   - a list field that shows every key that was typed (LFInv).           *)
(***************************************************************************)
EXTENDS ViewPages, FiniteSetTheorems, WellFoundedInduction, TLAPS

-----------------------------------------------------------------------------
(* Filtered histories (HistoryPanels). *)

\* The parameters of a panel.
ParametersOf(p) == DOMAIN FilterValues(p)

(* What the reading of the location brings in line is in line already. *)
InLine(p, f) ==
    /\ p = "deployment" => (f["source"] = "current" => f["sample"] = "all")
    /\ p = "traefik" => (f["from"] # 0 \/ f["to"] # 0 => f["period"] = "all")
    /\ p = "maintenance" =>
         /\ f["start"] # 0 /\ f["end"] # 0 => f["start"] <= f["end"]
         /\ (f["period"] = "custom") = (f["start"] # 0 \/ f["end"] # 0)

\* Filters that can be on screen.
ShownFilters(p, f) ==
    /\ f = [x \in ParametersOf(p) |-> f[x]]
    /\ \A x \in ParametersOf(p) : f[x] \in FilterValues(p)[x]
    /\ InLine(p, f)

\* The location parses to what is shown.
HPInv ==
    hp # Unmounted =>
      /\ hp = [panel |-> hp.panel, url |-> hp.url, filters |-> hp.filters, exported |-> hp.exported]
      /\ hp.panel \in HistoryPanels
      /\ ShownFilters(hp.panel, hp.filters)
      /\ hp.url = [x \in ParametersOf(hp.panel) |-> hp.url[x]]
      /\ \A x \in ParametersOf(hp.panel) : parseFilter(hp.panel, x, hp.url[x]) = hp.filters[x]

\* Days compare.
LEMMA DatesOrder == /\ 0 \in Dates /\ Dates \subseteq Nat
  BY DEF Dates, HPDays

(* The parameters of each panel and their values. *)
LEMMA DeploymentValues ==
  LET V == FilterValues("deployment")
  IN  /\ ParametersOf("deployment") =
           {"source", "sample", "period", "from", "to", "status", "stage", "speed", "threshold", "search"}
      /\ V["source"] = {"current", "all", "archive"} /\ V["sample"] = {"all", "daily"}
      /\ V["period"] = {"all", "1"} /\ V["from"] = Dates /\ V["to"] = Dates
      /\ V["status"] = {"all", "success", "failure", "rollback"}
      /\ V["stage"] = {"all", "unknown", "build"} /\ V["speed"] = {"all", "average", "p95"}
      /\ V["threshold"] = {60, ShortThreshold} /\ V["search"] = {"", "v2"}
  BY DEF FilterValues, ParametersOf

\* The values of each panel, one by one.
LEMMA TraefikValues ==
  LET V == FilterValues("traefik")
  IN  /\ ParametersOf("traefik") = {"actor", "period", "from", "to", "retry", "status"}
      /\ V["actor"] = {"", "kim"} /\ V["period"] = {"all", "1"} /\ V["from"] = Dates /\ V["to"] = Dates
      /\ V["retry"] = {"all", "retried", "not_retried"} /\ V["status"] = {"all", "success", "rejected"}
  BY DEF FilterValues, ParametersOf

LEMMA MaintenanceValues ==
  LET V == FilterValues("maintenance")
  IN  /\ ParametersOf("maintenance") = {"actor", "period", "start", "end"}
      /\ V["actor"] = {"all", "kim"} /\ V["period"] = {"all", "7", "custom"}
      /\ V["start"] = Dates /\ V["end"] = Dates
  BY DEF FilterValues, ParametersOf

LEMMA WatchdogValues ==
  LET V == FilterValues("watchdog")
  IN  /\ ParametersOf("watchdog") = {"event", "result"}
      /\ V["event"] = {"all", "failure"} /\ V["result"] = {"all", "success", "failure", "pending", "other"}
  BY DEF FilterValues, ParametersOf

LEMMA BottleneckValues ==
  LET V == FilterValues("bottleneck")
  IN  /\ ParametersOf("bottleneck") = {"event", "period"}
      /\ V["event"] = {"all", "alerted", "cleared"} /\ V["period"] = {"all", "1"}
  BY DEF FilterValues, ParametersOf

(* Every default is one of the values. *)
LEMMA DefaultsAreValues ==
  ASSUME NEW p \in AllPanels, NEW x \in ParametersOf(p)
  PROVE  FilterDefaults(p)[x] \in FilterValues(p)[x]
<1>1. x \in DOMAIN FilterValues(p) BY DEF ParametersOf
<1>2. FilterDefaults(p)[x] =
        CASE x \in {"from", "to", "start", "end"} -> 0
         [] x = "threshold" -> 60
         [] x = "search" -> ""
         [] x = "actor" /\ p = "traefik" -> ""
         [] x = "source" -> "current"
         [] OTHER -> "all"
  BY <1>1 DEF FilterDefaults
<1>3. CASE p = "deployment" BY <1>2, <1>3, DeploymentValues, DatesOrder
<1>4. CASE p = "traefik" BY <1>2, <1>4, TraefikValues, DatesOrder
<1>5. CASE p = "maintenance" BY <1>2, <1>5, MaintenanceValues, DatesOrder
<1>6. CASE p = "watchdog" BY <1>2, <1>6, WatchdogValues
<1>7. CASE p = "bottleneck" BY <1>2, <1>7, BottleneckValues
<1> QED BY <1>3, <1>4, <1>5, <1>6, <1>7 DEF AllPanels

\* The defaults can be on screen.
LEMMA DefaultsInLine == ASSUME NEW p \in AllPanels PROVE ShownFilters(p, FilterDefaults(p))
<1> DEFINE f == FilterDefaults(p)
<1>1. f = [x \in ParametersOf(p) |-> f[x]] BY DEF FilterDefaults, ParametersOf
<1>2. \A x \in ParametersOf(p) : f[x] \in FilterValues(p)[x] BY DefaultsAreValues
<1>3. InLine(p, f)
  <2>1. CASE p = "deployment"
    <3>1. f["sample"] = "all"
      <4>1. "sample" \in DOMAIN FilterValues(p) BY <2>1, DeploymentValues DEF ParametersOf
      <4> QED BY <4>1 DEF FilterDefaults
    <3> QED BY <2>1, <3>1 DEF InLine
  <2>2. CASE p = "traefik"
    <3>1. {"from", "to"} \subseteq DOMAIN FilterValues(p) BY <2>2, TraefikValues DEF ParametersOf
    <3>2. f["from"] = 0 /\ f["to"] = 0 BY <3>1 DEF FilterDefaults
    <3> QED BY <2>2, <3>2 DEF InLine
  <2>3. CASE p = "maintenance"
    <3>1. {"start", "end", "period"} \subseteq DOMAIN FilterValues(p) BY <2>3, MaintenanceValues DEF ParametersOf
    <3>2. f["start"] = 0 /\ f["end"] = 0 /\ f["period"] = "all" BY <3>1 DEF FilterDefaults
    <3> QED BY <2>3, <3>2 DEF InLine
  <2>4. CASE p \in {"watchdog", "bottleneck"} BY <2>4 DEF InLine
  <2> QED BY <2>1, <2>2, <2>3, <2>4 DEF AllPanels
<1> HIDE DEF f
<1> QED BY <1>1, <1>2, <1>3 DEF ShownFilters, f

(* Reading a location that parses to filters in line gives these filters. *)
LEMMA PanelRead ==
  ASSUME NEW p \in AllPanels, NEW f, ShownFilters(p, f), NEW url,
         url = [x \in ParametersOf(p) |-> url[x]],
         \A x \in ParametersOf(p) : parseFilter(p, x, url[x]) = f[x]
  PROVE  readPanelFilters(p, url) = f
<1> DEFINE u == [x \in DOMAIN url |-> parseFilter(p, x, url[x])]
<1>1. u = f
  <2>1. DOMAIN url = ParametersOf(p) OBVIOUS
  <2>2. u = [x \in ParametersOf(p) |-> f[x]] BY <2>1
  <2> QED BY <2>2 DEF ShownFilters
<1>2. readPanelFilters(p, url) =
        CASE p = "deployment" -> readDeploymentFilters(u)
          [] p = "traefik" -> readTraefikUpdateHistoryFilters(u)
          [] p = "maintenance" -> readMaintenanceHistoryFilters(u)
          [] OTHER -> u
  BY DEF readPanelFilters
<1>3. f = [x \in ParametersOf(p) |-> f[x]] BY DEF ShownFilters
<1>4. \A x \in ParametersOf(p) : [f EXCEPT ![x] = f[x]] = f BY <1>3
<1> HIDE DEF u
<1>5. CASE p = "deployment"
  <2>1. {"source", "sample"} \subseteq ParametersOf(p) BY <1>5, DeploymentValues
  <2>2. f.source = f["source"] /\ f.sample = f["sample"] OBVIOUS
  <2>3. (IF f.source = "current" THEN "all" ELSE f.sample) = f["sample"] BY <1>5, <2>2 DEF ShownFilters, InLine
  <2>4. readDeploymentFilters(f) = [f EXCEPT !["sample"] = f["sample"]] BY <2>3 DEF readDeploymentFilters
  <2> QED BY <1>1, <1>2, <1>4, <1>5, <2>1, <2>4
<1>6. CASE p = "traefik"
  <2>1. {"from", "to", "period"} \subseteq ParametersOf(p) BY <1>6, TraefikValues
  <2>3. (IF f.from # 0 \/ f.to # 0 THEN "all" ELSE f.period) = f["period"] BY <1>6 DEF ShownFilters, InLine
  <2>4. readTraefikUpdateHistoryFilters(f) = [f EXCEPT !["period"] = f["period"]] BY <2>3 DEF readTraefikUpdateHistoryFilters
  <2> QED BY <1>1, <1>2, <1>4, <1>6, <2>1, <2>4
<1>7. CASE p = "maintenance"
  <2>1. {"start", "end", "period"} \subseteq ParametersOf(p) BY <1>7, MaintenanceValues
  <2>2. f["start"] \in Nat /\ f["end"] \in Nat BY <1>7, <2>1, MaintenanceValues, DatesOrder DEF ShownFilters
  <2>3. /\ f["start"] # 0 /\ f["end"] # 0 => f["start"] <= f["end"]
        /\ (f["period"] = "custom") = (f["start"] # 0 \/ f["end"] # 0)
    BY <1>7 DEF ShownFilters, InLine
  <2> DEFINE end == IF f.start # 0 /\ f.end # 0 /\ f.start > f.end THEN 0 ELSE f.end
             period == IF f.start # 0 \/ end # 0 THEN "custom"
                       ELSE IF f.period = "custom" THEN "all" ELSE f.period
  <2>4. end = f["end"] BY <2>2, <2>3
  <2>5. period = f["period"]
    <3>1. period = IF f.start # 0 \/ f["end"] # 0 THEN "custom"
                   ELSE IF f.period = "custom" THEN "all" ELSE f.period
      BY <2>4
    <3> QED BY <2>3, <3>1
  <2>6. readMaintenanceHistoryFilters(f) = [f EXCEPT !["end"] = f["end"], !["period"] = f["period"]]
    <3>1. readMaintenanceHistoryFilters(f) = [f EXCEPT !["end"] = end, !["period"] = period]
      BY DEF readMaintenanceHistoryFilters
    <3> HIDE DEF end, period
    <3> QED BY <3>1, <2>4, <2>5
  <2>7. [f EXCEPT !["end"] = f["end"], !["period"] = f["period"]] = f BY <1>3, <2>1
  <2> QED BY <1>1, <1>2, <1>7, <2>6, <2>7
<1>8. CASE p \in {"watchdog", "bottleneck"} BY <1>1, <1>2, <1>8
<1> QED BY <1>5, <1>6, <1>7, <1>8 DEF AllPanels

(* What a control hands over: values of the panel's parameters, and none   *)
(* that bring the filters out of line.                                     *)
Offered(p, updates) == \A x \in DOMAIN updates : x \in ParametersOf(p) /\ updates[x] \in FilterValues(p)[x]

\* An update that leaves the filters in line.
KeepsInLine(p, f, updates) ==
    LET D == DOMAIN updates
    IN  /\ p = "deployment" =>
             /\ "source" \in D /\ "sample" \in D => updates["sample"] = "all"
             /\ "sample" \in D => updates["sample"] = "all" \/ f["source"] # "current"
        /\ p = "traefik" =>
             /\ {"from", "to"} \cap D # {} => "period" \in D
             /\ "period" \in D /\ updates["period"] # "all" => {"from", "to"} \subseteq D /\ updates["from"] = 0 /\ updates["to"] = 0
        /\ p = "maintenance" =>
             /\ {"start", "end", "period"} \cap D # {} => {"start", "end", "period"} \subseteq D
             /\ "period" \in D =>
                  /\ updates["start"] # 0 /\ updates["end"] # 0 => updates["start"] <= updates["end"]
                  /\ (updates["period"] = "custom") = (updates["start"] # 0 \/ updates["end"] # 0)

\* What updateFilters adds are values too.
LEMMA FullOffered ==
  ASSUME NEW p \in AllPanels, NEW updates, Offered(p, updates)
  PROVE  /\ Offered(p, FullUpdates(p, updates))
         /\ DOMAIN updates \subseteq DOMAIN FullUpdates(p, updates)
<1> DEFINE full == FullUpdates(p, updates)
<1>1. CASE p = "deployment" /\ "source" \in DOMAIN updates
             /\ updates["source"] = "current" /\ "sample" \notin DOMAIN updates
  <2>1. full = [x \in DOMAIN updates \union {"sample"} |-> IF x = "sample" THEN "all" ELSE updates[x]]
    BY <1>1 DEF FullUpdates
  <2>2. "all" \in FilterValues(p)["sample"] /\ "sample" \in ParametersOf(p) BY <1>1, DeploymentValues
  <2> QED BY <2>1, <2>2 DEF Offered
<1>2. CASE ~(p = "deployment" /\ "source" \in DOMAIN updates
             /\ updates["source"] = "current" /\ "sample" \notin DOMAIN updates)
  BY <1>2 DEF FullUpdates
<1> QED BY <1>1, <1>2

(* A control of a panel in line leaves it in line.                         *)
LEMMA SpreadShown ==
  ASSUME NEW p \in AllPanels, NEW f, ShownFilters(p, f),
         NEW updates, Offered(p, updates), KeepsInLine(p, f, updates)
  PROVE  ShownFilters(p, Spread(f, FullUpdates(p, updates)))
<1> DEFINE full == FullUpdates(p, updates)  next == Spread(f, full)
<1>1. f = [x \in ParametersOf(p) |-> f[x]] /\ \A x \in ParametersOf(p) : f[x] \in FilterValues(p)[x]
  BY DEF ShownFilters
<1>2. \A x \in DOMAIN full : x \in ParametersOf(p) /\ full[x] \in FilterValues(p)[x] BY FullOffered DEF Offered
<1>3. DOMAIN f = ParametersOf(p) BY <1>1
<1>4. next = [x \in ParametersOf(p) |-> IF x \in DOMAIN full THEN full[x] ELSE f[x]] BY <1>3 DEF Spread
<1>5. next = [x \in ParametersOf(p) |-> next[x]] BY <1>4
<1>6. \A x \in ParametersOf(p) : next[x] \in FilterValues(p)[x] BY <1>1, <1>2, <1>4
<1>7. InLine(p, f) BY DEF ShownFilters
<1>8. InLine(p, next)
  <2>1. CASE p = "deployment"
    <3>1. {"source", "sample"} \subseteq ParametersOf(p) BY <2>1, DeploymentValues
    <3>2. /\ next["source"] = IF "source" \in DOMAIN full THEN full["source"] ELSE f["source"]
          /\ next["sample"] = IF "sample" \in DOMAIN full THEN full["sample"] ELSE f["sample"]
      BY <3>1, <1>4
    <3>3. CASE "source" \in DOMAIN updates /\ updates["source"] = "current" /\ "sample" \notin DOMAIN updates
      <4>1. full = [x \in DOMAIN updates \union {"sample"} |-> IF x = "sample" THEN "all" ELSE updates[x]]
        BY <2>1, <3>3 DEF FullUpdates
      <4>2. "sample" \in DOMAIN full /\ full["sample"] = "all" BY <4>1
      <4> QED BY <2>1, <3>2, <4>2 DEF InLine
    <3>4. CASE ~("source" \in DOMAIN updates /\ updates["source"] = "current" /\ "sample" \notin DOMAIN updates)
      <4>1. full = updates BY <3>4 DEF FullUpdates
      <4> QED BY <2>1, <3>2, <3>4, <4>1, <1>7 DEF InLine, KeepsInLine
    <3> QED BY <3>3, <3>4
  <2>2. CASE p = "traefik"
    <3>1. {"from", "to", "period"} \subseteq ParametersOf(p) BY <2>2, TraefikValues
    <3>2. full = updates BY <2>2 DEF FullUpdates
    <3>3. /\ next["from"] = IF "from" \in DOMAIN updates THEN updates["from"] ELSE f["from"]
          /\ next["to"] = IF "to" \in DOMAIN updates THEN updates["to"] ELSE f["to"]
          /\ next["period"] = IF "period" \in DOMAIN updates THEN updates["period"] ELSE f["period"]
      BY <3>1, <3>2, <1>4
    <3> HIDE DEF next
    <3> QED BY <2>2, <3>3, <1>7 DEF InLine, KeepsInLine
  <2>3. CASE p = "maintenance"
    <3>1. {"start", "end", "period"} \subseteq ParametersOf(p) BY <2>3, MaintenanceValues
    <3>2. full = updates BY <2>3 DEF FullUpdates
    <3>3. /\ next["start"] = IF "start" \in DOMAIN updates THEN updates["start"] ELSE f["start"]
          /\ next["end"] = IF "end" \in DOMAIN updates THEN updates["end"] ELSE f["end"]
          /\ next["period"] = IF "period" \in DOMAIN updates THEN updates["period"] ELSE f["period"]
      BY <3>1, <3>2, <1>4
    <3> HIDE DEF next
    <3>4. CASE "period" \in DOMAIN updates BY <2>3, <3>3, <3>4 DEF InLine, KeepsInLine
    <3>5. CASE "period" \notin DOMAIN updates
      <4>1. "start" \notin DOMAIN updates /\ "end" \notin DOMAIN updates BY <2>3, <3>5 DEF KeepsInLine
      <4> QED BY <2>3, <3>3, <3>5, <4>1, <1>7 DEF InLine
    <3> QED BY <3>4, <3>5
  <2>4. CASE p \in {"watchdog", "bottleneck"} BY <2>4 DEF InLine
  <2> QED BY <2>1, <2>2, <2>3, <2>4 DEF AllPanels
<1> HIDE DEF next
<1>9. ShownFilters(p, next) BY <1>5, <1>6, <1>8 DEF ShownFilters
<1> QED BY <1>9 DEF next

-----------------------------------------------------------------------------
(* The controls. *)

\* The controls, one kind at a time: they offer values and keep filters in line.
LEMMA OnlyFine ==
  ASSUME NEW p \in AllPanels, NEW f, NEW x \in ParametersOf(p), NEW v \in FilterValues(p)[x],
         p = "deployment" /\ x = "sample" => v = "all" \/ f["source"] # "current",
         p = "traefik" => x \notin {"from", "to", "period"},
         p = "maintenance" => x \notin {"start", "end", "period"}
  PROVE  Offered(p, Only(x, v)) /\ KeepsInLine(p, f, Only(x, v))
<1>1. DOMAIN Only(x, v) = {x} /\ Only(x, v)[x] = v BY DEF Only
<1>2. Offered(p, Only(x, v)) BY <1>1 DEF Offered
<1>3. KeepsInLine(p, f, Only(x, v)) BY <1>1 DEF KeepsInLine
<1> QED BY <1>2, <1>3

LEMMA PeriodFine ==
  ASSUME NEW p \in {"deployment", "traefik"}, NEW f, NEW updates \in PeriodControls(f)
  PROVE  Offered(p, updates) /\ KeepsInLine(p, f, updates)
<1>1. PICK v \in {"all", "1"} : updates = [period |-> v, from |-> 0, to |-> 0] BY DEF PeriodControls
<1>2. DOMAIN updates = {"period", "from", "to"} /\ updates["period"] = v /\ updates["from"] = 0 /\ updates["to"] = 0
  BY <1>1
<1>3. /\ {"period", "from", "to"} \subseteq ParametersOf(p) /\ FilterValues(p)["period"] = {"all", "1"}
      /\ FilterValues(p)["from"] = Dates /\ FilterValues(p)["to"] = Dates
  BY DeploymentValues, TraefikValues
<1>4. Offered(p, updates) BY <1>2, <1>3, DatesOrder DEF Offered
<1>5. KeepsInLine(p, f, updates) BY <1>2 DEF KeepsInLine
<1> QED BY <1>4, <1>5

LEMMA ResetFine ==
  ASSUME NEW p \in {"deployment", "traefik", "watchdog"}, NEW f, NEW updates \in ResetControl(p, f),
         ShownFilters(p, f)
  PROVE  Offered(p, updates) /\ KeepsInLine(p, f, updates)
<1>1. updates = [x \in DOMAIN f \ {"source"} |-> FilterDefaults(p)[x]] BY DEF ResetControl
<1>2. DOMAIN f = ParametersOf(p) BY DEF ShownFilters
<1>3. p \in AllPanels BY DEF AllPanels
<1>4. Offered(p, updates) BY <1>1, <1>2, <1>3, DefaultsAreValues DEF Offered
<1>5. InLine(p, FilterDefaults(p)) BY <1>3, DefaultsInLine DEF ShownFilters
<1>6. KeepsInLine(p, f, updates)
  <2>1. CASE p = "deployment"
    <3>1. "sample" \in DOMAIN FilterValues(p) BY <2>1, DeploymentValues DEF ParametersOf
    <3>2. FilterDefaults(p)["sample"] = "all" BY <3>1 DEF FilterDefaults
    <3>3. "source" \notin DOMAIN updates /\ updates["sample"] = "all" BY <1>1, <1>2, <3>1, <3>2 DEF ParametersOf
    <3> QED BY <2>1, <3>3 DEF KeepsInLine
  <2>2. CASE p = "traefik"
    <3>1. {"from", "to", "period"} \subseteq DOMAIN FilterValues(p) BY <2>2, TraefikValues DEF ParametersOf
    <3>2. FilterDefaults(p)["period"] = "all" BY <3>1 DEF FilterDefaults
    <3>3. {"from", "to", "period"} \subseteq DOMAIN updates /\ updates["period"] = "all"
      BY <1>1, <1>2, <3>1, <3>2 DEF ParametersOf
    <3> QED BY <2>2, <3>3 DEF KeepsInLine
  <2>3. CASE p = "watchdog" BY <2>3 DEF KeepsInLine
  <2> QED BY <2>1, <2>2, <2>3
<1> QED BY <1>4, <1>6

LEMMA TraefikFine ==
  ASSUME NEW f, ShownFilters("traefik", f), NEW updates \in TraefikUpdateControls(f)
  PROVE  Offered("traefik", updates) /\ KeepsInLine("traefik", f, updates)
<1>1. CASE updates \in PeriodControls(f) BY <1>1, PeriodFine
<1>2. CASE updates \in ResetControl("traefik", f) BY <1>2, ResetFine
<1>3. ASSUME NEW x \in {"status", "actor", "retry"}, NEW v \in FilterValues("traefik")[x], updates = Only(x, v)
      PROVE  Offered("traefik", updates) /\ KeepsInLine("traefik", f, updates)
  <2>1. x \in ParametersOf("traefik") /\ x \notin {"from", "to", "period"} BY TraefikValues
  <2>2. "traefik" \in AllPanels BY DEF AllPanels
  <2> QED BY <1>3, <2>1, <2>2, OnlyFine
<1>4. ASSUME NEW d \in Dates, updates = [from |-> d, period |-> "all"]
      PROVE  Offered("traefik", updates) /\ KeepsInLine("traefik", f, updates)
  <2>1. DOMAIN updates = {"from", "period"} /\ updates["from"] = d /\ updates["period"] = "all" BY <1>4
  <2> QED BY <2>1, TraefikValues DEF Offered, KeepsInLine
<1>5. ASSUME NEW d \in Dates, updates = [to |-> d, period |-> "all"]
      PROVE  Offered("traefik", updates) /\ KeepsInLine("traefik", f, updates)
  <2>1. DOMAIN updates = {"to", "period"} /\ updates["to"] = d /\ updates["period"] = "all" BY <1>5
  <2> QED BY <2>1, TraefikValues DEF Offered, KeepsInLine
<1>6. \/ updates \in PeriodControls(f) \/ updates \in ResetControl("traefik", f)
      \/ \E x \in {"status", "actor", "retry"} : \E v \in FilterValues("traefik")[x] : updates = Only(x, v)
      \/ \E d \in Dates : updates = [from |-> d, period |-> "all"]
      \/ \E d \in Dates : updates = [to |-> d, period |-> "all"]
  BY DEF TraefikUpdateControls
<1> QED BY <1>1, <1>2, <1>3, <1>4, <1>5, <1>6

LEMMA WatchdogFine ==
  ASSUME NEW f, ShownFilters("watchdog", f), NEW updates \in WatchdogControls(f)
  PROVE  Offered("watchdog", updates) /\ KeepsInLine("watchdog", f, updates)
<1>1. DOMAIN f = ParametersOf("watchdog") /\ "watchdog" \in AllPanels BY DEF ShownFilters, AllPanels
<1>2. \/ updates \in ResetControl("watchdog", f)
      \/ \E x \in ParametersOf("watchdog") : \E v \in FilterValues("watchdog")[x] : updates = Only(x, v)
  BY <1>1 DEF WatchdogControls
<1> QED BY <1>1, <1>2, ResetFine, OnlyFine

LEMMA BottleneckFine ==
  ASSUME NEW f, ShownFilters("bottleneck", f), NEW updates \in BottleneckControls(f)
  PROVE  Offered("bottleneck", updates) /\ KeepsInLine("bottleneck", f, updates)
<1>1. DOMAIN f = ParametersOf("bottleneck") /\ "bottleneck" \in AllPanels BY DEF ShownFilters, AllPanels
<1>2. \E x \in ParametersOf("bottleneck") : \E v \in FilterValues("bottleneck")[x] : updates = Only(x, v)
  BY <1>1 DEF BottleneckControls
<1> QED BY <1>1, <1>2, OnlyFine

LEMMA MaintenanceFine ==
  ASSUME NEW f, ShownFilters("maintenance", f), NEW updates \in MaintenanceControls(f)
  PROVE  Offered("maintenance", updates) /\ KeepsInLine("maintenance", f, updates)
<1> DEFINE Fine == Offered("maintenance", updates) /\ KeepsInLine("maintenance", f, updates)
<1>1. f["start"] \in Dates /\ f["end"] \in Dates /\ f.start = f["start"] /\ f.end = f["end"]
  BY MaintenanceValues DEF ShownFilters
<1>2. ASSUME NEW v \in FilterValues("maintenance").actor, updates = [actor |-> v] PROVE Fine
  <2>1. DOMAIN updates = {"actor"} /\ updates["actor"] = v BY <1>2
  <2> QED BY <2>1, MaintenanceValues DEF Offered, KeepsInLine
<1>3. ASSUME NEW v \in {"all", "7"}, updates = [period |-> v, start |-> 0, end |-> 0] PROVE Fine
  <2>1. DOMAIN updates = {"period", "start", "end"} /\ updates["period"] = v
        /\ updates["start"] = 0 /\ updates["end"] = 0
    BY <1>3
  <2> QED BY <2>1, MaintenanceValues, DatesOrder DEF Offered, KeepsInLine
<1>4. ASSUME NEW start \in Dates, NEW end \in Dates, start # 0 /\ end # 0 => start <= end,
             updates = [start |-> start, end |-> end, period |-> IF start = 0 /\ end = 0 THEN "all" ELSE "custom"]
      PROVE  Fine
  <2>1. DOMAIN updates = {"period", "start", "end"} /\ updates["start"] = start /\ updates["end"] = end
        /\ updates["period"] = IF start = 0 /\ end = 0 THEN "all" ELSE "custom"
    BY <1>4
  <2> QED BY <2>1, <1>4, MaintenanceValues DEF Offered, KeepsInLine
<1>5. ASSUME NEW d \in Dates,
             LET end == IF d # 0 /\ f.end # 0 /\ d > f.end THEN 0 ELSE f.end
             IN  updates = [start |-> d, end |-> end, period |-> IF d = 0 /\ end = 0 THEN "all" ELSE "custom"]
      PROVE  Fine
  <2> DEFINE end == IF d # 0 /\ f.end # 0 /\ d > f.end THEN 0 ELSE f.end
  <2>1. end \in Dates /\ (d # 0 /\ end # 0 => d <= end)
    <3>1. d \in Nat /\ f.end \in Nat /\ f.end \in Dates /\ 0 \in Dates BY <1>1, DatesOrder
    <3> QED BY <3>1
  <2>2. updates = [start |-> d, end |-> end, period |-> IF d = 0 /\ end = 0 THEN "all" ELSE "custom"] BY <1>5
  <2> HIDE DEF end
  <2> QED BY <2>1, <2>2, <1>4
<1>6. ASSUME NEW d \in Dates,
             LET start == IF d # 0 /\ f.start # 0 /\ d < f.start THEN 0 ELSE f.start
             IN  updates = [start |-> start, end |-> d, period |-> IF start = 0 /\ d = 0 THEN "all" ELSE "custom"]
      PROVE  Fine
  <2> DEFINE start == IF d # 0 /\ f.start # 0 /\ d < f.start THEN 0 ELSE f.start
  <2>1. start \in Dates /\ (start # 0 /\ d # 0 => start <= d)
    <3>1. d \in Nat /\ f.start \in Nat /\ f.start \in Dates /\ 0 \in Dates BY <1>1, DatesOrder
    <3> QED BY <3>1
  <2>2. updates = [start |-> start, end |-> d, period |-> IF start = 0 /\ d = 0 THEN "all" ELSE "custom"] BY <1>6
  <2> HIDE DEF start
  <2> QED BY <2>1, <2>2, <1>4
<1>7. \/ \E v \in FilterValues("maintenance").actor : updates = [actor |-> v]
      \/ \E v \in {"all", "7"} : updates = [period |-> v, start |-> 0, end |-> 0]
      \/ \E d \in Dates :
           LET end == IF d # 0 /\ f.end # 0 /\ d > f.end THEN 0 ELSE f.end
           IN  updates = [start |-> d, end |-> end, period |-> IF d = 0 /\ end = 0 THEN "all" ELSE "custom"]
      \/ \E d \in Dates :
           LET start == IF d # 0 /\ f.start # 0 /\ d < f.start THEN 0 ELSE f.start
           IN  updates = [start |-> start, end |-> d, period |-> IF start = 0 /\ d = 0 THEN "all" ELSE "custom"]
  BY DEF MaintenanceControls
<1> HIDE DEF Fine
<1>8. Fine BY <1>2, <1>3, <1>5, <1>6, <1>7
<1> QED BY <1>8 DEF Fine

LEMMA DateFine ==
  ASSUME NEW f, ShownFilters("deployment", f), NEW updates \in DateControls(f)
  PROVE  Offered("deployment", updates) /\ KeepsInLine("deployment", f, updates)
<1>1. f["from"] \in Dates /\ f["to"] \in Dates /\ f.from = f["from"] /\ f.to = f["to"]
  BY DeploymentValues DEF ShownFilters
<1>2. PICK from \in Dates, to \in Dates : DOMAIN updates = {"from", "to", "period"}
          /\ updates["from"] = from /\ updates["to"] = to /\ updates["period"] = "all"
  <2>1. CASE \E d \in Dates :
               updates = [from |-> d, to |-> IF d # 0 /\ f.to # 0 /\ d > f.to THEN d ELSE f.to, period |-> "all"]
    <3>1. PICK d \in Dates :
               updates = [from |-> d, to |-> IF d # 0 /\ f.to # 0 /\ d > f.to THEN d ELSE f.to, period |-> "all"]
      BY <2>1
    <3> DEFINE to == IF d # 0 /\ f.to # 0 /\ d > f.to THEN d ELSE f.to
    <3>2. to \in Dates BY <1>1
    <3>3. updates = [from |-> d, to |-> to, period |-> "all"] BY <3>1
    <3> HIDE DEF to
    <3>4. DOMAIN updates = {"from", "to", "period"}
          /\ updates["from"] = d /\ updates["to"] = to /\ updates["period"] = "all" BY <3>3
    <3> QED BY <3>2, <3>4
  <2>2. CASE \E d \in Dates :
               updates = [to |-> d, from |-> IF d # 0 /\ f.from # 0 /\ d < f.from THEN d ELSE f.from, period |-> "all"]
    <3>1. PICK d \in Dates :
               updates = [to |-> d, from |-> IF d # 0 /\ f.from # 0 /\ d < f.from THEN d ELSE f.from, period |-> "all"]
      BY <2>2
    <3> DEFINE from == IF d # 0 /\ f.from # 0 /\ d < f.from THEN d ELSE f.from
    <3>2. from \in Dates BY <1>1
    <3>3. updates = [from |-> from, to |-> d, period |-> "all"] BY <3>1
    <3> HIDE DEF from
    <3>4. DOMAIN updates = {"from", "to", "period"}
          /\ updates["from"] = from /\ updates["to"] = d /\ updates["period"] = "all" BY <3>3
    <3> QED BY <3>2, <3>4
  <2> QED BY <2>1, <2>2 DEF DateControls
<1>3. Offered("deployment", updates) BY <1>2, DeploymentValues DEF Offered
<1>4. KeepsInLine("deployment", f, updates) BY <1>2 DEF KeepsInLine
<1> QED BY <1>3, <1>4

LEMMA DeploymentFine ==
  ASSUME NEW f, ShownFilters("deployment", f), NEW updates \in DeploymentControls(f)
  PROVE  Offered("deployment", updates) /\ KeepsInLine("deployment", f, updates)
<1> DEFINE Fine == Offered("deployment", updates) /\ KeepsInLine("deployment", f, updates)
<1>a. "deployment" \in AllPanels BY DEF AllPanels
<1>b. DOMAIN f = ParametersOf("deployment") BY DEF ShownFilters
<1>1. ASSUME NEW x \in ParametersOf("deployment"), NEW v \in FilterValues("deployment")[x],
             x = "sample" => v = "all" \/ f["source"] # "current", updates = Only(x, v)
      PROVE  Fine
  BY <1>a, <1>1, OnlyFine
<1>2. CASE updates \in SourceControls(f)
  <2>1. PICK s \in {"current", "all", "archive"} : updates = [source |-> s, stage |-> "all", status |-> "all"]
    BY <1>2 DEF SourceControls
  <2>2. DOMAIN updates = {"source", "stage", "status"}
        /\ updates["source"] = s /\ updates["stage"] = "all" /\ updates["status"] = "all"
    BY <2>1
  <2>3. Offered("deployment", updates) BY <2>2, DeploymentValues DEF Offered
  <2>4. KeepsInLine("deployment", f, updates) BY <2>2 DEF KeepsInLine
  <2> QED BY <2>3, <2>4
<1>3. CASE updates \in PeriodControls(f) BY <1>3, PeriodFine
<1>4. CASE updates \in DateControls(f) BY <1>4, DateFine
<1>5. CASE updates \in ResetControl("deployment", f) BY <1>5, ResetFine
<1>6. ASSUME NEW text \in {"", "v2"}, updates = [search |-> text] PROVE Fine
  <2>1. DOMAIN updates = {"search"} /\ updates["search"] = text BY <1>6
  <2>2. Offered("deployment", updates) BY <2>1, DeploymentValues DEF Offered
  <2>3. KeepsInLine("deployment", f, updates) BY <2>1 DEF KeepsInLine
  <2> QED BY <2>2, <2>3
<1>7. ASSUME f.source # "current", NEW v \in {"all", "daily"}, updates = [sample |-> v] PROVE Fine
  <2>1. updates = Only("sample", v) BY <1>7 DEF Only
  <2>2. f["source"] # "current" BY <1>7
  <2> QED BY <2>1, <2>2, <1>1, DeploymentValues
<1>8. ASSUME NEW s \in {"success", "failure", "rollback"}, updates = Toggled("status", s, f) PROVE Fine
  <2>1. PICK v \in FilterValues("deployment")["status"] : updates = Only("status", v)
    BY <1>8, DeploymentValues DEF Toggled
  <2> QED BY <2>1, <1>1, DeploymentValues
<1>9. ASSUME NEW s \in {"average", "p95"}, updates = Toggled("speed", s, f) PROVE Fine
  <2>1. PICK v \in FilterValues("deployment")["speed"] : updates = Only("speed", v)
    BY <1>9, DeploymentValues DEF Toggled
  <2> QED BY <2>1, <1>1, DeploymentValues
<1>10. ASSUME NEW s \in {"unknown", "build"}, updates = Toggled("stage", s, f) PROVE Fine
  <2>1. PICK v \in FilterValues("deployment")["stage"] : updates = Only("stage", v)
    BY <1>10, DeploymentValues DEF Toggled
  <2> QED BY <2>1, <1>1, DeploymentValues
<1>11. ASSUME NEW s \in FilterValues("deployment").status, updates = [status |-> s] PROVE Fine
  <2>1. updates = Only("status", s) /\ s \in FilterValues("deployment")["status"] BY <1>11 DEF Only
  <2> QED BY <2>1, <1>1, DeploymentValues
<1>12. ASSUME NEW t \in FilterValues("deployment").threshold, updates = [threshold |-> t] PROVE Fine
  <2>1. updates = Only("threshold", t) /\ t \in FilterValues("deployment")["threshold"] BY <1>12 DEF Only
  <2> QED BY <2>1, <1>1, DeploymentValues
<1>13. ASSUME NEW x \in DOMAIN f, updates = Only(x, FilterDefaults("deployment")[x]) PROVE Fine
  <2>1. x \in ParametersOf("deployment") BY <1>b
  <2>2. FilterDefaults("deployment")[x] \in FilterValues("deployment")[x] BY <2>1, <1>a, DefaultsAreValues
  <2>3. x = "sample" => FilterDefaults("deployment")[x] = "all" BY <2>1 DEF FilterDefaults, ParametersOf
  <2> QED BY <2>1, <2>2, <2>3, <1>1, <1>13
<1>14. CASE updates \in PrimaryControls(f) BY <1>14, <1>3, <1>4, <1>5, <1>6, <1>7 DEF PrimaryControls
<1>15. CASE updates \in OutcomeControls(f) BY <1>15, <1>8, <1>9 DEF OutcomeControls
<1>16. CASE updates \in StatusButtons(f) BY <1>16, <1>11 DEF StatusButtons
<1>17. CASE updates \in ConditionChips(f) BY <1>17, <1>13 DEF ConditionChips
<1>18. CASE updates \in FailureStageControls(f) BY <1>18, <1>10 DEF FailureStageControls
<1>19. CASE updates \in ThresholdControl(f) BY <1>19, <1>12 DEF ThresholdControl
<1> HIDE DEF Fine
<1> DEFINE rest == IF visibleEntries(f) = {} THEN {}
                   ELSE PrimaryControls(f) \union OutcomeControls(f) \union StatusButtons(f) \union ConditionChips(f)
<1>20. CASE updates \in rest BY <1>20, <1>14, <1>15, <1>16, <1>17
<1>21. DeploymentControls(f) = SourceControls(f) \union rest \union FailureStageControls(f) \union ThresholdControl(f)
  BY DEF DeploymentControls
<1> HIDE DEF rest
<1> QED BY <1>2, <1>18, <1>19, <1>20, <1>21

\* Every control of every panel.
LEMMA ControlsFine ==
  ASSUME NEW p \in AllPanels, NEW f, ShownFilters(p, f), NEW updates \in PanelControls(p, f)
  PROVE  Offered(p, updates) /\ KeepsInLine(p, f, updates)
<1>1. CASE p = "deployment"
  <2>1. updates \in DeploymentControls(f) BY <1>1 DEF PanelControls
  <2> QED BY <1>1, <2>1, DeploymentFine
<1>2. CASE p = "traefik"
  <2>1. updates \in TraefikUpdateControls(f) BY <1>2 DEF PanelControls
  <2> QED BY <1>2, <2>1, TraefikFine
<1>3. CASE p = "maintenance"
  <2>1. updates \in MaintenanceControls(f) BY <1>3 DEF PanelControls
  <2> QED BY <1>3, <2>1, MaintenanceFine
<1>4. CASE p = "watchdog"
  <2>1. updates \in WatchdogControls(f) BY <1>4 DEF PanelControls
  <2> QED BY <1>4, <2>1, WatchdogFine
<1>5. CASE p = "bottleneck"
  <2>1. updates \in BottleneckControls(f) BY <1>5 DEF PanelControls
  <2> QED BY <1>5, <2>1, BottleneckFine
<1> QED BY <1>1, <1>2, <1>3, <1>4, <1>5 DEF AllPanels

-----------------------------------------------------------------------------
(* The steps of a panel. *)

\* A value of a parameter parses to itself.
LEMMA ParsedValue ==
  ASSUME NEW p, NEW x, NEW v \in FilterValues(p)[x] PROVE parseFilter(p, x, v) = v
  BY DEF parseFilter

\* A panel that opens brings its filters in line with the location.
LEMMA HPMountedInv == ASSUME HPMounted PROVE HPInv
<1>1. PICK p \in HistoryPanels, old \in BOOLEAN :
        hp = PanelOpened(p, IF old THEN [f \in DOMAIN FilterDefaults(p) |->
                                         IF f \in {"status", "event"} THEN "junk" ELSE FilterDefaults(p)[f]]
                          ELSE FilterDefaults(p))
  BY DEF HPMounted
<1> DEFINE junk == [f \in DOMAIN FilterDefaults(p) |->
                      IF f \in {"status", "event"} THEN "junk" ELSE FilterDefaults(p)[f]]
           url == IF old THEN junk ELSE FilterDefaults(p)
<1>2. p \in AllPanels BY PanelsAssumption
<1>3. hp = PanelOpened(p, url) BY <1>1
<1>4. DOMAIN FilterDefaults(p) = ParametersOf(p) BY DEF FilterDefaults, ParametersOf
<1>5. url = [x \in ParametersOf(p) |-> url[x]]
  <2>1. CASE old BY <2>1, <1>4
  <2>2. CASE ~old BY <2>2, <1>2, DefaultsInLine DEF ShownFilters
  <2> QED BY <2>1, <2>2
<1>6. \A x \in ParametersOf(p) : url[x] = FilterDefaults(p)[x] \/ (url[x] = "junk" /\ x \in {"status", "event"})
  BY <1>4
<1>7. ASSUME NEW x \in ParametersOf(p), x \in {"status", "event"} PROVE parseFilter(p, x, "junk") = FilterDefaults(p)[x]
  <2>1. "junk" \notin FilterValues(p)[x]
    <3>1. CASE p = "deployment"
      <4>1. x = "status" BY <3>1, <1>7, DeploymentValues
      <4>2. FilterValues(p)[x] = {"all", "success", "failure", "rollback"} BY <3>1, <4>1, DeploymentValues
      <4> QED BY <4>2
    <3>2. CASE p = "traefik"
      <4>1. x = "status" BY <3>2, <1>7, TraefikValues
      <4>2. FilterValues(p)[x] = {"all", "success", "rejected"} BY <3>2, <4>1, TraefikValues
      <4> QED BY <4>2
    <3>3. CASE p = "maintenance" BY <3>3, <1>7, MaintenanceValues
    <3>4. CASE p = "watchdog" BY <3>4, <1>7, WatchdogValues
    <3>5. CASE p = "bottleneck" BY <3>5, <1>7, BottleneckValues
    <3> QED BY <1>2, <3>1, <3>2, <3>3, <3>4, <3>5 DEF AllPanels
  <2> QED BY <2>1 DEF parseFilter
<1> HIDE DEF url
<1>8. \A x \in ParametersOf(p) : parseFilter(p, x, url[x]) = FilterDefaults(p)[x]
  BY <1>2, <1>6, <1>7, ParsedValue, DefaultsAreValues
<1>9. ShownFilters(p, FilterDefaults(p)) BY <1>2, DefaultsInLine
<1>10. readPanelFilters(p, url) = FilterDefaults(p)
  BY <1>2, <1>5, <1>8, <1>9, PanelRead
<1>11. hp = [panel |-> p, url |-> url, filters |-> FilterDefaults(p), exported |-> {}]
  BY <1>3, <1>10 DEF PanelOpened
<1>12. hp.panel = p /\ hp.url = url /\ hp.filters = FilterDefaults(p) /\ hp.exported = {} BY <1>11
<1> QED BY <1>5, <1>8, <1>9, <1>11, <1>12 DEF HPInv

LEMMA HPShown ==
  ASSUME HPInv PROVE PanelUrlRestores
  BY PanelRead, PanelsAssumption DEF HPInv, PanelUrlRestores

\* Each action of a panel keeps the invariant.
LEMMA HPStep ==
  ASSUME HPInv, hp # Unmounted, HPNext PROVE HPInv'
<1> DEFINE p == hp.panel  f == hp.filters  url == hp.url
<1>1. /\ hp = [panel |-> p, url |-> url, filters |-> f, exported |-> hp.exported]
      /\ p \in HistoryPanels /\ p \in AllPanels /\ ShownFilters(p, f)
      /\ url = [x \in ParametersOf(p) |-> url[x]]
      /\ \A x \in ParametersOf(p) : parseFilter(p, x, url[x]) = f[x]
  BY PanelsAssumption DEF HPInv
<1>2. ASSUME NEW next, NEW address, NEW notice,
             hp' = [panel |-> p, url |-> address, filters |-> next, exported |-> notice],
             ShownFilters(p, next), address = [x \in ParametersOf(p) |-> address[x]],
             \A x \in ParametersOf(p) : parseFilter(p, x, address[x]) = next[x]
      PROVE  HPInv'
  <2>1. hp'.panel = p /\ hp'.url = address /\ hp'.filters = next /\ hp'.exported = notice BY <1>2
  <2> HIDE DEF p
  <2> QED BY <1>1, <1>2, <2>1 DEF HPInv
<1>3. ASSUME NEW updates \in PanelControls(hp.panel, hp.filters), UpdateFilters(updates) PROVE HPInv'
  <2> DEFINE full == FullUpdates(p, updates)  next == Spread(f, full)
             written == WrittenParameters(p, next, full)  address == Spread(url, written)
  <2>1. hp' = [hp EXCEPT !.filters = next, !.url = address, !.exported = {}] BY <1>3 DEF UpdateFilters
  <2>2. hp' = [panel |-> p, url |-> address, filters |-> next, exported |-> {}]
    <3>1. hp = [panel |-> p, url |-> url, filters |-> f, exported |-> hp.exported] BY <1>1
    <3> HIDE DEF next, address, p, f, url
    <3>2. DOMAIN hp = {"panel", "url", "filters", "exported"} /\ hp.panel = p BY <3>1
    <3>3. DOMAIN hp' = {"panel", "url", "filters", "exported"} /\ hp' = [x \in DOMAIN hp' |-> hp'[x]]
      BY <2>1, <3>2
    <3>4. hp'.panel = p /\ hp'.url = address /\ hp'.filters = next /\ hp'.exported = {}
      BY <2>1, <3>2
    <3> QED BY <3>3, <3>4
  <2>3. Offered(p, updates) /\ KeepsInLine(p, f, updates) BY <1>1, ControlsFine
  <2>4. ShownFilters(p, next) BY <1>1, <2>3, SpreadShown
  <2>5. Offered(p, full) BY <1>1, <2>3, FullOffered
  <2>6. DOMAIN f = ParametersOf(p) /\ DOMAIN url = ParametersOf(p)
    <3>1. f = [x \in ParametersOf(p) |-> f[x]] BY <1>1 DEF ShownFilters
    <3> QED BY <3>1, <1>1
  <2>7. next = [x \in ParametersOf(p) |-> IF x \in DOMAIN full THEN full[x] ELSE f[x]] BY <2>6 DEF Spread
  <2>8. address = [x \in ParametersOf(p) |-> IF x \in DOMAIN written THEN written[x] ELSE url[x]] BY <2>6 DEF Spread
  <2>9. written = next \/ written = full BY DEF WrittenParameters
  <2>10. \A x \in ParametersOf(p) : next[x] \in FilterValues(p)[x] BY <2>4 DEF ShownFilters
  <2> HIDE DEF full, next, written, address
  <2>11. ASSUME NEW x \in ParametersOf(p) PROVE parseFilter(p, x, address[x]) = next[x]
    <3>1. CASE x \in DOMAIN written
      <4>1. written[x] = next[x] BY <2>7, <2>9, <3>1
      <4>2. address[x] = next[x] BY <2>8, <3>1, <4>1
      <4> QED BY <4>2, <2>10, ParsedValue
    <3>2. CASE x \notin DOMAIN written
      <4>1. x \notin DOMAIN full BY <2>7, <2>9, <3>2
      <4>2. address[x] = url[x] /\ next[x] = f[x] BY <2>7, <2>8, <3>2, <4>1
      <4> QED BY <4>2, <1>1
    <3> QED BY <3>1, <3>2
  <2>12. address = [x \in ParametersOf(p) |-> address[x]] BY <2>8
  <2> QED BY <1>2, <2>2, <2>4, <2>11, <2>12
<1>4. CASE ExportHistory
  <2>1. PICK notice : hp' = [hp EXCEPT !.exported = notice] BY <1>4 DEF ExportHistory
  <2>2. hp' = [panel |-> p, url |-> url, filters |-> f, exported |-> notice]
    <3> HIDE DEF p, f, url
    <3> QED BY <2>1, <1>1
  <2> QED BY <2>2, <1>1, <1>2
<1>5. CASE ReloadPanels
  <2>1. readPanelFilters(p, url) = f BY <1>1, PanelRead
  <2>2. hp' = [panel |-> p, url |-> url, filters |-> f, exported |-> {}]
    BY <1>5, <2>1 DEF ReloadPanels, PanelOpened
  <2> QED BY <2>2, <1>1, <1>2
<1> QED BY <1>3, <1>4, <1>5 DEF HPNext

-----------------------------------------------------------------------------
(* The list of middleware templates (MiddlewareTemplates). *)

\* A search and a status for each tab.
MFShape(s) ==
    /\ {"tab", "search", "status", "url"} \subseteq DOMAIN s
    /\ s.tab \in Tabs
    /\ s.search \in [Tabs -> MiddlewareTexts]
    /\ DOMAIN s.status = Tabs /\ \A t \in Tabs : s.status[t] \in StatusesOf(t)

\* The location is that of the tab on screen.
MFInv == mf # Unmounted => MFShape(mf) /\ mf.url = UrlOfActiveTab(mf)

\* Every tab has the status "all".
LEMMA StatusesKnown ==
  /\ \A t \in Tabs : "all" \in StatusesOf(t) /\ Absent \notin StatusesOf(t)
  BY DEF Tabs, StatusesOf, TemplateStatuses, GeneratedStatuses, Absent

(* The effect that writes the address bar. *)
LEMMA AddressWritten ==
  ASSUME NEW s, MFShape(s)
  PROVE  LET r == replaceMiddlewarePageUrl(s) IN MFShape(r) /\ r.url = UrlOfActiveTab(r)
<1> DEFINE r == replaceMiddlewarePageUrl(s)
<1>1. /\ DOMAIN r = DOMAIN s /\ r.tab = s.tab /\ r.search = s.search /\ r.status = s.status
      /\ r.url = UrlOfActiveTab(s)
  BY DEF MFShape, replaceMiddlewarePageUrl
<1> HIDE DEF r
<1>2. UrlOfActiveTab(r) = UrlOfActiveTab(s) BY <1>1 DEF UrlOfActiveTab
<1>3. MFShape(r) BY <1>1 DEF MFShape
<1>4. MFShape(r) /\ r.url = UrlOfActiveTab(r) BY <1>1, <1>2, <1>3
<1> QED BY <1>4 DEF r

\* A location that was written reads as the tab it was written for.
LEMMA AddressRead ==
  ASSUME NEW s, {"tab", "search", "status", "url"} \subseteq DOMAIN s, NEW url, url.search \in MiddlewareTexts
  PROVE  LET r == OpenedAt(s, url) IN MFShape(r) /\ r.url = UrlOfActiveTab(r)
<1> DEFINE tab == IF url.tab = "generated" THEN "generated" ELSE "templates"
           search == [t \in Tabs |-> IF t = tab THEN url.search ELSE ""]
           status == [t \in Tabs |-> IF t = tab THEN ReadStatus(t, url.status) ELSE "all"]
           r == readMiddlewarePageUrlState(s, url)
<1>1. r = [s EXCEPT !.tab = tab, !.search = search, !.status = status] BY DEF readMiddlewarePageUrlState
<1>2. tab \in Tabs /\ search \in [Tabs -> MiddlewareTexts] BY DEF Tabs, MiddlewareTexts
<1>3. DOMAIN status = Tabs /\ \A t \in Tabs : status[t] \in StatusesOf(t) BY StatusesKnown DEF ReadStatus
<1> HIDE DEF tab, search, status, r
<1>4. DOMAIN r = DOMAIN s /\ r.tab = tab /\ r.search = search /\ r.status = status BY <1>1
<1>5. MFShape(r) BY <1>2, <1>3, <1>4 DEF MFShape
<1> QED BY <1>5, AddressWritten DEF OpenedAt, r

\* The page that opens reads its location and replaces it.
LEMMA MFMountedInv == ASSUME MFMounted PROVE MFInv
<1>1. PICK service \in GeneratedFor, url \in [tab : {Absent, "generated"}, search : {"", "x"},
          status : {Absent, "bogus"} \union TemplateStatuses \union GeneratedStatuses] :
      mf = OpenedAt([tab |-> "templates", search |-> [t \in Tabs |-> ""],
                     status |-> [t \in Tabs |-> "all"], url |-> url,
                     service |-> service, applied |-> TRUE, runtime |-> Disconnected,
                     current |-> FALSE], url)
  BY DEF MFMounted
<1> DEFINE s == [tab |-> "templates", search |-> [t \in Tabs |-> ""],
                 status |-> [t \in Tabs |-> "all"], url |-> url,
                 service |-> service, applied |-> TRUE, runtime |-> Disconnected,
                 current |-> FALSE]
<1>2. {"tab", "search", "status", "url"} \subseteq DOMAIN s OBVIOUS
<1>3. url.search \in {"", "x"} OBVIOUS
<1>4. url.search \in MiddlewareTexts BY <1>3 DEF MiddlewareTexts
<1>5. mf = OpenedAt(s, url) BY <1>1
<1> HIDE DEF s
<1> QED BY <1>2, <1>4, <1>5, AddressRead DEF MFInv

\* Each action of the page keeps the invariant.
LEMMA MFStep == ASSUME MFInv, mf # Unmounted, MFNext PROVE MFInv'
<1>1. MFShape(mf) /\ mf.url = UrlOfActiveTab(mf) BY DEF MFInv
<1>2. mf.tab \in Tabs /\ mf.search \in [Tabs -> MiddlewareTexts] /\ DOMAIN mf.status = Tabs
      /\ {"tab", "search", "status", "url"} \subseteq DOMAIN mf
      /\ \A t \in Tabs : mf.status[t] \in StatusesOf(t)
  BY <1>1 DEF MFShape
<1>3. ASSUME NEW s, MFShape(s), mf' = replaceMiddlewarePageUrl(s) PROVE MFInv'
  BY <1>3, AddressWritten DEF MFInv
<1>4. ASSUME mf'.tab = mf.tab, mf'.search = mf.search, mf'.status = mf.status, mf'.url = mf.url, DOMAIN mf' = DOMAIN mf
      PROVE  MFInv'
  <2>1. MFShape(mf') BY <1>1, <1>4 DEF MFShape
  <2>2. UrlOfActiveTab(mf') = UrlOfActiveTab(mf) BY <1>4 DEF UrlOfActiveTab
  <2> QED BY <1>1, <1>4, <2>1, <2>2 DEF MFInv
<1>5. ASSUME NEW tab \in Tabs, ChangeTab(tab) PROVE MFInv'
  <2>1. MFShape([mf EXCEPT !.tab = tab]) BY <1>2 DEF MFShape
  <2> QED BY <2>1, <1>3, <1>5 DEF ChangeTab
<1>6. ASSUME NEW text \in MiddlewareTexts, ChangeSearch(text) PROVE MFInv'
  <2>1. MFShape([mf EXCEPT !.search[mf.tab] = text]) BY <1>2 DEF MFShape
  <2> QED BY <2>1, <1>3, <1>6 DEF ChangeSearch
<1>7. ASSUME NEW status, ChangeMiddlewareStatus(status) PROVE MFInv'
  <2>1. status \in StatusesOf(mf.tab) BY <1>7 DEF ChangeMiddlewareStatus
  <2>2. MFShape([mf EXCEPT !.status[mf.tab] = status]) BY <1>2, <2>1 DEF MFShape
  <2> QED BY <2>2, <1>3, <1>7 DEF ChangeMiddlewareStatus
<1>8. CASE resetFilters
  <2> DEFINE s == [mf EXCEPT !.search[mf.tab] = "", !.status[mf.tab] = "all"]
  <2>1. "" \in MiddlewareTexts /\ "all" \in StatusesOf(mf.tab) BY <1>2, StatusesKnown DEF MiddlewareTexts
  <2>2. DOMAIN s = DOMAIN mf /\ s.tab = mf.tab /\ s.search = [mf.search EXCEPT ![mf.tab] = ""]
        /\ s.status = [mf.status EXCEPT ![mf.tab] = "all"]
    BY <1>2
  <2> HIDE DEF s
  <2>3. MFShape(s) BY <1>2, <2>1, <2>2 DEF MFShape
  <2>4. mf' = replaceMiddlewarePageUrl(s) BY <1>8 DEF resetFilters, s
  <2> QED BY <2>3, <2>4, <1>3
<1>9. CASE PopState
  <2>1. mf.url.search = Trim(mf.search[mf.tab]) BY <1>1 DEF UrlOfActiveTab
  <2>2. mf.url.search \in MiddlewareTexts BY <1>2, <2>1 DEF Trim, MiddlewareTexts
  <2> QED BY <1>9, <1>2, <2>2, AddressRead DEF PopState, MFInv
<1>10. CASE RuntimeUnreachable BY <1>10, <1>4, <1>2 DEF RuntimeUnreachable
<1>11. ASSUME NEW service, NEW applied, ServicesChanged(service, applied) PROVE MFInv'
  BY <1>11, <1>4, <1>2 DEF ServicesChanged
<1>12. ASSUME NEW loaded, NEW template, NEW status, RuntimeAnswered(loaded, template, status) PROVE MFInv'
  <2>1. PICK a : mf' = [mf EXCEPT !.runtime = a, !.current = loaded] BY <1>12 DEF RuntimeAnswered
  <2> QED BY <2>1, <1>4, <1>2
<1> QED BY <1>5, <1>6, <1>7, <1>8, <1>9, <1>10, <1>11, <1>12 DEF MFNext

LEMMA MFShown == ASSUME MFInv PROVE MiddlewareLinkRestores
<1> SUFFICES ASSUME mf # Unmounted
             PROVE  LET again == readMiddlewarePageUrlState(mf, mf.url)
                    IN  /\ again.tab = mf.tab /\ again.status[mf.tab] = mf.status[mf.tab]
                        /\ Trim(again.search[mf.tab]) = Trim(mf.search[mf.tab])
  BY DEF MiddlewareLinkRestores
<1> DEFINE url == mf.url
           tab == IF url.tab = "generated" THEN "generated" ELSE "templates"
           search == [t \in Tabs |-> IF t = tab THEN url.search ELSE ""]
           status == [t \in Tabs |-> IF t = tab THEN ReadStatus(t, url.status) ELSE "all"]
           again == readMiddlewarePageUrlState(mf, mf.url)
<1>1. again = [mf EXCEPT !.tab = tab, !.search = search, !.status = status] BY DEF readMiddlewarePageUrlState
<1>2. MFShape(mf) /\ url = UrlOfActiveTab(mf) BY DEF MFInv
<1>3. /\ url.tab = mf.tab /\ url.search = Trim(mf.search[mf.tab])
      /\ url.status = IF mf.status[mf.tab] = "all" THEN Absent ELSE mf.status[mf.tab]
  BY <1>2 DEF UrlOfActiveTab
<1>4. tab = mf.tab /\ mf.tab \in Tabs BY <1>2, <1>3 DEF MFShape, Tabs
<1>5. again.tab = tab /\ again.search = search /\ again.status = status BY <1>1, <1>2 DEF MFShape
<1>6. search[mf.tab] = Trim(mf.search[mf.tab]) BY <1>3, <1>4
<1>7. Trim(Trim(mf.search[mf.tab])) = Trim(mf.search[mf.tab]) BY DEF Trim
<1>8. status[mf.tab] = ReadStatus(mf.tab, url.status) BY <1>4
<1>9. ReadStatus(mf.tab, url.status) = mf.status[mf.tab]
  <2>1. mf.status[mf.tab] \in StatusesOf(mf.tab) BY <1>2 DEF MFShape
  <2> QED BY <1>3, <1>4, <2>1, StatusesKnown DEF ReadStatus
<1> HIDE DEF again, search, status, tab
<1>10. again.tab = mf.tab /\ again.status[mf.tab] = mf.status[mf.tab]
       /\ Trim(again.search[mf.tab]) = Trim(mf.search[mf.tab])
  BY <1>4, <1>5, <1>6, <1>7, <1>8, <1>9
<1> QED BY <1>10 DEF again

-----------------------------------------------------------------------------
(* Failed smoke runs (FailureMetadata). *)

\* The filters of the failed runs.
MetadataFilter == [type : FailureTypes \union {"all"}, period : Periods, from : Days \union {NoDay}, to : Days \union {NoDay}]

(* The location and the component agree on what they select on. *)
SameSelection(url, f) ==
    /\ {"type", "period", "from", "to"} = DOMAIN url
    /\ {"type", "period", "from", "to"} = DOMAIN f
    /\ f.type \in FailureTypes \union {"all"} /\ f.period \in Periods
    /\ f.from \in Days \union {NoDay} /\ f.to \in Days \union {NoDay}
    /\ url.type = f.type /\ url.period = f.period
    /\ f.period = "custom" =>
         /\ f.from = IF url.from # BadDay THEN url.from ELSE NoDay
         /\ f.to = IF url.to # BadDay THEN url.to ELSE NoDay

\* The location agrees with the filters, and a clean-up took all that is selected.
FMInv ==
    fm # Unmounted =>
      /\ DOMAIN fm = {"filters", "url", "entries", "selected", "open", "sent"}
      /\ SameSelection(fm.url, fm.filters)
      /\ fm.sent # {} => fm.open /\ SelectedEntries \subseteq fm.sent

\* No day is one that cannot be parsed.
LEMMA DayFacts == NoDay \notin Days /\ BadDay \notin Days \union {NoDay} /\ 1 \in Days /\ Today \in Days
                  /\ Today - 1 \in Days \union {NoDay}
  BY MetadataAssumption DEF Days, NoDay, BadDay

\* A filter is its four fields.
LEMMA FilterRecord ==
  ASSUME NEW r, DOMAIN r = {"type", "period", "from", "to"}, r = [x \in DOMAIN r |-> r[x]],
         NEW q, DOMAIN q = {"type", "period", "from", "to"}, q = [x \in DOMAIN q |-> q[x]],
         r.type = q.type, r.period = q.period, r.from = q.from, r.to = q.to
  PROVE  r = q
<1>1. \A x \in DOMAIN r : r[x] = q[x] OBVIOUS
<1> QED BY <1>1

(* Parsed filters and views, field by field. *)
LEMMA ParsedFields ==
  ASSUME NEW url, {"type", "period", "from", "to"} = DOMAIN url
  PROVE  LET r == parseMetadataFilters(url)
         IN  /\ DOMAIN r = {"type", "period", "from", "to"} /\ r = [x \in DOMAIN r |-> r[x]]
             /\ r.type = url.type /\ r.period = url.period
             /\ r.from = IF url.period = "custom" /\ url.from # BadDay THEN url.from ELSE NoDay
             /\ r.to = IF url.period = "custom" /\ url.to # BadDay THEN url.to ELSE NoDay
  BY DEF parseMetadataFilters

\* The fields of a view.
LEMMA ViewFields ==
  ASSUME NEW f, {"type", "period", "from", "to"} = DOMAIN f
  PROVE  LET r == MetadataView(f)
         IN  /\ DOMAIN r = {"type", "period", "from", "to"} /\ r = [x \in DOMAIN r |-> r[x]]
             /\ r.type = f.type /\ r.period = f.period
             /\ r.from = IF f.period = "custom" THEN f.from ELSE NoDay
             /\ r.to = IF f.period = "custom" THEN f.to ELSE NoDay
  BY DEF MetadataView, ActiveFrom, ActiveTo

\* A selection that agrees with the location is restored by it.
LEMMA ViewRestored ==
  ASSUME NEW url, NEW f, SameSelection(url, f)
  PROVE  MetadataView(parseMetadataFilters(url)) = MetadataView(f)
<1> DEFINE p == parseMetadataFilters(url)  r == MetadataView(p)  q == MetadataView(f)
<1>1. {"type", "period", "from", "to"} = DOMAIN url /\ {"type", "period", "from", "to"} = DOMAIN f BY DEF SameSelection
<1>2. /\ DOMAIN p = {"type", "period", "from", "to"} /\ p.type = url.type /\ p.period = url.period
      /\ p.from = IF url.period = "custom" /\ url.from # BadDay THEN url.from ELSE NoDay
      /\ p.to = IF url.period = "custom" /\ url.to # BadDay THEN url.to ELSE NoDay
  BY <1>1, ParsedFields
<1> HIDE DEF p
<1>3. /\ DOMAIN r = {"type", "period", "from", "to"} /\ r = [x \in DOMAIN r |-> r[x]]
      /\ r.type = p.type /\ r.period = p.period
      /\ r.from = IF p.period = "custom" THEN p.from ELSE NoDay
      /\ r.to = IF p.period = "custom" THEN p.to ELSE NoDay
  BY <1>2, ViewFields
<1>4. /\ DOMAIN q = {"type", "period", "from", "to"} /\ q = [x \in DOMAIN q |-> q[x]]
      /\ q.type = f.type /\ q.period = f.period
      /\ q.from = IF f.period = "custom" THEN f.from ELSE NoDay
      /\ q.to = IF f.period = "custom" THEN f.to ELSE NoDay
  BY <1>1, ViewFields
<1> HIDE DEF r, q
<1>5. r.type = q.type /\ r.period = q.period /\ r.from = q.from /\ r.to = q.to
  BY <1>2, <1>3, <1>4 DEF SameSelection
<1>6. r = q BY <1>3, <1>4, <1>5, FilterRecord
<1> QED BY <1>6 DEF r, q, p

(* What the reading of a location gives agrees with it. *)
LEMMA ReadAgrees ==
  ASSUME NEW url, {"type", "period", "from", "to"} = DOMAIN url,
         url.type \in FailureTypes \union {"all"}, url.period \in Periods,
         url.period = "custom" =>
           url.from \in Days \union {NoDay, BadDay} /\ url.to \in Days \union {NoDay, BadDay}
  PROVE  SameSelection(url, parseMetadataFilters(url))
<1> DEFINE p == parseMetadataFilters(url)
<1>1. /\ DOMAIN p = {"type", "period", "from", "to"} /\ p.type = url.type /\ p.period = url.period
      /\ p.from = IF url.period = "custom" /\ url.from # BadDay THEN url.from ELSE NoDay
      /\ p.to = IF url.period = "custom" /\ url.to # BadDay THEN url.to ELSE NoDay
  BY ParsedFields
<1> HIDE DEF p
<1>2. p.from \in Days \union {NoDay} /\ p.to \in Days \union {NoDay} BY <1>1
<1>3. SameSelection(url, p) BY <1>1, <1>2 DEF SameSelection
<1> QED BY <1>3 DEF p

\* The page that opens agrees with its location.
LEMMA FMMountedInv == ASSUME FMMounted PROVE FMInv
<1>1. PICK url \in MetadataLinks, entries \in SUBSET Runs :
      fm = [filters |-> parseMetadataFilters(url), url |-> url, entries |-> entries,
            selected |-> {}, open |-> FALSE, sent |-> {}]
  BY DEF FMMounted
<1>2. {"type", "period", "from", "to"} = DOMAIN url /\ url.type \in {"all", "login"} /\ url.period \in Periods
      /\ url.from \in {NoDay, 1, BadDay} /\ url.to \in {NoDay}
  BY DEF MetadataLinks
<1>3. SameSelection(url, parseMetadataFilters(url)) BY <1>2, DayFacts, ReadAgrees DEF FailureTypes
<1> QED BY <1>1, <1>3 DEF FMInv

(* The steps of the filters: all that is left of the page stays. *)
LEMMA FMFilterStep ==
  ASSUME FMInv, fm # Unmounted, NEW f, NEW url, SameSelection(url, f),
         fm' = [fm EXCEPT !.filters = f, !.url = url]
  PROVE  FMInv'
<1>1. DOMAIN fm = {"filters", "url", "entries", "selected", "open", "sent"} BY DEF FMInv
<1>2. /\ DOMAIN fm' = DOMAIN fm /\ fm'.filters = f /\ fm'.url = url /\ fm'.entries = fm.entries
      /\ fm'.selected = fm.selected /\ fm'.open = fm.open /\ fm'.sent = fm.sent
  BY <1>1
<1> QED BY <1>2 DEF FMInv, SelectedEntries

(* The steps of the selection and the clean-up. *)
LEMMA FMOtherStep ==
  ASSUME FMInv, fm # Unmounted, DOMAIN fm' = DOMAIN fm, fm'.filters = fm.filters, fm'.url = fm.url,
         fm'.sent # {} => fm'.open /\ fm'.selected \intersect fm'.entries \subseteq fm'.sent
  PROVE  FMInv'
  BY DEF FMInv, SelectedEntries

\* Each action of the page keeps the invariant.
LEMMA FMStep == ASSUME FMInv, fm # Unmounted, FMNext PROVE FMInv'
<1>1. /\ DOMAIN fm = {"filters", "url", "entries", "selected", "open", "sent"}
      /\ SameSelection(fm.url, fm.filters)
      /\ fm.sent # {} => fm.open /\ fm.selected \intersect fm.entries \subseteq fm.sent
  BY DEF FMInv, SelectedEntries
<1>2. /\ {"type", "period", "from", "to"} = DOMAIN fm.url /\ {"type", "period", "from", "to"} = DOMAIN fm.filters
      /\ fm.filters.from \in Days \union {NoDay} /\ fm.filters.to \in Days \union {NoDay}
  BY <1>1 DEF SameSelection
<1>3. ASSUME NEW type \in FailureTypes \union {"all"}, ChangeTypeFilter(type) PROVE FMInv'
  <2> DEFINE f == [fm.filters EXCEPT !.type = type]  url == [fm.url EXCEPT !.type = type]
  <2>1. fm' = [fm EXCEPT !.filters = f, !.url = url] BY <1>3 DEF ChangeTypeFilter
  <2>2. /\ DOMAIN f = DOMAIN fm.filters /\ f.type = type /\ f.period = fm.filters.period
        /\ f.from = fm.filters.from /\ f.to = fm.filters.to
        /\ DOMAIN url = DOMAIN fm.url /\ url.type = type /\ url.period = fm.url.period
        /\ url.from = fm.url.from /\ url.to = fm.url.to
    BY <1>2
  <2> HIDE DEF f, url
  <2>3. SameSelection(url, f) BY <1>1, <2>2 DEF SameSelection
  <2> QED BY <2>1, <2>3, FMFilterStep
<1>4. ASSUME NEW period \in Periods, ChangePeriodFilter(period) PROVE FMInv'
  <2> DEFINE from == IF period = "custom" THEN fm.filters.from ELSE NoDay
             to == IF period = "custom" THEN fm.filters.to ELSE NoDay
             f == [fm.filters EXCEPT !.period = period]
             url == [fm.url EXCEPT !.period = period, !.from = from, !.to = to]
  <2>1. fm' = [fm EXCEPT !.filters = f, !.url = url]
    BY <1>4, <1>1, <1>2 DEF ChangePeriodFilter
  <2>2. /\ DOMAIN f = DOMAIN fm.filters /\ f.type = fm.filters.type /\ f.period = period
        /\ f.from = fm.filters.from /\ f.to = fm.filters.to
        /\ DOMAIN url = DOMAIN fm.url /\ url.type = fm.url.type /\ url.period = period
        /\ url.from = from /\ url.to = to
    BY <1>2
  <2> HIDE DEF f, url
  <2>3. fm.filters.from # BadDay /\ fm.filters.to # BadDay BY <1>2, DayFacts
  <2>4. SameSelection(url, f) BY <1>1, <1>2, <2>2, <2>3 DEF SameSelection
  <2> QED BY <2>1, <2>4, FMFilterStep
<1>5. ASSUME NEW day \in {NoDay, 1, Today}, ChangeStartDate(day) PROVE FMInv'
  <2> DEFINE f == [fm.filters EXCEPT !.from = day]  url == [fm.url EXCEPT !.from = day]
  <2>1. fm' = [fm EXCEPT !.filters = f, !.url = url] BY <1>5 DEF ChangeStartDate
  <2>2. /\ DOMAIN f = DOMAIN fm.filters /\ f.type = fm.filters.type /\ f.period = fm.filters.period
        /\ f.from = day /\ f.to = fm.filters.to
        /\ DOMAIN url = DOMAIN fm.url /\ url.type = fm.url.type /\ url.period = fm.url.period
        /\ url.from = day /\ url.to = fm.url.to
    BY <1>2
  <2> HIDE DEF f, url
  <2>3. day \in Days \union {NoDay} /\ day # BadDay BY DayFacts
  <2>4. SameSelection(url, f) BY <1>1, <2>2, <2>3 DEF SameSelection
  <2> QED BY <2>1, <2>4, FMFilterStep
<1>6. ASSUME NEW day \in {NoDay, 1, Today}, ChangeEndDate(day) PROVE FMInv'
  <2> DEFINE f == [fm.filters EXCEPT !.to = day]  url == [fm.url EXCEPT !.to = day]
  <2>1. fm' = [fm EXCEPT !.filters = f, !.url = url] BY <1>6 DEF ChangeEndDate
  <2>2. /\ DOMAIN f = DOMAIN fm.filters /\ f.type = fm.filters.type /\ f.period = fm.filters.period
        /\ f.to = day /\ f.from = fm.filters.from
        /\ DOMAIN url = DOMAIN fm.url /\ url.type = fm.url.type /\ url.period = fm.url.period
        /\ url.to = day /\ url.from = fm.url.from
    BY <1>2
  <2> HIDE DEF f, url
  <2>3. day \in Days \union {NoDay} /\ day # BadDay BY DayFacts
  <2>4. SameSelection(url, f) BY <1>1, <2>2, <2>3 DEF SameSelection
  <2> QED BY <2>1, <2>4, FMFilterStep
<1>7. ASSUME NEW range \in DatePresets, ChangeDateRange(range) PROVE FMInv'
  <2> DEFINE f == [fm.filters EXCEPT !.period = "custom", !.from = range[1], !.to = range[2]]
             url == [f EXCEPT !.type = fm.url.type]
  <2>1. fm' = [fm EXCEPT !.filters = f, !.url = url] BY <1>7 DEF ChangeDateRange
  <2>2. /\ DOMAIN f = DOMAIN fm.filters /\ f.type = fm.filters.type /\ f.period = "custom"
        /\ f.from = range[1] /\ f.to = range[2]
        /\ DOMAIN url = DOMAIN fm.url /\ url.type = fm.url.type /\ url.period = "custom"
        /\ url.from = range[1] /\ url.to = range[2]
    BY <1>2
  <2> HIDE DEF f, url
  <2>3. range[1] \in Days \union {NoDay} /\ range[2] \in Days \union {NoDay}
    BY DayFacts DEF DatePresets
  <2>4. range[1] # BadDay /\ range[2] # BadDay BY <2>3, DayFacts
  <2>5. SameSelection(url, f) BY <1>1, <2>2, <2>3, <2>4 DEF SameSelection, Periods
  <2> QED BY <2>1, <2>5, FMFilterStep
<1>8. ASSUME ApplyMetadataFilters(NoMetadataFilter) PROVE FMInv'
  <2> DEFINE v == MetadataView(NoMetadataFilter)
  <2>1. fm' = [fm EXCEPT !.filters = v, !.url = v] BY <1>8 DEF ApplyMetadataFilters
  <2>2. DOMAIN NoMetadataFilter = {"type", "period", "from", "to"} /\ NoMetadataFilter.type = "all"
        /\ NoMetadataFilter.period = "all"
    BY DEF NoMetadataFilter
  <2>3. DOMAIN v = {"type", "period", "from", "to"} /\ v.type = "all" /\ v.period = "all" /\ v.from = NoDay /\ v.to = NoDay
    BY <2>2, ViewFields
  <2> HIDE DEF v
  <2>4. SameSelection(v, v) BY <2>3 DEF SameSelection, Periods
  <2> QED BY <2>1, <2>4, FMFilterStep
<1>9. CASE ActiveFilterChips
  <2>1. ChangeTypeFilter("all") \/ ChangePeriodFilter("all") \/ ApplyMetadataFilters(NoMetadataFilter)
    BY <1>9 DEF ActiveFilterChips
  <2>2. "all" \in FailureTypes \union {"all"} /\ "all" \in Periods BY DEF Periods
  <2> QED BY <2>1, <2>2, <1>3, <1>4, <1>8
<1>10. ASSUME NEW selected, PageReachable, fm' = [fm EXCEPT !.selected = selected] PROVE FMInv'
  <2>1. fm.sent = {} BY <1>1, <1>10 DEF PageReachable
  <2>2. fm'.sent = fm.sent /\ fm'.filters = fm.filters /\ fm'.url = fm.url /\ DOMAIN fm' = DOMAIN fm BY <1>1, <1>10
  <2> QED BY <2>1, <2>2, FMOtherStep
<1>11. ASSUME NEW r \in Runs, ToggleRun(r) PROVE FMInv'
  BY <1>10, <1>11 DEF ToggleRun
<1>12. CASE UpdateSelection
  BY <1>10, <1>12 DEF UpdateSelection
<1>13. CASE OpenCleanupPreview
  <2>1. fm.sent = {} /\ fm' = [fm EXCEPT !.open = TRUE] BY <1>13 DEF OpenCleanupPreview
  <2>2. fm'.sent = fm.sent /\ fm'.filters = fm.filters /\ fm'.url = fm.url /\ DOMAIN fm' = DOMAIN fm BY <1>1, <2>1
  <2> QED BY <2>1, <2>2, FMOtherStep
<1>14. CASE CancelCleanup
  <2>1. fm.sent = {} /\ fm' = [fm EXCEPT !.open = FALSE] BY <1>14 DEF CancelCleanup
  <2>2. fm'.sent = fm.sent /\ fm'.filters = fm.filters /\ fm'.url = fm.url /\ DOMAIN fm' = DOMAIN fm BY <1>1, <2>1
  <2> QED BY <2>1, <2>2, FMOtherStep
<1>15. CASE HandleCleanup
  <2>1. fm.open /\ fm' = [fm EXCEPT !.sent = SelectedEntries] BY <1>15 DEF HandleCleanup
  <2>2. /\ fm'.sent = SelectedEntries /\ fm'.filters = fm.filters /\ fm'.url = fm.url /\ DOMAIN fm' = DOMAIN fm
        /\ fm'.open = fm.open /\ fm'.selected = fm.selected /\ fm'.entries = fm.entries
    BY <1>1, <2>1
  <2> QED BY <2>1, <2>2, FMOtherStep DEF SelectedEntries
<1>16. CASE CleanupDone \/ CleanupFailed
  <2>1. fm'.sent = {} /\ fm'.filters = fm.filters /\ fm'.url = fm.url /\ DOMAIN fm' = DOMAIN fm
    BY <1>1, <1>16 DEF CleanupDone, CleanupFailed
  <2> QED BY <2>1, FMOtherStep
<1>17. ASSUME NEW entries \in SUBSET Runs, EntriesRefetched(entries) PROVE FMInv'
  <2>1. fm' = [fm EXCEPT !.entries = entries] BY <1>17 DEF EntriesRefetched
  <2>2. /\ fm'.sent = fm.sent /\ fm'.filters = fm.filters /\ fm'.url = fm.url /\ DOMAIN fm' = DOMAIN fm
        /\ fm'.open = fm.open /\ fm'.selected = fm.selected /\ fm'.entries = entries
    BY <1>1, <2>1
  <2>3. fm.selected \intersect entries \subseteq fm.selected \intersect fm.entries
    <3>1. SUFFICES ASSUME NEW r \in entries, r \in fm.selected, r \notin fm.entries PROVE FALSE OBVIOUS
    <3>2. r > r BY <3>1, <1>17 DEF EntriesRefetched
    <3>3. r \in Nat BY <3>1, MetadataAssumption
    <3> QED BY <3>2, <3>3
  <2> QED BY <1>1, <2>2, <2>3, FMOtherStep
<1>18. CASE ReloadMetadata
  <2> DEFINE p == parseMetadataFilters(fm.url)
  <2>1. /\ DOMAIN fm' = DOMAIN fm /\ fm'.filters = p /\ fm'.url = fm.url /\ fm'.sent = {}
    BY <1>1, <1>18 DEF ReloadMetadata
  <2>2. /\ fm.url.type \in FailureTypes \union {"all"} /\ fm.url.period \in Periods
        /\ fm.url.period = "custom" =>
             fm.url.from \in Days \union {NoDay, BadDay} /\ fm.url.to \in Days \union {NoDay, BadDay}
    BY <1>1 DEF SameSelection
  <2>3. SameSelection(fm.url, p) BY <1>2, <2>2, ReadAgrees
  <2> HIDE DEF p
  <2> QED BY <1>1, <2>1, <2>3 DEF FMInv
<1> QED BY <1>3, <1>4, <1>5, <1>6, <1>7, <1>9, <1>11, <1>12, <1>13, <1>14, <1>15, <1>16, <1>17, <1>18 DEF FMNext

\* The link, the clean-up and the export follow.
LEMMA FMShown == ASSUME FMInv PROVE MetadataUrlRestores /\ CleanupTakesSelection /\ ExportDescribesItself
<1>1. MetadataUrlRestores BY ViewRestored DEF FMInv, MetadataUrlRestores
<1>2. CleanupTakesSelection BY DEF FMInv, CleanupTakesSelection
<1>3. ExportDescribesItself
  <2> SUFFICES ASSUME fm # Unmounted
               PROVE  /\ filterMetadata(fm.entries, parseMetadataFilters(ExportOf("filtered").filters)) = ExportOf("filtered").entries
                      /\ fm.sent # {} => ExportOf("selected").entries \subseteq fm.sent
    BY DEF ExportDescribesItself
  <2> DEFINE f == fm.filters  v == MetadataView(f)  p == parseMetadataFilters(v)
  <2>1. ExportOf("filtered").filters = v /\ ExportOf("filtered").entries = Visible /\ ExportOf("selected").entries = SelectedEntries
    BY DEF ExportOf
  <2>2. SameSelection(fm.url, f) BY DEF FMInv
  <2>3. {"type", "period", "from", "to"} = DOMAIN f /\ f.from \in Days \union {NoDay} /\ f.to \in Days \union {NoDay}
    BY <2>2 DEF SameSelection
  <2>4. /\ DOMAIN v = {"type", "period", "from", "to"} /\ v.type = f.type /\ v.period = f.period
        /\ v.from = IF f.period = "custom" THEN f.from ELSE NoDay
        /\ v.to = IF f.period = "custom" THEN f.to ELSE NoDay
    BY <2>3, ViewFields
  <2> HIDE DEF v
  <2>5. /\ p.type = v.type /\ p.period = v.period
        /\ p.from = IF v.period = "custom" /\ v.from # BadDay THEN v.from ELSE NoDay
        /\ p.to = IF v.period = "custom" /\ v.to # BadDay THEN v.to ELSE NoDay
    BY <2>4, ParsedFields
  <2> HIDE DEF p
  <2>6. p.type = f.type /\ p.period = f.period /\ ActiveFrom(p) = ActiveFrom(f) /\ ActiveTo(p) = ActiveTo(f)
    BY <2>3, <2>4, <2>5, DayFacts DEF ActiveFrom, ActiveTo
  <2>7. filterMetadata(fm.entries, p) = filterMetadata(fm.entries, f) BY <2>6 DEF filterMetadata
  <2>8. fm.sent # {} => SelectedEntries \subseteq fm.sent BY DEF FMInv
  <2> QED BY <2>1, <2>7, <2>8 DEF Visible, p
<1> QED BY <1>1, <1>2, <1>3

-----------------------------------------------------------------------------
(* The smoke run history and the stored runs (SmokeHistory). *)

\* A link may name a status that is unknown.
LinkStatuses == RunStatuses \union {"weird"}
\* The filters on screen.
HistoryFilters ==
    [search : {"", "run"}, status : RunStatuses, failureType : {"all", "login"},
     reason : {"all", "timeout"}, days : {7, 30}, page : Nat]
\* The locations of the history.
HistoryUrl ==
    [search : {"", "run"}, status : LinkStatuses, failureType : {"all", "login"},
     reason : {"all", "timeout"}, days : {7, 30, 90}, page : Nat]
\* The state of the history.
SHState ==
    [filters : HistoryFilters, typed : {"", "run"}, url : HistoryUrl,
     trend : {NoCategory, "login"}, trendUrl : {NoCategory, "login"},
     unclassified : SUBSET UnclassifiedRuns, classifying : SUBSET UnclassifiedRuns,
     locked : SUBSET UnclassifiedRuns]

(* What is shown is what the location reads as. *)
SHInv ==
    sh # Unmounted =>
      sh \in SHState /\ readHistoryFilters(sh.url) = sh.filters /\ sh.trendUrl = sh.trend

(* Sub-filters only under their status. *)
SubfilterShown(f) ==
    /\ f.failureType # "all" => f.status = "failure"
    /\ f.reason # "all" => f.status = "cancelled"

\* A history filter is its six fields.
LEMMA HistoryRecord ==
  ASSUME NEW r, r = [k \in {"search", "status", "failureType", "reason", "days", "page"} |-> r[k]]
  PROVE  r = [search |-> r.search, status |-> r.status, failureType |-> r.failureType,
              reason |-> r.reason, days |-> r.days, page |-> r.page]
  OBVIOUS

\* What makes a record a filter of the history.
LEMMA HistoryFiltersOf ==
  ASSUME NEW r,
         r = [search |-> r.search, status |-> r.status, failureType |-> r.failureType,
              reason |-> r.reason, days |-> r.days, page |-> r.page],
         r.search \in {"", "run"}, r.status \in RunStatuses, r.failureType \in {"all", "login"},
         r.reason \in {"all", "timeout"}, r.days \in {7, 30}, r.page \in Nat
  PROVE  r \in HistoryFilters
<1> DEFINE A == {"", "run"}  B == {"all", "login"}  C == {"all", "timeout"}  D == {7, 30}
<1>1. r.search \in A /\ r.failureType \in B /\ r.reason \in C /\ r.days \in D OBVIOUS
<1>2. HistoryFilters = [search : A, status : RunStatuses, failureType : B, reason : C, days : D, page : Nat] BY DEF HistoryFilters
<1> HIDE DEF A, B, C, D
<1>3. [search |-> r.search, status |-> r.status, failureType |-> r.failureType,
       reason |-> r.reason, days |-> r.days, page |-> r.page]
        \in [search : A, status : RunStatuses, failureType : B, reason : C, days : D, page : Nat]
  BY <1>1
<1> QED BY <1>2, <1>3

\* What makes a record a location of the history.
LEMMA HistoryUrlOf ==
  ASSUME NEW r,
         r = [search |-> r.search, status |-> r.status, failureType |-> r.failureType,
              reason |-> r.reason, days |-> r.days, page |-> r.page],
         r.search \in {"", "run"}, r.status \in LinkStatuses, r.failureType \in {"all", "login"},
         r.reason \in {"all", "timeout"}, r.days \in {7, 30, 90}, r.page \in Nat
  PROVE  r \in HistoryUrl
<1> DEFINE A == {"", "run"}  B == {"all", "login"}  C == {"all", "timeout"}  D == {7, 30, 90}
<1>1. r.search \in A /\ r.failureType \in B /\ r.reason \in C /\ r.days \in D OBVIOUS
<1>2. HistoryUrl = [search : A, status : LinkStatuses, failureType : B, reason : C, days : D, page : Nat] BY DEF HistoryUrl
<1> HIDE DEF A, B, C, D
<1>3. [search |-> r.search, status |-> r.status, failureType |-> r.failureType,
       reason |-> r.reason, days |-> r.days, page |-> r.page]
        \in [search : A, status : LinkStatuses, failureType : B, reason : C, days : D, page : Nat]
  BY <1>1
<1> QED BY <1>2, <1>3

LEMMA HistoryPageOf ==
  ASSUME NEW r, NEW page,
         r = [search |-> r.search, status |-> r.status, failureType |-> r.failureType,
              reason |-> r.reason, days |-> r.days, page |-> r.page]
  PROVE  [r EXCEPT !.page = page] =
           [search |-> r.search, status |-> r.status, failureType |-> r.failureType,
            reason |-> r.reason, days |-> r.days, page |-> page]
<1> DEFINE s == [search |-> r.search, status |-> r.status, failureType |-> r.failureType,
                 reason |-> r.reason, days |-> r.days, page |-> r.page]
<1>1. [s EXCEPT !.page = page] =
           [search |-> r.search, status |-> r.status, failureType |-> r.failureType,
            reason |-> r.reason, days |-> r.days, page |-> page]
  OBVIOUS
<1> QED BY <1>1

\* What reading a location gives.
LEMMA HistoryFields ==
  ASSUME NEW url \in HistoryUrl
  PROVE  readHistoryFilters(url) =
        [search |-> url.search,
         status |-> IF url.status \in RunStatuses THEN url.status ELSE "all",
         failureType |-> IF url.status = "failure" THEN url.failureType ELSE "all",
         reason |-> IF url.status = "cancelled" THEN url.reason ELSE "all",
         days |-> IF url.days = 7 THEN 7 ELSE 30,
         page |-> IF url.page > 0 THEN url.page ELSE 1]
<1> DEFINE r == readHistoryFilters(url)
<1>1. DOMAIN url = {"search", "status", "failureType", "reason", "days", "page"} BY DEF HistoryUrl
<1>2. /\ DOMAIN r = {"search", "status", "failureType", "reason", "days", "page"}
      /\ r = [k \in DOMAIN r |-> r[k]]
  BY <1>1 DEF readHistoryFilters
<1>3. r.search = url.search BY <1>1 DEF readHistoryFilters
<1>4. r.status = IF url.status \in RunStatuses THEN url.status ELSE "all" BY <1>1 DEF readHistoryFilters
<1>5. r.failureType = IF url.status = "failure" THEN url.failureType ELSE "all" BY <1>1 DEF readHistoryFilters
<1>6. r.reason = IF url.status = "cancelled" THEN url.reason ELSE "all" BY <1>1 DEF readHistoryFilters
<1>7. r.days = IF url.days = 7 THEN 7 ELSE 30 BY <1>1 DEF readHistoryFilters
<1>8. r.page = IF url.page > 0 THEN url.page ELSE 1 BY <1>1 DEF readHistoryFilters
<1> HIDE DEF r
<1>9. r = [search |-> r.search, status |-> r.status, failureType |-> r.failureType,
           reason |-> r.reason, days |-> r.days, page |-> r.page]
  BY <1>2, HistoryRecord
<1>10. r = [search |-> url.search,
         status |-> IF url.status \in RunStatuses THEN url.status ELSE "all",
         failureType |-> IF url.status = "failure" THEN url.failureType ELSE "all",
         reason |-> IF url.status = "cancelled" THEN url.reason ELSE "all",
         days |-> IF url.days = 7 THEN 7 ELSE 30,
         page |-> IF url.page > 0 THEN url.page ELSE 1]
  BY <1>3, <1>4, <1>5, <1>6, <1>7, <1>8, <1>9
<1> QED BY <1>10 DEF r

\* Reading a location gives filters whose sub-filters are shown.
LEMMA HistoryRead ==
  ASSUME NEW url \in HistoryUrl
  PROVE  readHistoryFilters(url) \in HistoryFilters /\ SubfilterShown(readHistoryFilters(url))
<1> DEFINE st == IF url.status \in RunStatuses THEN url.status ELSE "all"
           ft == IF url.status = "failure" THEN url.failureType ELSE "all"
           re == IF url.status = "cancelled" THEN url.reason ELSE "all"
           da == IF url.days = 7 THEN 7 ELSE 30
           pa == IF url.page > 0 THEN url.page ELSE 1
<1>1. url.page \in Nat /\ url.days \in {7, 30, 90} /\ url.status \in LinkStatuses
      /\ url.search \in {"", "run"} /\ url.failureType \in {"all", "login"} /\ url.reason \in {"all", "timeout"}
  BY DEF HistoryUrl
<1>2. st \in RunStatuses /\ ft \in {"all", "login"} /\ re \in {"all", "timeout"} /\ da \in {7, 30} /\ pa \in Nat
      /\ (ft # "all" => st = "failure") /\ (re # "all" => st = "cancelled")
  BY <1>1 DEF RunStatuses, LinkStatuses
<1>3. readHistoryFilters(url) = [search |-> url.search, status |-> st, failureType |-> ft, reason |-> re, days |-> da, page |-> pa]
  BY HistoryFields
<1> HIDE DEF st, ft, re, da, pa
<1> DEFINE r == readHistoryFilters(url)
<1>4. r.failureType = ft /\ r.reason = re /\ r.status = st BY <1>3
<1>5. r \in HistoryFilters
  <2>1. r.search = url.search /\ r.days = da /\ r.page = pa BY <1>3
  <2>2. r = [search |-> r.search, status |-> r.status, failureType |-> r.failureType,
             reason |-> r.reason, days |-> r.days, page |-> r.page]
    BY <1>3
  <2> HIDE DEF r
  <2> QED BY <1>1, <1>2, <1>4, <2>1, <2>2, HistoryFiltersOf
<1>6. SubfilterShown(r) BY <1>2, <1>4 DEF SubfilterShown
<1> QED BY <1>5, <1>6

(* A change writes the fields it names, the text and the first page, and   *)
(* the other fields of f are those of before.                              *)
LEMMA HistoryChanged ==
  ASSUME sh \in SHState, readHistoryFilters(sh.url) = sh.filters, sh.trendUrl = sh.trend,
         NEW names \in SUBSET {"status", "failureType", "reason", "days"}, NEW f \in HistoryFilters,
         SubfilterShown(f), "status" \in names => "failureType" \in names /\ "reason" \in names,
         \A k \in {"status", "failureType", "reason", "days"} \ names : f[k] = sh.filters[k],
         ChangeHistory(names, f)
  PROVE  /\ sh' \in SHState /\ readHistoryFilters(sh'.url) = sh'.filters /\ sh'.trendUrl = sh'.trend
         /\ sh'.filters.page = 1
<1> DEFINE next == [f EXCEPT !.search = sh.typed, !.page = 1]
           url == [k \in DOMAIN sh.url |-> IF k \in names \union {"search", "page"} THEN next[k] ELSE sh.url[k]]
<1>1. sh' = [sh EXCEPT !.filters = next, !.url = url] BY DEF ChangeHistory
<1>2. /\ sh.url \in HistoryUrl /\ sh.filters \in HistoryFilters /\ sh.typed \in {"", "run"}
      /\ DOMAIN sh.url = {"search", "status", "failureType", "reason", "days", "page"}
  BY DEF SHState, HistoryUrl
<1>3. /\ next \in HistoryFilters /\ SubfilterShown(next) /\ next.search = sh.typed /\ next.page = 1
      /\ \A k \in {"status", "failureType", "reason", "days"} : next[k] = f[k]
  BY <1>2 DEF HistoryFilters, SubfilterShown
<1> HIDE DEF next
<1>4. /\ DOMAIN url = {"search", "status", "failureType", "reason", "days", "page"}
      /\ url.search = next.search /\ url.page = next.page
      /\ url.status = IF "status" \in names THEN next.status ELSE sh.url.status
      /\ url.failureType = IF "failureType" \in names THEN next.failureType ELSE sh.url.failureType
      /\ url.reason = IF "reason" \in names THEN next.reason ELSE sh.url.reason
      /\ url.days = IF "days" \in names THEN next.days ELSE sh.url.days
  <2>1. DOMAIN url = {"search", "status", "failureType", "reason", "days", "page"} BY <1>2
  <2>2. url.search = next.search BY <1>2
  <2>3. url.page = next.page BY <1>2
  <2>4. url.status = IF "status" \in names THEN next.status ELSE sh.url.status BY <1>2
  <2>5. url.failureType = IF "failureType" \in names THEN next.failureType ELSE sh.url.failureType BY <1>2
  <2>6. url.reason = IF "reason" \in names THEN next.reason ELSE sh.url.reason BY <1>2
  <2>7. url.days = IF "days" \in names THEN next.days ELSE sh.url.days BY <1>2
  <2> HIDE DEF url
  <2> QED BY <2>1, <2>2, <2>3, <2>4, <2>5, <2>6, <2>7
<1> HIDE DEF url
<1>5. url = [search |-> url.search, status |-> url.status, failureType |-> url.failureType,
             reason |-> url.reason, days |-> url.days, page |-> url.page]
  <2>1. url = [k \in DOMAIN url |-> url[k]] BY DEF url
  <2> QED BY <2>1, <1>4, HistoryRecord
<1>6. url \in HistoryUrl
  <2>1. url.status \in LinkStatuses /\ url.failureType \in {"all", "login"}
        /\ url.reason \in {"all", "timeout"} /\ url.days \in {7, 30, 90} /\ url.search \in {"", "run"} /\ url.page \in Nat
    BY <1>2, <1>3, <1>4 DEF HistoryUrl, HistoryFilters, LinkStatuses
  <2> QED BY <1>5, <2>1, HistoryUrlOf
<1>7. sh' \in SHState /\ sh'.filters = next /\ sh'.url = url /\ sh'.trendUrl = sh'.trend
  BY <1>1, <1>3, <1>6 DEF SHState
<1>8. /\ sh.filters.status = IF sh.url.status \in RunStatuses THEN sh.url.status ELSE "all"
      /\ sh.filters.failureType = IF sh.url.status = "failure" THEN sh.url.failureType ELSE "all"
      /\ sh.filters.reason = IF sh.url.status = "cancelled" THEN sh.url.reason ELSE "all"
      /\ sh.filters.days = IF sh.url.days = 7 THEN 7 ELSE 30
  <2>1. sh.filters = readHistoryFilters(sh.url) /\ sh.url \in HistoryUrl BY <1>2
  <2>2. sh.filters =
        [search |-> sh.url.search,
         status |-> IF sh.url.status \in RunStatuses THEN sh.url.status ELSE "all",
         failureType |-> IF sh.url.status = "failure" THEN sh.url.failureType ELSE "all",
         reason |-> IF sh.url.status = "cancelled" THEN sh.url.reason ELSE "all",
         days |-> IF sh.url.days = 7 THEN 7 ELSE 30,
         page |-> IF sh.url.page > 0 THEN sh.url.page ELSE 1]
    BY <2>1, HistoryFields
  <2> QED BY <2>2
<1>9. readHistoryFilters(url) =
        [search |-> url.search,
         status |-> IF url.status \in RunStatuses THEN url.status ELSE "all",
         failureType |-> IF url.status = "failure" THEN url.failureType ELSE "all",
         reason |-> IF url.status = "cancelled" THEN url.reason ELSE "all",
         days |-> IF url.days = 7 THEN 7 ELSE 30,
         page |-> IF url.page > 0 THEN url.page ELSE 1]
  BY <1>6, HistoryFields
<1>10. next = [search |-> next.search, status |-> next.status, failureType |-> next.failureType,
               reason |-> next.reason, days |-> next.days, page |-> next.page]
  BY <1>3 DEF HistoryFilters
<1>11. /\ next.status = IF url.status \in RunStatuses THEN url.status ELSE "all"
       /\ next.days = IF url.days = 7 THEN 7 ELSE 30
       /\ next.page = IF url.page > 0 THEN url.page ELSE 1
  <2>1. next.status \in RunStatuses /\ next.days \in {7, 30} BY <1>3 DEF HistoryFilters
  <2>2. next.status = IF url.status \in RunStatuses THEN url.status ELSE "all"
    <3>1. CASE "status" \in names BY <3>1, <2>1, <1>4
    <3>2. CASE "status" \notin names
      <4>1. next.status = sh.filters.status /\ url.status = sh.url.status BY <3>2, <1>3, <1>4
      <4> QED BY <4>1, <1>8
    <3> QED BY <3>1, <3>2
  <2>3. next.days = IF url.days = 7 THEN 7 ELSE 30
    <3>1. CASE "days" \in names BY <3>1, <2>1, <1>4
    <3>2. CASE "days" \notin names
      <4>1. next.days = sh.filters.days /\ url.days = sh.url.days BY <3>2, <1>3, <1>4
      <4> QED BY <4>1, <1>8
    <3> QED BY <3>1, <3>2
  <2>4. next.page = IF url.page > 0 THEN url.page ELSE 1 BY <1>3, <1>4
  <2> QED BY <2>2, <2>3, <2>4
<1>12. (url.status = "failure") = (next.status = "failure") /\ (url.status = "cancelled") = (next.status = "cancelled")
  BY <1>11, <1>3 DEF RunStatuses, LinkStatuses, HistoryFilters
<1>13. next.failureType = IF url.status = "failure" THEN url.failureType ELSE "all"
  <2>1. CASE "failureType" \in names BY <2>1, <1>12, <1>4, <1>3 DEF SubfilterShown
  <2>2. CASE "failureType" \notin names
    <3>1. url.status = sh.url.status /\ url.failureType = sh.url.failureType /\ next.failureType = sh.filters.failureType
      BY <2>2, <1>4, <1>3
    <3> QED BY <3>1, <1>8
  <2> QED BY <2>1, <2>2
<1>14. next.reason = IF url.status = "cancelled" THEN url.reason ELSE "all"
  <2>1. CASE "reason" \in names BY <2>1, <1>12, <1>4, <1>3 DEF SubfilterShown
  <2>2. CASE "reason" \notin names
    <3>1. url.status = sh.url.status /\ url.reason = sh.url.reason /\ next.reason = sh.filters.reason
      BY <2>2, <1>4, <1>3
    <3> QED BY <3>1, <1>8
  <2> QED BY <2>1, <2>2
<1>15. readHistoryFilters(url) = next BY <1>9, <1>10, <1>11, <1>13, <1>14, <1>4
<1> QED BY <1>7, <1>15, <1>3

\* The history that opens reads its location.
LEMMA SHMountedInv == ASSUME SHMounted PROVE SHInv
<1>1. PICK url \in HistoryLinks, trend \in {NoCategory, "login"}, unclassified \in SUBSET UnclassifiedRuns :
        sh = [filters |-> readHistoryFilters(url), typed |-> readHistoryFilters(url).search,
              url |-> url, trend |-> trend, trendUrl |-> trend,
              unclassified |-> unclassified, classifying |-> {}, locked |-> {}]
  BY DEF SHMounted
<1>2. url \in HistoryUrl
  <2>1. /\ url.search \in {"", "run"} /\ url.status \in {"all", "failure", "cancelled", "weird"}
        /\ url.failureType \in {"all", "login"} /\ url.reason \in {"all", "timeout"}
        /\ url.days \in {30, 90} /\ url.page \in {0, 1, HistoryPages + 1}
    BY DEF HistoryLinks
  <2>2. url = [search |-> url.search, status |-> url.status, failureType |-> url.failureType,
               reason |-> url.reason, days |-> url.days, page |-> url.page]
    BY DEF HistoryLinks
  <2>3. url.status \in LinkStatuses BY <2>1 DEF RunStatuses, LinkStatuses
  <2>4. url.days \in {7, 30, 90} BY <2>1
  <2>5. 0 \in Nat /\ 1 \in Nat /\ HistoryPages + 1 \in Nat BY HistoryAssumption
  <2>6. url.page \in Nat BY <2>1, <2>5
  <2> QED BY <2>1, <2>2, <2>3, <2>4, <2>6, HistoryUrlOf
<1>3. readHistoryFilters(url) \in HistoryFilters BY <1>2, HistoryRead
<1>4. readHistoryFilters(url).search \in {"", "run"} BY <1>3 DEF HistoryFilters
<1> QED BY <1>1, <1>2, <1>3, <1>4 DEF SHInv, SHState

(* Each action keeps the invariant; what it lists anew starts at page one. *)
LEMMA SHStep ==
  ASSUME SHInv, sh # Unmounted, SHNext
  PROVE  /\ SHInv'
         /\ [sh'.filters EXCEPT !.page = 1] # [sh.filters EXCEPT !.page = 1] => sh'.filters.page = 1
<1> DEFINE Good == /\ sh' \in SHState /\ readHistoryFilters(sh'.url) = sh'.filters /\ sh'.trendUrl = sh'.trend
                   /\ [sh'.filters EXCEPT !.page = 1] # [sh.filters EXCEPT !.page = 1] => sh'.filters.page = 1
<1> SUFFICES Good BY DEF SHInv
<1>1. sh \in SHState /\ readHistoryFilters(sh.url) = sh.filters /\ sh.trendUrl = sh.trend BY DEF SHInv
<1>2. sh.filters \in HistoryFilters /\ sh.url \in HistoryUrl BY <1>1 DEF SHState
<1>3. SubfilterShown(sh.filters) BY <1>1, <1>2, HistoryRead
<1>4. ASSUME sh'.filters = sh.filters, sh'.url = sh.url, sh' \in SHState, sh'.trendUrl = sh'.trend PROVE Good
  BY <1>4, <1>1
<1>5. ASSUME NEW text \in {"", "run"}, TypeSearch(text) PROVE Good
  <2>1. sh' = [sh EXCEPT !.typed = text] BY <1>5 DEF TypeSearch
  <2> QED BY <2>1, <1>1, <1>4 DEF SHState
<1>6. CASE ApplySearch
  BY <1>6, <1>1, <1>2, <1>3, HistoryChanged DEF ApplySearch
<1>7. ASSUME NEW status \in RunStatuses, ChangeStatus(status) PROVE Good
  <2> DEFINE type == IF status = "failure" THEN sh.filters.failureType ELSE "all"
             f == [sh.filters EXCEPT !.status = status, !.failureType = type, !.reason = "all"]
  <2>1. ChangeHistory({"status", "reason", "failureType"}, f) BY <1>7 DEF ChangeStatus
  <2>2. f \in HistoryFilters /\ SubfilterShown(f) /\ f.days = sh.filters.days
    BY <1>2 DEF HistoryFilters, SubfilterShown
  <2> HIDE DEF f
  <2> QED BY <2>1, <2>2, <1>1, HistoryChanged
<1>8. ASSUME NEW type \in {"all", "login"}, ChangeFailureType(type) PROVE Good
  <2> DEFINE status == IF type = "all" THEN sh.filters.status ELSE "failure"
             reason == IF status = "cancelled" THEN sh.filters.reason ELSE "all"
             f == [sh.filters EXCEPT !.status = status, !.failureType = type, !.reason = reason]
  <2>1. ChangeHistory({"status", "reason", "failureType"}, f) BY <1>8 DEF ChangeFailureType
  <2>2. f \in HistoryFilters /\ SubfilterShown(f) /\ f.days = sh.filters.days
    BY <1>2, <1>3 DEF HistoryFilters, SubfilterShown, RunStatuses, LinkStatuses
  <2> HIDE DEF f
  <2> QED BY <2>1, <2>2, <1>1, HistoryChanged
<1>9. ASSUME NEW reason \in {"all", "timeout"}, ChangeCancellationReason(reason) PROVE Good
  <2> DEFINE f == [sh.filters EXCEPT !.reason = reason]
  <2>1. sh.filters.status = "cancelled" /\ ChangeHistory({"reason"}, f) BY <1>9 DEF ChangeCancellationReason
  <2>2. f \in HistoryFilters /\ SubfilterShown(f) /\ f.days = sh.filters.days /\ f.status = sh.filters.status
        /\ f.failureType = sh.filters.failureType
    BY <2>1, <1>2, <1>3 DEF HistoryFilters, SubfilterShown
  <2> HIDE DEF f
  <2> QED BY <2>1, <2>2, <1>1, HistoryChanged
<1>10. ASSUME NEW days \in {7, 30}, ChangeDays(days) PROVE Good
  <2> DEFINE f == [sh.filters EXCEPT !.days = days]
  <2>1. ChangeHistory({"days"}, f) BY <1>10 DEF ChangeDays
  <2>2. f \in HistoryFilters /\ SubfilterShown(f) /\ f.status = sh.filters.status
        /\ f.failureType = sh.filters.failureType /\ f.reason = sh.filters.reason
    BY <1>2, <1>3 DEF HistoryFilters, SubfilterShown
  <2> HIDE DEF f
  <2> QED BY <2>1, <2>2, <1>1, HistoryChanged
<1>11. ASSUME NEW page \in 1..HistoryPages, ChangePage(page) PROVE Good
  <2>1. sh' = [sh EXCEPT !.filters.page = page, !.url.page = page] BY <1>11 DEF ChangePage
  <2>2. page \in Nat /\ page > 0 BY HistoryAssumption
  <2>3. sh'.filters = [sh.filters EXCEPT !.page = page] /\ sh'.url = [sh.url EXCEPT !.page = page] BY <2>1, <1>1 DEF SHState
  <2>4. sh' \in SHState /\ sh'.trendUrl = sh'.trend BY <2>1, <2>2, <1>1 DEF SHState, HistoryFilters, HistoryUrl
  <2>5. readHistoryFilters([sh.url EXCEPT !.page = page]) = [readHistoryFilters(sh.url) EXCEPT !.page = page]
    <3>1. [sh.url EXCEPT !.page = page] \in HistoryUrl BY <1>2, <2>2 DEF HistoryUrl
    <3> DEFINE u == [sh.url EXCEPT !.page = page]  r == readHistoryFilters(sh.url)
    <3>2. /\ u.search = sh.url.search /\ u.status = sh.url.status /\ u.failureType = sh.url.failureType
          /\ u.reason = sh.url.reason /\ u.days = sh.url.days /\ u.page = page
      BY <1>2 DEF HistoryUrl
    <3>3. r = [search |-> r.search, status |-> r.status, failureType |-> r.failureType,
               reason |-> r.reason, days |-> r.days, page |-> r.page]
      BY <1>1, <1>2 DEF HistoryFilters
    <3>4. [r EXCEPT !.page = page] = [search |-> r.search, status |-> r.status, failureType |-> r.failureType,
                                      reason |-> r.reason, days |-> r.days, page |-> page]
      BY <3>3, HistoryPageOf
    <3>5. /\ r.search = sh.url.search
          /\ r.status = IF sh.url.status \in RunStatuses THEN sh.url.status ELSE "all"
          /\ r.failureType = IF sh.url.status = "failure" THEN sh.url.failureType ELSE "all"
          /\ r.reason = IF sh.url.status = "cancelled" THEN sh.url.reason ELSE "all"
          /\ r.days = IF sh.url.days = 7 THEN 7 ELSE 30
      BY <1>2, HistoryFields
    <3> HIDE DEF r, u
    <3>6. readHistoryFilters(u) = [search |-> r.search, status |-> r.status, failureType |-> r.failureType,
                                   reason |-> r.reason, days |-> r.days, page |-> page]
      BY <3>1, <3>2, <3>5, <2>2, HistoryFields DEF u
    <3> QED BY <3>4, <3>6 DEF r, u
  <2>6. [sh'.filters EXCEPT !.page = 1] = [sh.filters EXCEPT !.page = 1] BY <2>3, <1>2 DEF HistoryFilters
  <2> QED BY <2>3, <2>4, <2>5, <2>6, <1>1
<1>12. CASE ResetFilters
  <2>1. sh'.filters = DefaultHistory /\ sh'.url = DefaultHistory /\ sh'.typed = "" /\ sh' \in SHState /\ sh'.trendUrl = sh'.trend
    BY <1>12, <1>1 DEF ResetFilters, SHState, DefaultHistory, HistoryFilters, HistoryUrl, RunStatuses, LinkStatuses
  <2>2. readHistoryFilters(DefaultHistory) = DefaultHistory
    <3>1. DefaultHistory \in HistoryUrl BY DEF DefaultHistory, HistoryUrl, RunStatuses, LinkStatuses
    <3> QED BY <3>1, HistoryFields DEF DefaultHistory, RunStatuses, LinkStatuses
  <2>3. DefaultHistory.page = 1 BY DEF DefaultHistory
  <2>4. sh'.filters.page = 1 BY <2>1, <2>3
  <2> QED BY <2>1, <2>2, <2>4
<1>13. CASE ToggleTrend("login") \/ ClearTrend
  BY <1>13, <1>1, <1>4 DEF ToggleTrend, ClearTrend, SHState, NoCategory
<1>14. ASSUME NEW run \in UnclassifiedRuns, ClassifyRun(run) \/ RunClassified(run) PROVE Good
  <2>1. CASE ClassifyRun(run)
    <3>1. sh' = [sh EXCEPT !.classifying = @ \union {run}, !.locked = {run}] BY <2>1 DEF ClassifyRun
    <3>2. sh'.filters = sh.filters /\ sh'.url = sh.url /\ sh'.trend = sh.trend /\ sh'.trendUrl = sh.trendUrl /\ sh' \in SHState
      BY <3>1, <1>1 DEF SHState
    <3> QED BY <3>2, <1>4, <1>1
  <2>2. CASE RunClassified(run)
    <3>1. PICK ok \in BOOLEAN :
            sh' = [sh EXCEPT !.classifying = @ \ {run}, !.unclassified = IF ok THEN @ \ {run} ELSE @, !.locked = @ \ {run}]
      BY <2>2 DEF RunClassified
    <3>2. sh'.filters = sh.filters /\ sh'.url = sh.url /\ sh'.trend = sh.trend /\ sh'.trendUrl = sh.trendUrl /\ sh' \in SHState
      BY <3>1, <1>1 DEF SHState
    <3> QED BY <3>2, <1>4, <1>1
  <2> QED BY <1>14, <2>1, <2>2
<1>15. CASE ReloadHistory
  <2>1. /\ sh'.filters = sh.filters /\ sh'.url = sh.url /\ sh'.typed = sh.filters.search /\ sh'.trend = sh.trendUrl
        /\ sh'.trendUrl = sh.trendUrl /\ sh'.classifying = {} /\ sh'.locked = {} /\ sh'.unclassified = sh.unclassified
    BY <1>15, <1>1 DEF ReloadHistory, SHState
  <2>2. sh' \in SHState BY <1>15, <1>1, <1>2 DEF ReloadHistory, SHState, HistoryFilters
  <2> QED BY <2>1, <2>2, <1>4
<1> QED BY <1>5, <1>6, <1>7, <1>8, <1>9, <1>10, <1>11, <1>12, <1>13, <1>14, <1>15 DEF SHNext

LEMMA SHShown == ASSUME SHInv PROVE HistoryUrlRestores /\ NoHiddenSubfilter
<1>1. SUFFICES ASSUME sh # Unmounted PROVE readHistoryFilters(sh.url) = sh.filters /\ sh.trendUrl = sh.trend /\ SubfilterShown(sh.filters)
  BY DEF HistoryUrlRestores, NoHiddenSubfilter, SubfilterShown
<1>2. sh.url \in HistoryUrl BY <1>1 DEF SHInv, SHState
<1> QED BY <1>1, <1>2, HistoryRead DEF SHInv

-----------------------------------------------------------------------------
(* The runs that the manager stored. *)

\* The locations of the stored runs.
LocalUrl == [status : {"all", "success", "failure", "broken"}, admin : {"all", "admin", "viewer"}]
\* The filters of the stored runs are what their location parses to.
KSInv ==
    ks # Unmounted =>
      /\ ks.url \in LocalUrl /\ ks.filters = parseLocalFilters(ks.url)
      /\ {"url", "filters"} \subseteq DOMAIN ks

LEMMA KSMountedInv == ASSUME KSMounted PROVE KSInv
  BY DEF KSMounted, KSInv, LocalUrl

\* Each action of the statistics keeps that.
LEMMA KSStep == ASSUME KSInv, ks # Unmounted, KSNext PROVE KSInv'
<1>1. ks.url \in LocalUrl /\ ks.filters = parseLocalFilters(ks.url) /\ {"url", "filters"} \subseteq DOMAIN ks BY DEF KSInv
<1>2. ASSUME ks'.url = ks.url, ks'.filters = ks.filters, DOMAIN ks' = DOMAIN ks PROVE KSInv' BY <1>1, <1>2 DEF KSInv
<1>3. CASE SmokeRunCompletes \/ SmokeDayPasses \/ StatisticsFetched \/ RefreshClock
  <2>1. CASE SmokeRunCompletes
    <3>1. PICK new : ks' = [ks EXCEPT !.runs = new] BY <2>1 DEF SmokeRunCompletes
    <3> QED BY <3>1, <1>2
  <2>2. CASE SmokeDayPasses BY <2>2, <1>2 DEF SmokeDayPasses
  <2>3. CASE StatisticsFetched
    <3>1. PICK a, b, c, d, e : ks' = [ks EXCEPT !.list = a, !.local = b, !.statistics = c, !.fetchedOn = d, !.seen = e]
      BY <2>3 DEF StatisticsFetched
    <3> QED BY <3>1, <1>2
  <2>4. CASE RefreshClock BY <2>4, <1>2 DEF RefreshClock
  <2> QED BY <1>3, <2>1, <2>2, <2>3, <2>4
<1>4. ASSUME NEW status \in {"all", "failure"}, UpdateLocalFilter("status", status) PROVE KSInv'
  <2>1. /\ ks'.url = [ks.url EXCEPT !.status = status] /\ ks'.filters = [ks.filters EXCEPT !.status = status]
        /\ DOMAIN ks' = DOMAIN ks
    BY <1>4, <1>1 DEF UpdateLocalFilter
  <2> QED BY <2>1, <1>1 DEF KSInv, LocalUrl, parseLocalFilters
<1>5. ASSUME NEW admin \in {"all", "admin"}, UpdateLocalFilter("admin", admin) PROVE KSInv'
  <2>1. /\ ks'.url = [ks.url EXCEPT !.admin = admin] /\ ks'.filters = [ks.filters EXCEPT !.admin = admin]
        /\ DOMAIN ks' = DOMAIN ks
    BY <1>5, <1>1 DEF UpdateLocalFilter
  <2> QED BY <2>1, <1>1 DEF KSInv, LocalUrl, parseLocalFilters
<1> QED BY <1>3, <1>4, <1>5 DEF KSNext

LEMMA KSShown == ASSUME KSInv PROVE LocalLinkRestores
  BY DEF KSInv, LocalLinkRestores

-----------------------------------------------------------------------------
(* Scheduled maintenance (MaintenancePanel). *)

\* The fields of the maintenance panel.
MPFields == {"server", "cached", "clock", "updates", "showAll", "url", "history", "typed", "update"}

(* An update on its way; an extension ends after the click and after the   *)
(* end that was on screen.                                                 *)
UpdateSound(u) ==
    \/ u = NoUpdate
    \/ /\ DOMAIN u = {"phase", "id", "kind", "until", "base", "least"}
       /\ u.id \in ScheduleIds /\ u.until \in Ends
       /\ u.kind = "extend" => u.until > u.least /\ u.until > u.base

\* The link is the history on screen, and an update under way is sound.
MPInv ==
    mp # Unmounted =>
      /\ DOMAIN mp = MPFields /\ mp.url = mp.history
      /\ mp.clock \in Nat
      /\ mp.server \in [ScheduleIds -> Ends] /\ mp.cached \in [ScheduleIds -> Ends]
      /\ UpdateSound(mp.update)

\* Ends of maintenance compare.
LEMMA EndsAreNumbers == Ends \subseteq Nat /\ 1 \in Ends /\ NoEnd \in Ends /\ ActiveService \in Ends /\ MaxHours \in Ends
  BY MaintenanceAssumption DEF Ends, ActiveService, NoEnd

\* A panel that opens has no update under way.
LEMMA MPMountedInv == ASSUME MPMounted PROVE MPInv
<1>1. PICK ends \in [ScheduleIds -> {NoEnd, 1}], open \in ScheduleIds \union {NoHistory} :
      mp = [server |-> ends, cached |-> ends, clock |-> 0, updates |-> 0,
            showAll |-> FALSE, url |-> open, history |-> open,
            typed |-> [id \in ScheduleIds |-> [value |-> Untyped, of |-> ends[id]]],
            update |-> NoUpdate]
  BY DEF MPMounted
<1>2. /\ DOMAIN mp = MPFields /\ mp.url = open /\ mp.history = open /\ mp.clock = 0
      /\ mp.server = ends /\ mp.cached = ends /\ mp.update = NoUpdate
  BY <1>1 DEF MPFields
<1>3. ends \in [ScheduleIds -> Ends] BY EndsAreNumbers
<1> QED BY <1>2, <1>3 DEF MPInv, UpdateSound

\* Each action keeps the invariant, and an extension lengthens.
LEMMA MPStep ==
  ASSUME MPInv, mp # Unmounted, MPNext
  PROVE  /\ MPInv'
         /\ (mp.update.phase = "sent" /\ mp'.update.phase = "refetch" /\ mp.update.kind = "extend")
              => EndMovesOut
<1> DEFINE Longer == (mp.update.phase = "sent" /\ mp'.update.phase = "refetch" /\ mp.update.kind = "extend")
              => EndMovesOut
<1>1. /\ DOMAIN mp = MPFields /\ mp.url = mp.history
      /\ mp.clock \in Nat
      /\ mp.server \in [ScheduleIds -> Ends] /\ mp.cached \in [ScheduleIds -> Ends]
      /\ UpdateSound(mp.update)
  BY DEF MPInv
<1>2. NoUpdate.phase = "none" BY DEF NoUpdate
<1>3. ASSUME DOMAIN mp' = MPFields, mp'.url = mp'.history, mp'.clock \in Nat,
             mp'.server \in [ScheduleIds -> Ends], mp'.cached \in [ScheduleIds -> Ends],
             mp'.update = mp.update \/ mp'.update = NoUpdate
      PROVE  MPInv' /\ Longer
  <2>1. MPInv' BY <1>1, <1>3 DEF MPInv, UpdateSound
  <2>2. Longer BY <1>2, <1>3
  <2> QED BY <2>1, <2>2
<1>4. ASSUME NEW id, NEW kind, NEW until, StartUpdate(id, kind, until),
             kind = "extend" => until > mp.clock /\ until > mp.cached[id]
      PROVE  MPInv' /\ Longer
  <2>1. id \in ScheduleIds /\ until \in Ends BY <1>4 DEF StartUpdate, OnScreen, Entries
  <2> DEFINE u == [phase |-> "sent", id |-> id, kind |-> kind, until |-> until, base |-> mp.cached[id],
                   least |-> mp.clock]
             next == [mp EXCEPT !.updates = @ + 1, !.update = u]
  <2>2. mp' = [next EXCEPT !.typed = Editors(next)] BY <1>4 DEF StartUpdate
  <2>3. /\ DOMAIN next = MPFields /\ next.url = mp.url /\ next.history = mp.history /\ next.clock = mp.clock
        /\ next.server = mp.server /\ next.cached = mp.cached /\ next.update = u
    BY <1>1 DEF MPFields
  <2>4. u.phase = "sent" /\ UpdateSound(u)
    <3>1. DOMAIN u = {"phase", "id", "kind", "until", "base", "least"} OBVIOUS
    <3>2. u.phase = "sent" /\ u.id = id /\ u.until = until /\ u.kind = kind /\ u.base = mp.cached[id] /\ u.least = mp.clock OBVIOUS
    <3> HIDE DEF u
    <3> QED BY <1>4, <2>1, <3>1, <3>2 DEF UpdateSound
  <2> HIDE DEF u, next
  <2>5. /\ DOMAIN mp' = MPFields /\ mp'.url = mp.url /\ mp'.history = mp.history /\ mp'.clock = mp.clock
        /\ mp'.server = mp.server /\ mp'.cached = mp.cached /\ mp'.update = u
    BY <2>2, <2>3 DEF MPFields
  <2>6. MPInv' BY <1>1, <2>4, <2>5 DEF MPInv
  <2>7. Longer BY <2>4, <2>5
  <2> QED BY <2>6, <2>7
<1>5. CASE MaintenanceClockTicks
  <2>1. mp' = [mp EXCEPT !.clock = @ + 1] BY <1>5 DEF MaintenanceClockTicks
  <2>2. /\ DOMAIN mp' = MPFields /\ mp'.url = mp.url /\ mp'.history = mp.history /\ mp'.clock = mp.clock + 1
        /\ mp'.server = mp.server /\ mp'.cached = mp.cached /\ mp'.update = mp.update
    BY <1>1, <2>1 DEF MPFields
  <2> QED BY <1>1, <1>3, <2>2
<1>6. CASE handleScheduleToggle
  <2>1. CASE mp' = CloseList(mp)
    <3>1. mp' = [[mp EXCEPT !.showAll = FALSE, !.history = NoHistory] EXCEPT !.url = NoHistory]
      BY <2>1 DEF CloseList, replaceMaintenanceHistoryServiceId
    <3>2. /\ DOMAIN mp' = MPFields /\ mp'.url = NoHistory /\ mp'.history = NoHistory /\ mp'.clock = mp.clock
          /\ mp'.server = mp.server /\ mp'.cached = mp.cached /\ mp'.update = mp.update
      BY <1>1, <3>1 DEF MPFields
    <3> QED BY <1>1, <1>3, <3>2
  <2>2. CASE mp' = [mp EXCEPT !.showAll = TRUE]
    <3>1. /\ DOMAIN mp' = MPFields /\ mp'.url = mp.url /\ mp'.history = mp.history /\ mp'.clock = mp.clock
          /\ mp'.server = mp.server /\ mp'.cached = mp.cached /\ mp'.update = mp.update
      BY <1>1, <2>2 DEF MPFields
    <3> QED BY <1>1, <1>3, <3>1
  <2> QED BY <1>6, <2>1, <2>2 DEF handleScheduleToggle
<1>7. CASE ReloadPanel
  <2>1. PICK typed : mp' = [mp EXCEPT !.history = mp.url, !.showAll = FALSE, !.update = NoUpdate,
                     !.typed = typed, !.cached = mp.server]
    BY <1>7 DEF ReloadPanel
  <2>2. /\ DOMAIN mp' = MPFields /\ mp'.url = mp.url /\ mp'.history = mp.url /\ mp'.clock = mp.clock
        /\ mp'.server = mp.server /\ mp'.cached = mp.server /\ mp'.update = NoUpdate
    BY <1>1, <2>1 DEF MPFields
  <2> QED BY <1>1, <1>3, <2>2
<1>8. CASE UpdateApplied
  <2>1. mp.update.phase = "sent"
        /\ mp' = [mp EXCEPT !.server[mp.update.id] = mp.update.until, !.update.phase = "refetch"]
    BY <1>8 DEF UpdateApplied
  <2>2. mp.update # NoUpdate BY <1>2, <2>1
  <2>3. /\ DOMAIN mp.update = {"phase", "id", "kind", "until", "base", "least"}
        /\ mp.update.id \in ScheduleIds /\ mp.update.until \in Ends
        /\ mp.update.kind = "extend" => mp.update.until > mp.update.least /\ mp.update.until > mp.update.base
    BY <1>1, <2>2 DEF UpdateSound
  <2> DEFINE server == [mp.server EXCEPT ![mp.update.id] = mp.update.until]
             u == [mp.update EXCEPT !.phase = "refetch"]
  <2>4. /\ DOMAIN mp' = MPFields /\ mp'.url = mp.url /\ mp'.history = mp.history /\ mp'.clock = mp.clock
        /\ mp'.server = server /\ mp'.cached = mp.cached /\ mp'.update = u
    BY <1>1, <2>1 DEF MPFields
  <2>5. server \in [ScheduleIds -> Ends] /\ server[mp.update.id] = mp.update.until BY <1>1, <2>3
  <2>6. /\ DOMAIN u = {"phase", "id", "kind", "until", "base", "least"}
        /\ u.id = mp.update.id /\ u.until = mp.update.until /\ u.kind = mp.update.kind
        /\ u.base = mp.update.base /\ u.least = mp.update.least
    BY <2>3
  <2> HIDE DEF server, u
  <2>7. UpdateSound(u) BY <2>3, <2>6 DEF UpdateSound
  <2>8. MPInv' BY <1>1, <2>4, <2>5, <2>7 DEF MPInv
  <2>9. Longer BY <2>3, <2>4, <2>5 DEF EndMovesOut
  <2> QED BY <2>8, <2>9
<1>9. CASE UpdateEnds
  <2> DEFINE fresh == IF mp.update.phase = "refetch" THEN mp.server ELSE mp.cached
             next == [mp EXCEPT !.update = NoUpdate, !.cached = fresh]
  <2>1. mp' = [next EXCEPT !.typed = Editors(next)] BY <1>9 DEF UpdateEnds
  <2>2. fresh \in [ScheduleIds -> Ends] BY <1>1
  <2> HIDE DEF fresh
  <2>3. /\ DOMAIN next = MPFields /\ next.url = mp.url /\ next.history = mp.history /\ next.clock = mp.clock
        /\ next.server = mp.server /\ next.cached = fresh /\ next.update = NoUpdate
    BY <1>1 DEF MPFields
  <2> HIDE DEF next
  <2>4. /\ DOMAIN mp' = MPFields /\ mp'.url = mp.url /\ mp'.history = mp.history /\ mp'.clock = mp.clock
        /\ mp'.server = mp.server /\ mp'.cached = fresh /\ mp'.update = NoUpdate
    BY <2>1, <2>3 DEF MPFields
  <2> QED BY <1>1, <1>3, <2>2, <2>4
<1>10. CASE ScheduleRefetched
  <2> DEFINE next == [mp EXCEPT !.cached = mp.server]
  <2>1. mp' = [next EXCEPT !.typed = Editors(next)] BY <1>10 DEF ScheduleRefetched
  <2>3. /\ DOMAIN next = MPFields /\ next.url = mp.url /\ next.history = mp.history /\ next.clock = mp.clock
        /\ next.server = mp.server /\ next.cached = mp.server /\ next.update = mp.update
    BY <1>1 DEF MPFields
  <2> HIDE DEF next
  <2>4. /\ DOMAIN mp' = MPFields /\ mp'.url = mp.url /\ mp'.history = mp.history /\ mp'.clock = mp.clock
        /\ mp'.server = mp.server /\ mp'.cached = mp.server /\ mp'.update = mp.update
    BY <2>1, <2>3 DEF MPFields
  <2> QED BY <1>1, <1>3, <2>4
<1>11. ASSUME NEW id \in ScheduleIds, handleHistoryToggle(id) PROVE MPInv' /\ Longer
  <2> DEFINE next == IF mp.history = id THEN NoHistory ELSE id
  <2>1. mp' = [[mp EXCEPT !.history = next] EXCEPT !.url = next]
    BY <1>11 DEF handleHistoryToggle, replaceMaintenanceHistoryServiceId
  <2> HIDE DEF next
  <2>2. /\ DOMAIN mp' = MPFields /\ mp'.url = next /\ mp'.history = next /\ mp'.clock = mp.clock
        /\ mp'.server = mp.server /\ mp'.cached = mp.cached /\ mp'.update = mp.update
    BY <1>1, <2>1 DEF MPFields
  <2> QED BY <1>1, <1>3, <2>2
<1>12. ASSUME NEW id \in ScheduleIds, handleActivate(id) PROVE MPInv' /\ Longer
  BY <1>4, <1>12 DEF handleActivate
<1>13. ASSUME NEW id \in ScheduleIds, handleSetUntil(id) PROVE MPInv' /\ Longer
  BY <1>4, <1>13 DEF handleSetUntil
<1>14. ASSUME NEW id \in ScheduleIds, Expires(id) \/ (\E until \in {1, MaxHours} : OtherUpdates(id, until))
       PROVE  MPInv' /\ Longer
  <2>1. PICK until \in Ends : DOMAIN mp' = DOMAIN mp
          /\ mp'.url = mp.url /\ mp'.history = mp.history /\ mp'.clock = mp.clock
          /\ mp'.server = [mp.server EXCEPT ![id] = until] /\ mp'.cached = mp.cached /\ mp'.update = mp.update
    <3>1. CASE Expires(id)
      <4>1. mp' = [mp EXCEPT !.server[id] = ActiveService] BY <3>1 DEF Expires
      <4> QED BY <4>1, <1>1, EndsAreNumbers DEF MPFields
    <3>2. ASSUME NEW until \in {1, MaxHours}, OtherUpdates(id, until)
          PROVE  /\ until \in Ends /\ DOMAIN mp' = DOMAIN mp
                 /\ mp'.url = mp.url /\ mp'.history = mp.history /\ mp'.clock = mp.clock
                 /\ mp'.server = [mp.server EXCEPT ![id] = until] /\ mp'.cached = mp.cached /\ mp'.update = mp.update
      <4>1. mp' = [mp EXCEPT !.server[id] = until, !.updates = @ + 1] BY <3>2 DEF OtherUpdates
      <4> QED BY <4>1, <1>1, EndsAreNumbers DEF MPFields
    <3> QED BY <1>14, <3>1, <3>2
  <2>2. mp'.server \in [ScheduleIds -> Ends] BY <1>1, <2>1
  <2> QED BY <1>1, <1>3, <2>1, <2>2
<1>15. ASSUME NEW id \in ScheduleIds, NEW hours \in {1, 2}, handleExtend(id, hours) PROVE MPInv' /\ Longer
  <2> DEFINE until == extendMaintenanceUntil(mp.cached[id], hours)
  <2>1. mp.cached[id] \in Nat /\ mp.clock \in Nat BY <1>1, EndsAreNumbers
  <2>2. until > mp.clock /\ until > mp.cached[id] BY <2>1 DEF extendMaintenanceUntil, NoEnd
  <2>3. StartUpdate(id, "extend", until) BY <1>15 DEF handleExtend
  <2> HIDE DEF until
  <2> QED BY <1>4, <2>2, <2>3
<1>16. ASSUME NEW id \in ScheduleIds, TypeUntil(id, 2) PROVE MPInv' /\ Longer
  <2>1. mp' = [mp EXCEPT !.typed[id].value = 2] BY <1>16 DEF TypeUntil
  <2>2. /\ DOMAIN mp' = MPFields /\ mp'.url = mp.url /\ mp'.history = mp.history /\ mp'.clock = mp.clock
        /\ mp'.server = mp.server /\ mp'.cached = mp.cached /\ mp'.update = mp.update
    BY <1>1, <2>1 DEF MPFields
  <2> QED BY <1>1, <1>3, <2>2
<1>17. MPInv' /\ Longer
  BY <1>5, <1>6, <1>7, <1>8, <1>9, <1>10, <1>11, <1>12, <1>13, <1>14, <1>15, <1>16 DEF MPNext
<1> QED BY <1>17

LEMMA MPShown == ASSUME MPInv PROVE MaintenanceLinkRestores
  BY DEF MPInv, MaintenanceLinkRestores

-----------------------------------------------------------------------------
(* The audit log (AuditFilters). *)

AuditFields ==
    {"filter", "source", "status", "single", "period", "from", "to", "page", "bulk", "bulkPage", "expand"}

(* An address of the log: its range is not reversed, and what it decodes   *)
(* to has a source or a status under the manager filter only.              *)
SoundAddress(url) ==
    /\ DOMAIN url = AuditFields
    /\ url.from \in Nat /\ url.to \in Nat
    /\ url.from # NoDate /\ url.to # NoDate => url.from <= url.to
    /\ url.filter \notin {"manager_health"} \union LegacyFilters => url.source = "all" /\ url.status = "all"
    /\ url.filter \in AuditFilterKeys \union LegacyFilters

AUInv ==
    au # Unmounted => DOMAIN au = {"url", "expanded"} /\ SoundAddress(au.url)

\* What decoding an address gives.
LEMMA DecodedFields ==
  ASSUME NEW url, DOMAIN url = AuditFields
  PROVE  LET q == decodeAuditLogQuery(url)
         IN  /\ DOMAIN q = AuditFields
             /\ q.filter = CASE url.filter \in AuditFilterKeys -> url.filter
                             [] url.filter \in LegacyFilters -> "manager_health"
                             [] OTHER -> "all"
             /\ q.source = IF url.source = "all" /\ url.filter = "manager_docker" THEN "docker" ELSE url.source
             /\ q.status = IF url.status = "all" /\ url.filter = "manager_unhealthy" THEN "unhealthy" ELSE url.status
             /\ q.period = IF url.from # NoDate \/ url.to # NoDate THEN "all" ELSE url.period
             /\ q.single = url.single /\ q.from = url.from /\ q.to = url.to /\ q.page = url.page
             /\ q.bulk = url.bulk
  BY DEF decodeAuditLogQuery, AuditFields

\* The filters are kept apart.
LEMMA FiltersApart ==
  /\ "all" \in AuditFilterKeys /\ "manager_health" \in AuditFilterKeys /\ "delayed_retry" \in AuditFilterKeys
  /\ AuditFilterKeys \intersect LegacyFilters = {} /\ "all" \notin LegacyFilters
  /\ "manager_docker" \in LegacyFilters /\ "manager_unhealthy" \in LegacyFilters
  /\ \A x \in LegacyFilters : x = "manager_docker" \/ x = "manager_unhealthy"
  BY DEF AuditFilterKeys, LegacyFilters

\* The filter that an address of the log decodes to.
LEMMA DecodedFilter ==
  ASSUME NEW url, SoundAddress(url)
  PROVE  decodeAuditLogQuery(url).filter = IF url.filter \in LegacyFilters THEN "manager_health" ELSE url.filter
  BY DecodedFields, FiltersApart DEF SoundAddress

(* What follows from an address of the log. *)
LEMMA AddressGood ==
  ASSUME NEW url, SoundAddress(url)
  PROVE  LET q == decodeAuditLogQuery(url)
         IN  /\ QueryAccepted(buildAuditLogQuery(q))
             /\ q.filter # "manager_health" => q.source = "all" /\ q.status = "all"
<1> DEFINE q == decodeAuditLogQuery(url)  r == buildAuditLogQuery(q)
<1>1. /\ q.source = (IF url.source = "all" /\ url.filter = "manager_docker" THEN "docker" ELSE url.source)
      /\ q.status = (IF url.status = "all" /\ url.filter = "manager_unhealthy" THEN "unhealthy" ELSE url.status)
      /\ q.period = (IF url.from # NoDate \/ url.to # NoDate THEN "all" ELSE url.period)
      /\ q.from = url.from /\ q.to = url.to
  BY DecodedFields DEF SoundAddress
<1>2. q.filter = IF url.filter \in LegacyFilters THEN "manager_health" ELSE url.filter BY DecodedFilter
<1>3. r.period = q.period /\ r.from = q.from /\ r.to = q.to BY DEF buildAuditLogQuery
<1> HIDE DEF q, r
<1>4. QueryAccepted(r) BY <1>1, <1>3 DEF QueryAccepted, SoundAddress
<1>5. q.filter # "manager_health" => q.source = "all" /\ q.status = "all"
  BY <1>1, <1>2, FiltersApart DEF SoundAddress
<1> QED BY <1>4, <1>5 DEF q, r

\* Addresses that differ in the page, the bulk operations or the open row only ask for the same list.
LEMMA SameRequest ==
  ASSUME NEW a, NEW b, DOMAIN a = AuditFields, DOMAIN b = AuditFields,
         a.filter = b.filter, a.source = b.source, a.status = b.status, a.single = b.single,
         a.period = b.period, a.from = b.from, a.to = b.to
  PROVE  LET x == buildAuditLogQuery(decodeAuditLogQuery(a))
             y == buildAuditLogQuery(decodeAuditLogQuery(b))
         IN  /\ [x EXCEPT !.offset = 0] = [y EXCEPT !.offset = 0]
             /\ a.page = b.page => x = y
             /\ x.offset = a.page - 1
<1> DEFINE p == decodeAuditLogQuery(a)  q == decodeAuditLogQuery(b)
<1>1. /\ p.filter = q.filter /\ p.source = q.source /\ p.status = q.status /\ p.single = q.single
      /\ p.period = q.period /\ p.from = q.from /\ p.to = q.to /\ p.page = a.page /\ q.page = b.page
  BY DecodedFields
<1> HIDE DEF p, q
<1> DEFINE x == buildAuditLogQuery(p)  y == buildAuditLogQuery(q)
<1>2. /\ [x EXCEPT !.offset = 0] = [y EXCEPT !.offset = 0]
      /\ p.page = q.page => x = y
      /\ x.offset = p.page - 1
  BY <1>1 DEF buildAuditLogQuery
<1> QED BY <1>1, <1>2 DEF p, q

\* An address of the log asks for a page from its offset.
LEMMA OffsetOfPage ==
  ASSUME NEW a, DOMAIN a = AuditFields
  PROVE  buildAuditLogQuery(decodeAuditLogQuery(a)).offset = a.page - 1
<1>1. decodeAuditLogQuery(a).page = a.page BY DecodedFields
<1> QED BY <1>1 DEF buildAuditLogQuery

(* What a step promises: a sound address, and a new list from its top. *)
FromTop ==
    LET before == buildAuditLogQuery(decodeAuditLogQuery(au.url))
        after == buildAuditLogQuery(decodeAuditLogQuery(au'.url))
    IN  /\ [before EXCEPT !.offset = 0] # [after EXCEPT !.offset = 0] => after.offset = 0
        /\ before # after => au'.expanded = "none"
AUGood == AUInv' /\ FromTop

LEMMA AUMountedInv == ASSUME AUMounted PROVE AUInv
<1>1. PICK link \in AuditLinks : au = [url |-> link, expanded |-> "auto"] BY DEF AUMounted
<1>2. DOMAIN au = {"url", "expanded"} /\ au.url = link BY <1>1
<1>3. DOMAIN DefaultUrl = AuditFields BY DEF DefaultUrl, AuditFields
<1>4. SoundAddress(link)
  <2>0. /\ DOMAIN DefaultUrl = AuditFields /\ DefaultUrl.filter = "all" /\ DefaultUrl.source = "all"
        /\ DefaultUrl.status = "all" /\ DefaultUrl.from = 0 /\ DefaultUrl.to = 0
    BY DEF DefaultUrl, AuditFields, NoDate
  <2>1. SoundAddress(DefaultUrl)
    BY <2>0, FiltersApart DEF SoundAddress, AuditFields, NoDate
  <2>2. SoundAddress([DefaultUrl EXCEPT !.filter = "manager_health"])
    BY <2>0, FiltersApart DEF SoundAddress, AuditFields, NoDate
  <2>3. SoundAddress([DefaultUrl EXCEPT !.filter = "manager_health", !.source = "api", !.period = "90"])
    BY <2>0, FiltersApart DEF SoundAddress, AuditFields, NoDate
  <2>4. SoundAddress([DefaultUrl EXCEPT !.from = 1, !.to = 2])
    BY <2>0, FiltersApart DEF SoundAddress, AuditFields, NoDate
  <2>5. SoundAddress([DefaultUrl EXCEPT !.single = "set", !.expand = "latest"])
    BY <2>0, FiltersApart DEF SoundAddress, AuditFields, NoDate
  <2>6. SoundAddress([DefaultUrl EXCEPT !.bulk = "failure", !.bulkPage = LogPages + 1])
    BY <2>0, FiltersApart DEF SoundAddress, AuditFields, NoDate
  <2>7. SoundAddress([DefaultUrl EXCEPT !.filter = "manager_docker"])
    BY <2>0, FiltersApart DEF SoundAddress, AuditFields, NoDate
  <2>8. SoundAddress([DefaultUrl EXCEPT !.filter = "manager_unhealthy", !.page = LogPages + 1])
    BY <2>0, FiltersApart DEF SoundAddress, AuditFields, NoDate
  <2> QED BY <2>1, <2>2, <2>3, <2>4, <2>5, <2>6, <2>7, <2>8 DEF AuditLinks
<1> QED BY <1>2, <1>4 DEF AUInv

\* A handler that changes the query shows the first page and closes the rows.
LEMMA ChangedQuery ==
  ASSUME AUInv, au # Unmounted, NEW url, SoundAddress(url), ChangeAuditQuery(url) PROVE AUGood
<1> DEFINE next == [url EXCEPT !.page = 1]
<1>1. DOMAIN au = {"url", "expanded"} BY DEF AUInv
<1>2. au' = [au EXCEPT !.url = next, !.expanded = "none"] BY DEF ChangeAuditQuery
<1>3. SoundAddress(next) /\ next.page = 1 BY DEF SoundAddress, AuditFields
<1> HIDE DEF next
<1>4. DOMAIN au' = {"url", "expanded"} /\ au'.url = next /\ au'.expanded = "none" BY <1>1, <1>2
<1>5. AUInv' BY <1>3, <1>4 DEF AUInv
<1>6. DOMAIN next = AuditFields BY <1>3 DEF SoundAddress
<1>7. buildAuditLogQuery(decodeAuditLogQuery(au'.url)).offset = 0 BY <1>3, <1>4, <1>6, OffsetOfPage
<1>8. FromTop BY <1>4, <1>7 DEF FromTop
<1> QED BY <1>5, <1>8 DEF AUGood

\* Each handler, for the value that it is given.
LEMMA AuditHandlers ==
  ASSUME AUInv, au # Unmounted
  PROVE  /\ \A filter \in AuditFilterKeys : HandleFilterChange(filter) => AUGood
         /\ \A source : HandleManagerSourceChange(source) => AUGood
         /\ \A status : HandleManagerStatusChange(status) => AUGood
         /\ \A value : HandleSingleParameter(value) => AUGood
         /\ \A period : HandlePeriodChange(period) => AUGood
         /\ \A from \in Nat, to \in Nat : HandleDateRangeChange(from, to) => AUGood
         /\ \A status : HandleBulkChange(status) => AUGood
<1> DEFINE u == au.url  q == decodeAuditLogQuery(u)
<1>1. DOMAIN au = {"url", "expanded"} /\ SoundAddress(u) BY DEF AUInv
<1>2. DOMAIN u = AuditFields BY <1>1 DEF SoundAddress
<1>3. ASSUME NEW filter \in AuditFilterKeys, HandleFilterChange(filter) PROVE AUGood
  <2> DEFINE keep(k) == IF filter = "manager_health" THEN q[k] ELSE "all"
             url == [u EXCEPT !.filter = filter, !.source = keep("source"), !.status = keep("status")]
  <2>1. SoundAddress(url)
    <3>1. DOMAIN url = AuditFields /\ url.from = u.from /\ url.to = u.to /\ url.filter = filter
          /\ url.source = keep("source") /\ url.status = keep("status")
      BY <1>2 DEF AuditFields
    <3> HIDE DEF url
    <3> QED BY <3>1, <1>1 DEF SoundAddress
  <2>2. ChangeAuditQuery(url) BY <1>3 DEF HandleFilterChange
  <2> QED BY <2>1, <2>2, ChangedQuery
<1>4. ASSUME NEW source, HandleManagerSourceChange(source) PROVE AUGood
  <2> DEFINE url == [u EXCEPT !.filter = "manager_health", !.source = source]
  <2>1. SoundAddress(url) BY <1>1, FiltersApart DEF SoundAddress, AuditFields
  <2>2. ChangeAuditQuery(url) BY <1>4 DEF HandleManagerSourceChange
  <2> QED BY <2>1, <2>2, ChangedQuery
<1>5. ASSUME NEW status, HandleManagerStatusChange(status) PROVE AUGood
  <2> DEFINE url == [u EXCEPT !.filter = "manager_health", !.status = status]
  <2>1. SoundAddress(url) BY <1>1, FiltersApart DEF SoundAddress, AuditFields
  <2>2. ChangeAuditQuery(url) BY <1>5 DEF HandleManagerStatusChange
  <2> QED BY <2>1, <2>2, ChangedQuery
<1>6. ASSUME NEW value, HandleSingleParameter(value) PROVE AUGood
  <2> DEFINE url == [u EXCEPT !.single = value]
  <2>1. SoundAddress(url) BY <1>1 DEF SoundAddress, AuditFields
  <2>2. ChangeAuditQuery(url) BY <1>6 DEF HandleSingleParameter
  <2> QED BY <2>1, <2>2, ChangedQuery
<1>7. ASSUME NEW period, HandlePeriodChange(period) PROVE AUGood
  <2> DEFINE url == [u EXCEPT !.period = period, !.from = NoDate, !.to = NoDate]
  <2>1. SoundAddress(url) BY <1>1 DEF SoundAddress, AuditFields, NoDate
  <2>2. ChangeAuditQuery(url) BY <1>7 DEF HandlePeriodChange
  <2> QED BY <2>1, <2>2, ChangedQuery
<1>8. ASSUME NEW from \in Nat, NEW to \in Nat, HandleDateRangeChange(from, to) PROVE AUGood
  <2> DEFINE url == [u EXCEPT !.from = from, !.to = to, !.period = "all"]
  <2>1. from # NoDate /\ to # NoDate => from <= to BY <1>8 DEF HandleDateRangeChange
  <2>2. SoundAddress(url) BY <1>1, <2>1 DEF SoundAddress, AuditFields
  <2>3. ChangeAuditQuery(url) BY <1>8 DEF HandleDateRangeChange
  <2> QED BY <2>2, <2>3, ChangedQuery
<1>9. ASSUME NEW status, HandleBulkChange(status) PROVE AUGood
  <2> DEFINE url == [u EXCEPT !.bulk = status, !.bulkPage = 1]
  <2>1. /\ DOMAIN url = AuditFields /\ url.filter = u.filter /\ url.source = u.source /\ url.status = u.status
        /\ url.single = u.single /\ url.period = u.period /\ url.from = u.from /\ url.to = u.to /\ url.page = u.page
    BY <1>2 DEF AuditFields
  <2>2. au' = [au EXCEPT !.url = url] BY <1>9 DEF HandleBulkChange
  <2> HIDE DEF url
  <2>3. DOMAIN au' = {"url", "expanded"} /\ au'.url = url BY <1>1, <2>2
  <2>4. AUInv' BY <1>1, <2>1, <2>3 DEF AUInv, SoundAddress
  <2>5. buildAuditLogQuery(decodeAuditLogQuery(u)) = buildAuditLogQuery(decodeAuditLogQuery(url))
    BY <1>2, <2>1, SameRequest
  <2>6. FromTop BY <2>3, <2>5 DEF FromTop
  <2> QED BY <2>4, <2>6 DEF AUGood
<1> QED BY <1>3, <1>4, <1>5, <1>6, <1>7, <1>8, <1>9

(* Each action keeps the invariant; a new list starts at its top. *)
LEMMA AUStep == ASSUME AUInv, au # Unmounted, AUNext PROVE AUInv' /\ FromTop
<1> SUFFICES AUGood BY DEF AUGood
<1> DEFINE u == au.url
<1>1. DOMAIN au = {"url", "expanded"} /\ SoundAddress(u) BY DEF AUInv
<1>2. DOMAIN u = AuditFields BY <1>1 DEF SoundAddress
<1>a. NoDate \in Nat /\ "all" \in AuditFilterKeys BY FiltersApart DEF NoDate
<1>b. LogDays \union {NoDate} \subseteq Nat BY LogAssumption, <1>a
<1>3. ASSUME NEW filter \in AuditFilterKeys, HandleFilterChange(filter) PROVE AUGood BY <1>3, AuditHandlers
<1>4. ASSUME NEW source, HandleManagerSourceChange(source) PROVE AUGood BY <1>4, AuditHandlers
<1>5. ASSUME NEW status, HandleManagerStatusChange(status) PROVE AUGood BY <1>5, AuditHandlers
<1>6. ASSUME NEW value, HandleSingleParameter(value) PROVE AUGood BY <1>6, AuditHandlers
<1>7. ASSUME NEW period, HandlePeriodChange(period) PROVE AUGood BY <1>7, AuditHandlers
<1>8. ASSUME NEW from \in LogDays \union {NoDate}, NEW to \in LogDays \union {NoDate}, HandleDateRangeChange(from, to)
      PROVE AUGood
  BY <1>8, <1>b, AuditHandlers
<1>9. ASSUME NEW status, HandleBulkChange(status) PROVE AUGood BY <1>9, AuditHandlers
<1>10. ASSUME NEW page, HandleBulkPageChange(page) PROVE AUGood
  <2> DEFINE next == [u EXCEPT !.bulkPage = page]
  <2>1. /\ DOMAIN next = AuditFields /\ next.filter = u.filter /\ next.source = u.source /\ next.status = u.status
        /\ next.single = u.single /\ next.period = u.period /\ next.from = u.from /\ next.to = u.to /\ next.page = u.page
    BY <1>2 DEF AuditFields
  <2>2. au' = [au EXCEPT !.url = next] BY <1>10, <1>1 DEF HandleBulkPageChange
  <2> HIDE DEF next
  <2>3. DOMAIN au' = {"url", "expanded"} /\ au'.url = next BY <1>1, <2>2
  <2>4. AUInv' BY <1>1, <2>1, <2>3 DEF AUInv, SoundAddress
  <2>5. buildAuditLogQuery(decodeAuditLogQuery(u)) = buildAuditLogQuery(decodeAuditLogQuery(next))
    BY <1>2, <2>1, SameRequest
  <2>6. FromTop BY <2>3, <2>5 DEF FromTop
  <2> QED BY <2>4, <2>6 DEF AUGood
<1>11. ASSUME NEW page, HandlePageChange(page) PROVE AUGood
  <2> DEFINE next == [u EXCEPT !.page = page]
  <2>1. /\ DOMAIN next = AuditFields /\ next.filter = u.filter /\ next.source = u.source /\ next.status = u.status
        /\ next.single = u.single /\ next.period = u.period /\ next.from = u.from /\ next.to = u.to
    BY <1>2 DEF AuditFields
  <2>2. au' = [au EXCEPT !.url = next, !.expanded = "none"] BY <1>11, <1>1 DEF HandlePageChange
  <2> HIDE DEF next
  <2>3. DOMAIN au' = {"url", "expanded"} /\ au'.url = next /\ au'.expanded = "none" BY <1>1, <2>2
  <2>4. AUInv' BY <1>1, <2>1, <2>3 DEF AUInv, SoundAddress
  <2>5. [buildAuditLogQuery(decodeAuditLogQuery(u)) EXCEPT !.offset = 0]
        = [buildAuditLogQuery(decodeAuditLogQuery(next)) EXCEPT !.offset = 0]
    BY <1>2, <2>1, SameRequest
  <2>6. FromTop BY <2>3, <2>5 DEF FromTop
  <2> QED BY <2>4, <2>6 DEF AUGood
<1>12. ASSUME NEW next, SoundAddress(next), next.page = 1, au' = [au EXCEPT !.url = next, !.expanded = "none"] PROVE AUGood
  <2>1. DOMAIN au' = {"url", "expanded"} /\ au'.url = next /\ au'.expanded = "none" BY <1>1, <1>12
  <2>2. AUInv' BY <1>12, <2>1 DEF AUInv
  <2>3. buildAuditLogQuery(decodeAuditLogQuery(next)).offset = 0 BY <1>12, OffsetOfPage DEF SoundAddress
  <2>4. FromTop BY <2>1, <2>3 DEF FromTop
  <2> QED BY <2>2, <2>4 DEF AUGood
<1>13. CASE HandleResetFilters
  <2>1. SoundAddress(DefaultUrl) /\ DefaultUrl.page = 1 BY FiltersApart DEF DefaultUrl, SoundAddress, AuditFields, NoDate
  <2> QED BY <1>12, <1>13, <2>1 DEF HandleResetFilters
<1>14. CASE HandleDelayedRetryPeriod("7")
  <2> DEFINE next == [DefaultUrl EXCEPT !.filter = "delayed_retry", !.period = "7"]
  <2>1. SoundAddress(next) /\ next.page = 1 BY FiltersApart DEF DefaultUrl, SoundAddress, AuditFields, NoDate
  <2> QED BY <1>12, <1>14, <2>1 DEF HandleDelayedRetryPeriod
<1>15. CASE ToggleRow
  <2>1. DOMAIN au' = {"url", "expanded"} /\ au'.url = u BY <1>1, <1>15 DEF ToggleRow
  <2> QED BY <2>1, <1>1 DEF AUGood, AUInv, FromTop
<1>16. ASSUME NEW c \in {"filter", "source", "status", "single", "period", "dates", "bulk"}, RemoveCondition(c) PROVE AUGood
  BY <1>16, <1>a, AuditHandlers DEF RemoveCondition
<1> QED BY <1>3, <1>4, <1>5, <1>6, <1>7, <1>8, <1>9, <1>10, <1>11, <1>13, <1>14, <1>15, <1>16 DEF AUNext

(* What holds of every address. *)
LEMMA AUShown == ASSUME AUInv PROVE AuditQueryAccepted /\ ChipsAreApplied
  BY AddressGood DEF AUInv, AuditQueryAccepted, ChipsAreApplied

(* Removing a condition, from the chips before and after. *)
LEMMA AURemoves ==
  ASSUME AUInv, au # Unmounted, NEW c \in ActiveConditions(au.url), RemoveCondition(c)
  PROVE  ActiveConditions(au'.url) \subseteq ActiveConditions(au.url) \ {c}
<1> DEFINE u == au.url  v == au'.url  q == decodeAuditLogQuery(u)  r == decodeAuditLogQuery(v)
           K == {"filter", "source", "status", "single", "period", "bulk"}
<1>1. DOMAIN au = {"url", "expanded"} /\ SoundAddress(u) BY DEF AUInv
<1>2. DOMAIN u = AuditFields BY <1>1 DEF SoundAddress
<1>3. ActiveConditions(u) = {k \in K : q[k] # "all"} \union (IF q.from # NoDate \/ q.to # NoDate THEN {"dates"} ELSE {})
  BY DEF ActiveConditions
<1>4. ActiveConditions(v) = {k \in K : r[k] # "all"} \union (IF r.from # NoDate \/ r.to # NoDate THEN {"dates"} ELSE {})
  BY DEF ActiveConditions
<1>5. q.filter # "manager_health" => q.source = "all" /\ q.status = "all" BY <1>1, AddressGood
<1>6. /\ q.filter = (IF u.filter \in LegacyFilters THEN "manager_health" ELSE u.filter)
      /\ q.source = (IF u.source = "all" /\ u.filter = "manager_docker" THEN "docker" ELSE u.source)
      /\ q.status = (IF u.status = "all" /\ u.filter = "manager_unhealthy" THEN "unhealthy" ELSE u.status)
      /\ q.period = (IF u.from # NoDate \/ u.to # NoDate THEN "all" ELSE u.period)
      /\ q.single = u.single /\ q.from = u.from /\ q.to = u.to /\ q.bulk = u.bulk
  BY <1>1, <1>2, DecodedFields, DecodedFilter
<1>7. /\ DOMAIN v = AuditFields
      /\ v.filter \in AuditFilterKeys \union LegacyFilters
      /\ \/ c = "filter" /\ v.filter = "all" /\ v.source = "all" /\ v.status = "all"
            /\ v.single = u.single /\ v.period = u.period /\ v.from = u.from /\ v.to = u.to /\ v.bulk = u.bulk
         \/ c = "source" /\ v.filter = "manager_health" /\ v.source = "all" /\ v.status = u.status
            /\ v.single = u.single /\ v.period = u.period /\ v.from = u.from /\ v.to = u.to /\ v.bulk = u.bulk
         \/ c = "status" /\ v.filter = "manager_health" /\ v.source = u.source /\ v.status = "all"
            /\ v.single = u.single /\ v.period = u.period /\ v.from = u.from /\ v.to = u.to /\ v.bulk = u.bulk
         \/ c = "single" /\ v.filter = u.filter /\ v.source = u.source /\ v.status = u.status
            /\ v.single = "all" /\ v.period = u.period /\ v.from = u.from /\ v.to = u.to /\ v.bulk = u.bulk
         \/ c \in {"period", "dates"} /\ v.filter = u.filter /\ v.source = u.source /\ v.status = u.status
            /\ v.single = u.single /\ v.period = "all" /\ v.from = NoDate /\ v.to = NoDate /\ v.bulk = u.bulk
         \/ c = "bulk" /\ v.filter = u.filter /\ v.source = u.source /\ v.status = u.status
            /\ v.single = u.single /\ v.period = u.period /\ v.from = u.from /\ v.to = u.to /\ v.bulk = "all"
  <2>0. u.filter \in AuditFilterKeys \union LegacyFilters /\ "all" \in AuditFilterKeys /\ "manager_health" \in AuditFilterKeys
    BY <1>1, FiltersApart DEF SoundAddress
  <2>1. ASSUME NEW next, DOMAIN next = AuditFields, ChangeAuditQuery(next)
        PROVE  /\ DOMAIN v = AuditFields
               /\ \A k \in AuditFields \ {"page"} : v[k] = next[k]
    <3>1. v = [next EXCEPT !.page = 1] BY <1>1, <2>1 DEF ChangeAuditQuery
    <3> HIDE DEF v
    <3> QED BY <3>1, <2>1
  <2> DEFINE Others == {"single", "period", "from", "to", "bulk"}
  <2>2. {"filter", "source", "status", "single", "period", "from", "to", "bulk"} \subseteq AuditFields \ {"page"} BY DEF AuditFields
  <2>3. CASE c = "filter"
    <3> DEFINE next == [u EXCEPT !.filter = "all", !.source = "all", !.status = "all"]
    <3>1. ChangeAuditQuery(next) BY <2>3 DEF RemoveCondition, HandleFilterChange
    <3>2. DOMAIN next = AuditFields /\ next.filter = "all" /\ next.source = "all" /\ next.status = "all"
          /\ \A k \in Others : next[k] = u[k]
      BY <1>2 DEF AuditFields
    <3> HIDE DEF next
    <3> QED BY <3>1, <3>2, <2>0, <2>1, <2>2, <2>3
  <2>4. CASE c = "source"
    <3> DEFINE next == [u EXCEPT !.filter = "manager_health", !.source = "all"]
    <3>1. ChangeAuditQuery(next) BY <2>4 DEF RemoveCondition, HandleManagerSourceChange
    <3>2. DOMAIN next = AuditFields /\ next.filter = "manager_health" /\ next.source = "all" /\ next.status = u.status
          /\ \A k \in Others : next[k] = u[k]
      BY <1>2 DEF AuditFields
    <3> HIDE DEF next
    <3> QED BY <3>1, <3>2, <2>0, <2>1, <2>2, <2>4
  <2>5. CASE c = "status"
    <3> DEFINE next == [u EXCEPT !.filter = "manager_health", !.status = "all"]
    <3>1. ChangeAuditQuery(next) BY <2>5 DEF RemoveCondition, HandleManagerStatusChange
    <3>2. DOMAIN next = AuditFields /\ next.filter = "manager_health" /\ next.source = u.source /\ next.status = "all"
          /\ \A k \in Others : next[k] = u[k]
      BY <1>2 DEF AuditFields
    <3> HIDE DEF next
    <3> QED BY <3>1, <3>2, <2>0, <2>1, <2>2, <2>5
  <2>6. CASE c = "single"
    <3> DEFINE next == [u EXCEPT !.single = "all"]
    <3>1. ChangeAuditQuery(next) BY <2>6 DEF RemoveCondition, HandleSingleParameter
    <3>2. DOMAIN next = AuditFields /\ next.single = "all"
          /\ \A k \in AuditFields \ {"single"} : next[k] = u[k]
      BY <1>2 DEF AuditFields
    <3> HIDE DEF next
    <3> QED BY <3>1, <3>2, <2>0, <2>1, <2>2, <2>6
  <2>7. CASE c \in {"period", "dates"}
    <3> DEFINE next == [u EXCEPT !.period = "all", !.from = NoDate, !.to = NoDate]
               dated == [u EXCEPT !.from = NoDate, !.to = NoDate, !.period = "all"]
    <3>1. next = dated BY <1>2
    <3>2. ChangeAuditQuery(next) BY <2>7, <3>1 DEF RemoveCondition, HandlePeriodChange, HandleDateRangeChange
    <3>3. DOMAIN next = AuditFields /\ next.period = "all" /\ next.from = NoDate /\ next.to = NoDate
          /\ \A k \in AuditFields \ {"period", "from", "to"} : next[k] = u[k]
      BY <1>2 DEF AuditFields
    <3> HIDE DEF next, dated
    <3> QED BY <3>2, <3>3, <2>0, <2>1, <2>2, <2>7
  <2>8. CASE c = "bulk"
    <3>1. v = [u EXCEPT !.bulk = "all", !.bulkPage = 1] BY <2>8, <1>1 DEF RemoveCondition, HandleBulkChange
    <3> HIDE DEF v
    <3>2. DOMAIN v = AuditFields /\ v.bulk = "all" /\ \A k \in AuditFields \ {"bulk", "bulkPage"} : v[k] = u[k]
      BY <3>1, <1>2 DEF AuditFields
    <3> QED BY <3>2, <2>0, <2>2, <2>8
  <2>9. c \in K \union {"dates"} BY <1>3
  <2> QED BY <2>3, <2>4, <2>5, <2>6, <2>7, <2>8, <2>9
<1>8. /\ r.filter = (IF v.filter \in LegacyFilters THEN "manager_health" ELSE v.filter)
      /\ r.source = (IF v.source = "all" /\ v.filter = "manager_docker" THEN "docker" ELSE v.source)
      /\ r.status = (IF v.status = "all" /\ v.filter = "manager_unhealthy" THEN "unhealthy" ELSE v.status)
      /\ r.period = (IF v.from # NoDate \/ v.to # NoDate THEN "all" ELSE v.period)
      /\ r.single = v.single /\ r.from = v.from /\ r.to = v.to /\ r.bulk = v.bulk
  BY <1>7, DecodedFields, FiltersApart
<1> HIDE DEF q, r, u, v
<1>a. c = "source" => q.source # "all" BY <1>3 DEF u
<1>b. c = "status" => q.status # "all" BY <1>3 DEF u
<1>9. /\ r.filter # "all" => q.filter # "all" /\ c # "filter"
      /\ r.source # "all" => q.source # "all" /\ c # "source"
      /\ r.status # "all" => q.status # "all" /\ c # "status"
  <2> HIDE DEF K
  <2>1. r.filter # "all" => q.filter # "all" /\ c # "filter"
    <3>1. CASE c = "filter" BY <3>1, <1>7, <1>8, FiltersApart
    <3>2. CASE c = "source" BY <3>2, <1>a, <1>5, <1>7
    <3>3. CASE c = "status" BY <3>3, <1>b, <1>5, <1>7
    <3> QED BY <3>1, <3>2, <3>3, <1>6, <1>7, <1>8
  <2>2. r.source # "all" => q.source # "all" /\ c # "source" BY <1>6, <1>7, <1>8, FiltersApart
  <2>3. r.status # "all" => q.status # "all" /\ c # "status" BY <1>6, <1>7, <1>8, FiltersApart
  <2> QED BY <2>1, <2>2, <2>3
<1>10. /\ r.single # "all" => q.single # "all" /\ c # "single"
       /\ r.bulk # "all" => q.bulk # "all" /\ c # "bulk"
  BY <1>6, <1>7, <1>8
<1>11. /\ r.period # "all" => q.period # "all" /\ c # "period"
       /\ r.from # NoDate \/ r.to # NoDate => (q.from # NoDate \/ q.to # NoDate) /\ c # "dates"
  BY <1>6, <1>7, <1>8
<1> HIDE DEF K
<1>12. ASSUME NEW k \in ActiveConditions(v) PROVE k \in ActiveConditions(u) \ {c}
  <2>1. k \in K \union {"dates"} BY <1>4
  <2>2. CASE k = "dates" BY <2>2, <1>3, <1>4, <1>11 DEF K
  <2>3. CASE k \in K
    <3>1. r[k] # "all" BY <2>3, <1>4 DEF K
    <3>2. q[k] # "all" /\ c # k BY <3>1, <2>3, <1>9, <1>10, <1>11 DEF K
    <3> QED BY <3>2, <2>3, <1>3
  <2> QED BY <2>1, <2>2, <2>3
<1> QED BY <1>12 DEF u, v

-----------------------------------------------------------------------------
(* Links to smoke artifacts (ArtifactLinks). *)

ArtifactFields == {"runs", "clock", "filter", "url", "stored", "copy", "writing", "share"}

\* The query string is that of the filter, and so is the link that is offered.
ALInv ==
    al # Unmounted =>
      /\ DOMAIN al = ArtifactFields
      /\ al.filter \in ArtifactFilters /\ al.stored \in ArtifactFilters
      /\ al.url = UrlOf(al.filter) /\ al.share \in {"nothing", UrlOf(al.filter)}

\* A list that opens shows a filter it knows.
LEMMA FirstFilter ==
  /\ "none" \notin ArtifactFilters /\ "all" \in ArtifactFilters
  /\ \A url, stored : InitialFilter(url, stored) \in ArtifactFilters
  BY DEF ArtifactFilters, InitialFilter

LEMMA ALMountedInv == ASSUME ALMounted PROVE ALInv
<1>1. PICK url \in {"none", "old", "expired"}, stored \in {"none", "available"} :
        LET filter == InitialFilter(url, stored)
        IN  al = [runs |-> <<>>, clock |-> 1, filter |-> filter, url |-> UrlOf(filter), stored |-> filter,
                  copy |-> "idle", writing |-> FALSE, share |-> "nothing"]
  BY DEF ALMounted
<1> DEFINE filter == InitialFilter(url, stored)
<1>2. filter \in ArtifactFilters BY FirstFilter
<1>3. /\ DOMAIN al = ArtifactFields /\ al.filter = filter /\ al.stored = filter /\ al.url = UrlOf(filter)
      /\ al.share = "nothing"
  BY <1>1 DEF ArtifactFields
<1> QED BY <1>2, <1>3 DEF ALInv

(* Each action keeps the invariant; a reload keeps the filter. *)
LEMMA ALStep ==
  ASSUME ALInv, al # Unmounted, ALNext
  PROVE  /\ ALInv'
         /\ ReloadPage => al'.filter = IF al.filter = "all" THEN al.stored ELSE al.filter
<1>1. /\ DOMAIN al = ArtifactFields
      /\ al.filter \in ArtifactFilters /\ al.stored \in ArtifactFilters
      /\ al.url = UrlOf(al.filter) /\ al.share \in {"nothing", UrlOf(al.filter)}
  BY DEF ALInv
<1>2. ASSUME ReloadPage PROVE ALInv' /\ al'.filter = IF al.filter = "all" THEN al.stored ELSE al.filter
  <2> DEFINE filter == InitialFilter(al.url, al.stored)
  <2>1. filter \in ArtifactFilters BY FirstFilter
  <2>2. /\ DOMAIN al' = ArtifactFields /\ al'.filter = filter /\ al'.stored = filter /\ al'.url = UrlOf(filter)
        /\ al'.share = "nothing"
    BY <1>1, <1>2 DEF ReloadPage, ArtifactFields
  <2>3. filter = IF al.filter = "all" THEN al.stored ELSE al.filter
    BY <1>1, FirstFilter DEF InitialFilter, UrlOf
  <2> QED BY <2>1, <2>2, <2>3 DEF ALInv
<1>3. ALInv'
  <2>1. ASSUME DOMAIN al' = ArtifactFields, al'.filter = al.filter, al'.url = al.url,
               al'.stored \in ArtifactFilters, al'.share = al.share \/ al'.share = al.url
        PROVE  ALInv'
    BY <1>1, <2>1 DEF ALInv
  <2>2. ASSUME NEW filter \in ArtifactFilters, ChangeFilter(filter) PROVE ALInv'
    <3>1. /\ DOMAIN al' = ArtifactFields /\ al'.filter = filter /\ al'.stored = filter /\ al'.url = UrlOf(filter)
          /\ al'.share = "nothing"
      BY <1>1, <2>2 DEF ChangeFilter, ArtifactFields
    <3> QED BY <3>1 DEF ALInv
  <2>3. ASSUME NEW filter \in ArtifactFilters, OtherTabStores(filter) PROVE ALInv'
    BY <1>1, <2>1, <2>3 DEF OtherTabStores, ArtifactFields
  <2>4. CASE copyFilterLink BY <1>1, <2>1, <2>4 DEF copyFilterLink, ArtifactFields
  <2>5. CASE ClipboardAnswers
    <3>1. PICK copy : al' = [al EXCEPT !.copy = copy, !.writing = FALSE] BY <2>5 DEF ClipboardAnswers
    <3> QED BY <3>1, <1>1, <2>1 DEF ArtifactFields
  <2>6. CASE CopiedTimeout BY <1>1, <2>1, <2>6 DEF CopiedTimeout, ArtifactFields
  <2>7. CASE ReloadPage BY <2>7, <1>2
  <2>8. CASE RunFails
    <3>1. PICK runs : al' = [al EXCEPT !.runs = runs] BY <2>8 DEF RunFails
    <3> QED BY <3>1, <1>1, <2>1 DEF ArtifactFields
  <2>9. CASE ClockTicks BY <1>1, <2>1, <2>9 DEF ClockTicks, ArtifactFields
  <2> QED BY <2>2, <2>3, <2>4, <2>5, <2>6, <2>7, <2>8, <2>9 DEF ALNext
<1> QED BY <1>2, <1>3

-----------------------------------------------------------------------------
(* Saved filters (FailureMetadata). *)

\* A finite set of numbers that is not empty has a largest element.
LEMMA LargestNumber ==
  ASSUME NEW S \in SUBSET Nat, IsFiniteSet(S), S # {}
  PROVE  \E r \in S : \A t \in S : t <= r
<1> DEFINE Above(r) == {t \in S : t > r}
           T == {Above(r) : r \in S}
<1>1. IsWellFoundedOn(StrictSubsetOrdering(S), SUBSET S)
  BY FS_StrictSubsetOrderingWellFounded, FS_FiniteSubsetsOfFinite
<1>2. T \subseteq SUBSET S /\ T # {} OBVIOUS
<1> HIDE DEF T
<1>3. PICK x \in T : \A y \in T : ~(<<y, x>> \in StrictSubsetOrdering(S))
  BY <1>1, <1>2, WFMin
<1>4. PICK r \in S : x = Above(r) BY DEF T
<1>5. SUFFICES ASSUME NEW t \in S, ~(t <= r) PROVE FALSE BY <1>4
<1> DEFINE U == Above(t)  V == Above(r)
<1>6. t \in Nat /\ r \in Nat /\ t > r /\ ~(t > t) BY <1>5
<1>7. \A u \in S : u > t => u > r BY <1>6
<1>8. U \subseteq V /\ t \in V /\ t \notin U /\ U \in SUBSET S /\ V \in SUBSET S BY <1>6, <1>7
<1>9. U \in T /\ V = x BY <1>4 DEF T
<1> HIDE DEF U, V
<1>10. <<U, V>> \in StrictSubsetOrdering(S) BY <1>8 DEF StrictSubsetOrdering
<1> QED BY <1>3, <1>9, <1>10

Ascends(order) == \A a, b \in DOMAIN order : a < b => order[a] < order[b]

\* The largest element is put behind the others.
LEMMA OneMore ==
  ASSUME NEW T \in SUBSET Nat, NEW n \in Nat, NEW m \in T, \A t \in T : t <= m,
         NEW order \in [1..n -> T \ {m}], Ascends(order)
  PROVE  \E longer \in [1..(n + 1) -> T] : Ascends(longer)
<1> DEFINE longer == [k \in 1..(n + 1) |-> IF k = n + 1 THEN m ELSE order[k]]
<1>1. \A k \in 1..(n + 1) : k # n + 1 => k \in 1..n OBVIOUS
<1>2. longer \in [1..(n + 1) -> T] BY <1>1
<1>3. ASSUME NEW a \in 1..(n + 1), NEW b \in 1..(n + 1), a < b PROVE longer[a] < longer[b]
  <2>1. a # n + 1 /\ a \in 1..n BY <1>3
  <2>2. longer[a] = order[a] /\ order[a] \in T \ {m} BY <2>1
  <2>3. CASE b = n + 1
    <3>1. longer[b] = m BY <2>3
    <3>2. order[a] \in Nat /\ m \in Nat /\ order[a] <= m /\ order[a] # m BY <2>2
    <3> QED BY <2>2, <3>1, <3>2
  <2>4. CASE b # n + 1
    <3>1. b \in 1..n /\ longer[b] = order[b] BY <2>4
    <3> QED BY <1>3, <2>1, <2>2, <3>1 DEF Ascends
  <2> QED BY <2>3, <2>4
<1> HIDE DEF longer
<1> QED BY <1>2, <1>3 DEF Ascends

\* Finite sets of numbers can be listed in their order.
LEMMA OrderExists ==
  ASSUME NEW S \in SUBSET Nat, IsFiniteSet(S)
  PROVE  \E order \in [1..Cardinality(S) -> S] : Ascends(order)
<1> DEFINE Bad == {T \in SUBSET S : ~(\E order \in [1..Cardinality(T) -> T] : Ascends(order))}
<1>1. IsWellFoundedOn(StrictSubsetOrdering(S), SUBSET S)
  BY FS_StrictSubsetOrderingWellFounded, FS_FiniteSubsetsOfFinite
<1>2. SUFFICES ASSUME Bad # {} PROVE FALSE OBVIOUS
<1>3. Bad \subseteq SUBSET S OBVIOUS
<1>4. \A T \in SUBSET S : T \in Bad <=> ~(\E order \in [1..Cardinality(T) -> T] : Ascends(order)) OBVIOUS
<1> HIDE DEF Bad
<1>5. PICK T \in Bad : \A U \in Bad : ~(<<U, T>> \in StrictSubsetOrdering(S)) BY <1>1, <1>2, <1>3, WFMin
<1>6. T \in SUBSET S /\ T \in SUBSET Nat BY <1>3
<1>7. IsFiniteSet(T) BY <1>6, FS_Subset
<1>8. T # {}
  <2>1. SUFFICES ASSUME T = {} PROVE FALSE OBVIOUS
  <2>2. Cardinality(T) = 0 BY <2>1, FS_EmptySet
  <2> DEFINE nothing == [k \in 1..0 |-> 0]
  <2>3. nothing \in [1..0 -> T] /\ DOMAIN nothing = {} BY <2>1
  <2> HIDE DEF nothing
  <2>4. Ascends(nothing) BY <2>3 DEF Ascends
  <2> QED BY <1>4, <1>6, <2>2, <2>3, <2>4
<1>9. PICK m \in T : \A t \in T : t <= m BY <1>6, <1>7, <1>8, LargestNumber
<1> DEFINE U == T \ {m}
<1>10. U \in SUBSET S /\ U \subseteq T /\ U # T BY <1>6
<1>11. IsFiniteSet(U) /\ Cardinality(U) = Cardinality(T) - 1 BY <1>7, FS_RemoveElement
<1>12. Cardinality(T) \in Nat /\ Cardinality(U) \in Nat BY <1>7, <1>11, FS_CardinalityType
<1>13. U \notin Bad
  <2> HIDE DEF U
  <2>1. <<U, T>> \in StrictSubsetOrdering(S) BY <1>6, <1>10 DEF StrictSubsetOrdering
  <2> QED BY <1>5, <2>1
<1>14. PICK order \in [1..Cardinality(U) -> U] : Ascends(order)
  <2> HIDE DEF U
  <2> QED BY <1>4, <1>10, <1>13
<1>15. Cardinality(U) + 1 = Cardinality(T) BY <1>11, <1>12
<1>16. \E longer \in [1..(Cardinality(U) + 1) -> T] : Ascends(longer) BY <1>6, <1>9, <1>12, <1>14, OneMore
<1> QED BY <1>4, <1>6, <1>15, <1>16

\* What Ascending gives: each index once.
LEMMA AscendingOnce ==
  ASSUME NEW n \in Nat, NEW S \in SUBSET (1..n)
  PROVE  /\ IsFiniteSet(S) /\ Cardinality(S) \in Nat /\ Cardinality(S) <= n
         /\ Cardinality(S) = n => S = 1..n
         /\ Ascending(S) \in [1..Cardinality(S) -> S]
         /\ \A a, b \in 1..Cardinality(S) : Ascending(S)[a] = Ascending(S)[b] => a = b
         /\ \A i \in S : \E k \in 1..Cardinality(S) : Ascending(S)[k] = i
<1> DEFINE c == Cardinality(S)  order == Ascending(S)
<1>1. IsFiniteSet(1..n) /\ Cardinality(1..n) = n BY FS_Interval
<1>2. IsFiniteSet(S) /\ c <= n /\ (c = n => S = 1..n) BY <1>1, FS_Subset
<1>3. c \in Nat BY <1>2, FS_CardinalityType
<1>4. S \in SUBSET Nat OBVIOUS
<1>5. order \in [1..c -> S] /\ Ascends(order)
  <2>1. order = CHOOSE o \in [1..c -> S] : \A a, b \in DOMAIN o : a < b => o[a] < o[b] BY DEF Ascending
  <2>2. \E o \in [1..c -> S] : \A a, b \in DOMAIN o : a < b => o[a] < o[b]
    BY <1>2, <1>4, OrderExists DEF Ascends
  <2> HIDE DEF order, c
  <2> QED BY <2>1, <2>2 DEF Ascends
<1> HIDE DEF order
<1>6. ASSUME NEW a \in 1..c, NEW b \in 1..c, order[a] = order[b] PROVE a = b
  <2>1. order[a] \in Nat /\ order[b] \in Nat BY <1>4, <1>5
  <2>2. ~(order[a] < order[b]) /\ ~(order[b] < order[a]) BY <1>6, <2>1
  <2>3. ~(a < b) /\ ~(b < a) BY <1>5, <2>2 DEF Ascends
  <2> QED BY <2>3, <1>3
<1>7. order \in Injection(1..c, S) BY <1>5, <1>6 DEF Injection, IsInjective
<1>8. Cardinality(1..c) = c BY <1>3, FS_Interval
<1>9. order \in Surjection(1..c, S) BY <1>2, <1>7, <1>8, FS_Injection
<1>10. \A i \in S : \E k \in 1..c : order[k] = i BY <1>9 DEF Surjection
<1> QED BY <1>2, <1>3, <1>5, <1>6, <1>10 DEF order


(* No two names of a list differ only in case; the dates of a list count. *)
DistinctKeys(list) == \A i, j \in DOMAIN list : NameKey[list[i].name] = NameKey[list[j].name] => i = j
Normal(list) == \A i \in DOMAIN list : normalizeFilters(list[i].filters) = list[i].filters
SoundList(list) ==
    list \in Seq(SavedEntry) /\ Len(list) <= SavedLimit /\ Normal(list) /\ DistinctKeys(list)

\* The entries at some of the places of a list.
LEMMA EntriesTaken ==
  ASSUME NEW list \in Seq(SavedEntry), NEW S \in SUBSET DOMAIN list
  PROVE  LET taken == EntriesAt(list, S)
         IN  /\ taken \in Seq(SavedEntry) /\ Len(taken) = Cardinality(S) /\ Len(taken) <= Len(list)
             /\ Len(taken) = Len(list) => S = DOMAIN list
             /\ \A k \in DOMAIN taken : \E i \in S : taken[k] = list[i]
             /\ \A i \in S : \E k \in DOMAIN taken : taken[k] = list[i]
             /\ Normal(list) => Normal(taken)
             /\ (\A i, j \in S : NameKey[list[i].name] = NameKey[list[j].name] => i = j) => DistinctKeys(taken)
<1> DEFINE n == Len(list)  c == Cardinality(S)  at == Ascending(S)  taken == EntriesAt(list, S)
<1>1. n \in Nat /\ DOMAIN list = 1..n OBVIOUS
<1>2. /\ c \in Nat /\ c <= n /\ (c = n => S = 1..n) /\ at \in [1..c -> S]
      /\ \A a, b \in 1..c : at[a] = at[b] => a = b
      /\ \A i \in S : \E k \in 1..c : at[k] = i
  BY <1>1, AscendingOnce
<1>3. taken = [k \in 1..c |-> list[at[k]]] BY DEF EntriesAt
<1> HIDE DEF n, c, at, taken
<1>4. \A k \in 1..c : at[k] \in S /\ taken[k] = list[at[k]] /\ list[at[k]] \in SavedEntry BY <1>2, <1>3
<1>5. taken \in [1..c -> SavedEntry] BY <1>3, <1>4
<1>6. taken \in Seq(SavedEntry) /\ Len(taken) = c /\ DOMAIN taken = 1..c BY <1>2, <1>5
<1>7. \A k \in DOMAIN taken : \E i \in S : taken[k] = list[i] BY <1>4, <1>6
<1>8. \A i \in S : \E k \in DOMAIN taken : taken[k] = list[i] BY <1>2, <1>4, <1>6
<1>9. Normal(list) => Normal(taken) BY <1>7 DEF Normal
<1>10. (\A i, j \in S : NameKey[list[i].name] = NameKey[list[j].name] => i = j) => DistinctKeys(taken)
  BY <1>2, <1>4, <1>6 DEF DistinctKeys
<1> QED BY <1>1, <1>2, <1>6, <1>7, <1>8, <1>9, <1>10 DEF n, c, taken

\* The start of a list, up to the limit.
LEMMA Truncated ==
  ASSUME NEW list \in Seq(SavedEntry)
  PROVE  LET first == Truncate(list)
         IN  /\ first \in Seq(SavedEntry) /\ Len(first) <= SavedLimit /\ Len(first) <= Len(list)
             /\ \A k \in DOMAIN first : k \in DOMAIN list /\ first[k] = list[k]
             /\ Len(list) <= SavedLimit => first = list
             /\ Len(list) > SavedLimit => Len(first) = SavedLimit
             /\ Normal(list) => Normal(first)
             /\ DistinctKeys(list) => DistinctKeys(first)
<1> DEFINE m == IF Len(list) < SavedLimit THEN Len(list) ELSE SavedLimit  first == Truncate(list)
<1>1. SavedLimit \in Nat \ {0} BY SavedFiltersAssumption
<1>2. m \in Nat /\ m <= Len(list) /\ m <= SavedLimit /\ Len(list) \in Nat BY <1>1
<1>3. first = SubSeq(list, 1, m) BY DEF Truncate
<1>4. (Len(list) <= SavedLimit => m = Len(list)) /\ (Len(list) > SavedLimit => m = SavedLimit) BY <1>1
<1> HIDE DEF m, first
<1>5. first \in Seq(SavedEntry) /\ Len(first) = m /\ DOMAIN first = 1..m /\ DOMAIN list = 1..Len(list)
      /\ \A k \in 1..m : first[k] = list[k]
  BY <1>2, <1>3
<1>6. \A k \in DOMAIN first : k \in DOMAIN list /\ first[k] = list[k] BY <1>2, <1>5
<1>7. Len(list) <= SavedLimit => first = list
  <2>1. SUFFICES ASSUME m = Len(list) PROVE first = list BY <1>4
  <2> QED BY <2>1, <1>3
<1>8. Normal(list) => Normal(first) BY <1>6 DEF Normal
<1>9. DistinctKeys(list) => DistinctKeys(first) BY <1>6 DEF DistinctKeys
<1> QED BY <1>2, <1>4, <1>5, <1>6, <1>7, <1>8, <1>9 DEF first

\* Filters with the dates that count.
LEMMA NormalFilters ==
  /\ \A f \in Filters : normalizeFilters(f) \in Filters
       /\ normalizeFilters(normalizeFilters(f)) = normalizeFilters(f)
       /\ FilterView(normalizeFilters(f)) = FilterView(f)
<1> SUFFICES ASSUME NEW f \in Filters
             PROVE  /\ normalizeFilters(f) \in Filters
                    /\ normalizeFilters(normalizeFilters(f)) = normalizeFilters(f)
                    /\ FilterView(normalizeFilters(f)) = FilterView(f)
  OBVIOUS
<1> DEFINE g == normalizeFilters(f)
<1>1. f.period \in {"all", "custom"} /\ f.date \in {0, 1} BY DEF Filters
<1>2. g = [period |-> g.period, date |-> g.date] /\ g.period = f.period
      /\ g.date = IF f.period = "custom" THEN f.date ELSE 0
  BY DEF normalizeFilters
<1> HIDE DEF g
<1>3. g \in Filters BY <1>1, <1>2 DEF Filters
<1>4. normalizeFilters(g) = g
  <2>1. normalizeFilters(g) = [period |-> g.period, date |-> IF g.period = "custom" THEN g.date ELSE 0]
    BY DEF normalizeFilters
  <2>2. (IF g.period = "custom" THEN g.date ELSE 0) = g.date BY <1>2
  <2> QED BY <2>1, <2>2, <1>2
<1>5. FilterView(g) = FilterView(f) BY <1>2 DEF FilterView
<1> QED BY <1>3, <1>4, <1>5 DEF g

\* A list with its filters normalised.
LEMMA FiltersNormalised ==
  ASSUME NEW list \in Seq(SavedEntry)
  PROVE  LET r == [k \in DOMAIN list |-> [list[k] EXCEPT !.filters = normalizeFilters(@)]]
         IN  /\ r \in Seq(SavedEntry) /\ DOMAIN r = DOMAIN list /\ Len(r) = Len(list) /\ Normal(r)
             /\ \A k \in DOMAIN list : r[k].name = list[k].name
             /\ Normal(list) => r = list
<1> DEFINE r == [k \in DOMAIN list |-> [list[k] EXCEPT !.filters = normalizeFilters(@)]]
           n == Len(list)
<1>1. DOMAIN list = 1..n /\ n \in Nat /\ DOMAIN r = 1..n OBVIOUS
<1>2. \A k \in 1..n : r[k] = [list[k] EXCEPT !.filters = normalizeFilters(@)] OBVIOUS
<1>3. \A k \in 1..n : list[k] \in SavedEntry OBVIOUS
<1>0. r = [k \in DOMAIN r |-> r[k]] OBVIOUS
<1> HIDE DEF r, n
<1>4. ASSUME NEW k \in 1..n
      PROVE  /\ r[k] \in SavedEntry /\ r[k].name = list[k].name
             /\ r[k].filters = normalizeFilters(list[k].filters)
             /\ normalizeFilters(list[k].filters) = list[k].filters => r[k] = list[k]
  <2> DEFINE e == list[k]
  <2>1. e \in SavedEntry BY <1>3
  <2>2. r[k] = [e EXCEPT !.filters = normalizeFilters(@)] BY <1>2
  <2> HIDE DEF e
  <2>3. e.name \in Names /\ e.filters \in Filters /\ e = [name |-> e.name, filters |-> e.filters] BY <2>1 DEF SavedEntry
  <2>4. r[k] = [name |-> e.name, filters |-> normalizeFilters(e.filters)] BY <2>2, <2>3
  <2>5. normalizeFilters(e.filters) \in Filters BY <2>3, NormalFilters
  <2>6. r[k] \in SavedEntry BY <2>3, <2>4, <2>5 DEF SavedEntry
  <2> QED BY <2>3, <2>4, <2>6 DEF e
<1>5. \A k \in 1..n : list[k].filters \in Filters BY <1>3 DEF SavedEntry
<1>6. r \in [1..n -> SavedEntry]
  <2>1. r = [k \in 1..n |-> r[k]] BY <1>0, <1>1
  <2> QED BY <2>1, <1>4
<1>7. r \in Seq(SavedEntry) /\ Len(r) = n BY <1>1, <1>6
<1>8. Normal(r) BY <1>1, <1>4, <1>5, NormalFilters DEF Normal
<1>9. Normal(list) => r = list
  <2>1. SUFFICES ASSUME Normal(list) PROVE r = list OBVIOUS
  <2>2. \A k \in 1..n : r[k] = list[k] BY <2>1, <1>1, <1>4 DEF Normal
  <2>3. list \in [1..n -> SavedEntry] BY <1>1
  <2>4. list = [k \in 1..n |-> list[k]] BY <2>3
  <2>5. r = [k \in 1..n |-> r[k]] BY <1>6
  <2>6. [k \in 1..n |-> r[k]] = [k \in 1..n |-> list[k]] BY <2>2
  <2> QED BY <2>4, <2>5, <2>6
<1> QED BY <1>1, <1>4, <1>7, <1>8, <1>9 DEF r, n


\* What a file, or an earlier visit, gives is a sound list.
LEMMA NormalisedIsSound == ASSUME NEW list \in Seq(SavedEntry) PROVE SoundList(normalizeSavedFilters(list))
<1> DEFINE S == {i \in DOMAIN list : \A j \in 1..(i - 1) : NameKey[list[j].name] # NameKey[list[i].name]}
           kept == EntriesAt(list, S)
           r == [k \in DOMAIN kept |-> [kept[k] EXCEPT !.filters = normalizeFilters(@)]]
<1>1. normalizeSavedFilters(list) = Truncate(r) BY DEF normalizeSavedFilters
<1>2. S \in SUBSET DOMAIN list OBVIOUS
<1>3. ASSUME NEW i \in S, NEW j \in S, NameKey[list[i].name] = NameKey[list[j].name] PROVE i = j
  <2>1. i \in Nat \ {0} /\ j \in Nat \ {0} OBVIOUS
  <2>2. ~(j < i)
    <3>1. SUFFICES ASSUME j < i PROVE FALSE OBVIOUS
    <3>2. j \in 1..(i - 1) BY <2>1, <3>1
    <3> QED BY <3>2, <1>3
  <2>3. ~(i < j)
    <3>1. SUFFICES ASSUME i < j PROVE FALSE OBVIOUS
    <3>2. i \in 1..(j - 1) BY <2>1, <3>1
    <3> QED BY <3>2, <1>3
  <2> QED BY <2>1, <2>2, <2>3
<1> HIDE DEF S
<1>4. kept \in Seq(SavedEntry) /\ DistinctKeys(kept) BY <1>2, <1>3, EntriesTaken
<1> HIDE DEF kept
<1>5. /\ r \in Seq(SavedEntry) /\ DOMAIN r = DOMAIN kept /\ Normal(r)
      /\ \A k \in DOMAIN kept : r[k].name = kept[k].name
  BY <1>4, FiltersNormalised
<1> HIDE DEF r
<1>6. DistinctKeys(r) BY <1>4, <1>5 DEF DistinctKeys
<1> QED BY <1>1, <1>5, <1>6, Truncated DEF SoundList

\* A sound list is normalised already.
LEMMA SoundIsNormalised == ASSUME NEW list, SoundList(list) PROVE
    LET r == normalizeSavedFilters(list)
    IN  /\ SoundList(r) /\ KeysOf(r) = KeysOf(list)
        /\ \A k \in DOMAIN r : \E i \in DOMAIN list : r[k] = list[i]
<1> DEFINE S == {i \in DOMAIN list : \A j \in 1..(i - 1) : NameKey[list[j].name] # NameKey[list[i].name]}
           kept == EntriesAt(list, S)
           r == [k \in DOMAIN kept |-> [kept[k] EXCEPT !.filters = normalizeFilters(@)]]
<1>0. list \in Seq(SavedEntry) /\ Len(list) <= SavedLimit /\ Normal(list) /\ DistinctKeys(list) BY DEF SoundList
<1>1. normalizeSavedFilters(list) = Truncate(r) BY DEF normalizeSavedFilters
<1>2. S = DOMAIN list
  <2>1. DOMAIN list = 1..Len(list) /\ Len(list) \in Nat BY <1>0
  <2>2. ASSUME NEW i \in DOMAIN list, NEW j \in 1..(i - 1) PROVE NameKey[list[j].name] # NameKey[list[i].name]
    <3>1. j \in DOMAIN list /\ j # i BY <2>1
    <3> QED BY <3>1, <1>0 DEF DistinctKeys
  <2> QED BY <2>2
<1> HIDE DEF S
<1>3. /\ kept \in Seq(SavedEntry) /\ Len(kept) <= Len(list) /\ Normal(kept)
      /\ \A k \in DOMAIN kept : \E i \in DOMAIN list : kept[k] = list[i]
      /\ \A i \in DOMAIN list : \E k \in DOMAIN kept : kept[k] = list[i]
  BY <1>0, <1>2, EntriesTaken
<1> HIDE DEF kept
<1>4. r = kept BY <1>3, FiltersNormalised
<1> HIDE DEF r
<1>5. Len(kept) <= SavedLimit BY <1>0, <1>3, SavedFiltersAssumption
<1>6. normalizeSavedFilters(list) = kept BY <1>1, <1>3, <1>4, <1>5, Truncated
<1>7. KeysOf(kept) = KeysOf(list) BY <1>3 DEF KeysOf
<1>8. SoundList(normalizeSavedFilters(list)) BY <1>0, NormalisedIsSound
<1> QED BY <1>3, <1>6, <1>7, <1>8

\* Two lists one after the other.
LEMMA Joins ==
  ASSUME NEW a \in Seq(SavedEntry), NEW b \in Seq(SavedEntry)
  PROVE  /\ a \o b \in Seq(SavedEntry) /\ Len(a \o b) = Len(a) + Len(b)
         /\ \A k \in DOMAIN (a \o b) : (\E i \in DOMAIN a : (a \o b)[k] = a[i]) \/ (\E i \in DOMAIN b : (a \o b)[k] = b[i])
         /\ \A i \in DOMAIN a : i \in DOMAIN (a \o b) /\ (a \o b)[i] = a[i]
         /\ \A i \in DOMAIN b : \E k \in DOMAIN (a \o b) : (a \o b)[k] = b[i]
         /\ Normal(a) /\ Normal(b) => Normal(a \o b)
         /\ DistinctKeys(a) /\ DistinctKeys(b) /\ KeysOf(a) \cap KeysOf(b) = {} => DistinctKeys(a \o b)
<1> DEFINE n == Len(a)  m == Len(b)  c == a \o b
<1>1. n \in Nat /\ m \in Nat /\ DOMAIN a = 1..n /\ DOMAIN b = 1..m OBVIOUS
<1>2. /\ c \in Seq(SavedEntry) /\ Len(c) = n + m /\ DOMAIN c = 1..(n + m)
      /\ \A k \in 1..(n + m) : c[k] = IF k <= n THEN a[k] ELSE b[k - n]
  OBVIOUS
<1> HIDE DEF n, m, c
<1>3. ASSUME NEW k \in DOMAIN c PROVE (k \in 1..n /\ c[k] = a[k]) \/ (k - n \in 1..m /\ c[k] = b[k - n])
  <2>1. k \in 1..(n + m) BY <1>2
  <2>2. CASE k <= n BY <2>1, <2>2, <1>1, <1>2
  <2>3. CASE ~(k <= n) BY <2>1, <2>3, <1>1, <1>2
  <2> QED BY <2>2, <2>3
<1>4. \A k \in DOMAIN c : (\E i \in DOMAIN a : c[k] = a[i]) \/ (\E i \in DOMAIN b : c[k] = b[i]) BY <1>1, <1>3
<1>5. \A i \in DOMAIN a : i \in DOMAIN c /\ c[i] = a[i] BY <1>1, <1>2
<1>6. ASSUME NEW i \in DOMAIN b PROVE \E k \in DOMAIN c : c[k] = b[i]
  <2>1. n + i \in 1..(n + m) /\ ~(n + i <= n) /\ (n + i) - n = i BY <1>1
  <2> QED BY <2>1, <1>2
<1>7. Normal(a) /\ Normal(b) => Normal(c) BY <1>4 DEF Normal
<1>8. ASSUME DistinctKeys(a), DistinctKeys(b), KeysOf(a) \cap KeysOf(b) = {},
             NEW k \in DOMAIN c, NEW l \in DOMAIN c, NameKey[c[k].name] = NameKey[c[l].name]
      PROVE  k = l
  <2>0. k \in Int /\ l \in Int BY <1>2
  <2>1. CASE k \in 1..n /\ c[k] = a[k] /\ l \in 1..n /\ c[l] = a[l] BY <2>1, <1>1, <1>8 DEF DistinctKeys
  <2>2. CASE k - n \in 1..m /\ c[k] = b[k - n] /\ l - n \in 1..m /\ c[l] = b[l - n]
    <3>1. k - n = l - n BY <2>2, <1>1, <1>8 DEF DistinctKeys
    <3> QED BY <3>1, <2>0, <1>1
  <2>3. CASE k \in 1..n /\ c[k] = a[k] /\ l - n \in 1..m /\ c[l] = b[l - n]
    <3>1. NameKey[c[k].name] \in KeysOf(a) /\ NameKey[c[l].name] \in KeysOf(b) BY <2>3, <1>1 DEF KeysOf
    <3> QED BY <3>1, <1>8
  <2>4. CASE k - n \in 1..m /\ c[k] = b[k - n] /\ l \in 1..n /\ c[l] = a[l]
    <3>1. NameKey[c[l].name] \in KeysOf(a) /\ NameKey[c[k].name] \in KeysOf(b) BY <2>4, <1>1 DEF KeysOf
    <3> QED BY <3>1, <1>8
  <2> QED BY <1>3, <2>1, <2>2, <2>3, <2>4
<1>9. DistinctKeys(a) /\ DistinctKeys(b) /\ KeysOf(a) \cap KeysOf(b) = {} => DistinctKeys(c) BY <1>8 DEF DistinctKeys
<1> QED BY <1>2, <1>4, <1>5, <1>6, <1>7, <1>9 DEF n, m, c

TakenFrom(list, one, other) ==
    \A k \in DOMAIN list : (\E i \in DOMAIN one : list[k] = one[i]) \/ (\E i \in DOMAIN other : list[k] = other[i])

\* A merge: sound, and what it leaves out is announced.
LEMMA Merged ==
  ASSUME NEW current, SoundList(current), NEW restored, SoundList(restored),
         NEW merged, merged = mergeSavedFilters(current, restored)
  PROVE  /\ SoundList(merged.filters)
         /\ KeysOf(current) \subseteq KeysOf(merged.filters) \union KeysOf(merged.omitted)
         /\ TakenFrom(merged.filters, current, restored)
<1> DEFINE back == normalizeSavedFilters(restored)
           list == normalizeSavedFilters(current)
           S == {i \in DOMAIN list : NameKey[list[i].name] \notin KeysOf(back)}
           rest == EntriesAt(list, S)
           all == back \o rest
           first == Truncate(all)
           omitted == SubSeq(all, Len(first) + 1, Len(all))
<1>1. merged = [filters |-> first, omitted |-> omitted]
  BY DEF mergeSavedFilters, MergeCandidates
<1>2. /\ SoundList(back) /\ \A k \in DOMAIN back : \E i \in DOMAIN restored : back[k] = restored[i]
      /\ SoundList(list) /\ \A k \in DOMAIN list : \E i \in DOMAIN current : list[k] = current[i]
      /\ KeysOf(list) = KeysOf(current)
  BY SoundIsNormalised
<1> HIDE DEF back, list
<1>3. S \in SUBSET DOMAIN list /\ (\A i \in DOMAIN list : i \notin S => NameKey[list[i].name] \in KeysOf(back))
      /\ \A i \in S : NameKey[list[i].name] \notin KeysOf(back)
  OBVIOUS
<1> HIDE DEF S
<1>4. /\ rest \in Seq(SavedEntry) /\ Normal(rest) /\ DistinctKeys(rest)
      /\ \A k \in DOMAIN rest : \E i \in S : rest[k] = list[i]
      /\ \A i \in S : \E k \in DOMAIN rest : rest[k] = list[i]
  <2>1. list \in Seq(SavedEntry) /\ Normal(list) BY <1>2 DEF SoundList
  <2>2. \A i, j \in S : NameKey[list[i].name] = NameKey[list[j].name] => i = j
    BY <1>2, <1>3 DEF SoundList, DistinctKeys
  <2> QED BY <1>3, <2>1, <2>2, EntriesTaken
<1> HIDE DEF rest
<1>5. KeysOf(back) \cap KeysOf(rest) = {} BY <1>3, <1>4 DEF KeysOf
<1>6. /\ all \in Seq(SavedEntry) /\ Normal(all) /\ DistinctKeys(all)
      /\ \A k \in DOMAIN all : (\E i \in DOMAIN back : all[k] = back[i]) \/ (\E i \in DOMAIN rest : all[k] = rest[i])
      /\ \A i \in DOMAIN back : i \in DOMAIN all /\ all[i] = back[i]
      /\ \A i \in DOMAIN rest : \E k \in DOMAIN all : all[k] = rest[i]
  BY <1>2, <1>4, <1>5, Joins DEF SoundList
<1> HIDE DEF all
<1>7. /\ first \in Seq(SavedEntry) /\ Len(first) <= SavedLimit /\ Len(first) <= Len(all) /\ Normal(first) /\ DistinctKeys(first)
      /\ \A k \in DOMAIN first : k \in DOMAIN all /\ first[k] = all[k]
  BY <1>6, Truncated
<1>8. SoundList(first) BY <1>7 DEF SoundList
<1>9. KeysOf(current) \subseteq KeysOf(all)
  <2>1. SUFFICES ASSUME NEW i \in DOMAIN list PROVE NameKey[list[i].name] \in KeysOf(all) BY <1>2 DEF KeysOf
  <2>2. CASE i \in S
    <3>1. PICK j \in DOMAIN rest : rest[j] = list[i] BY <2>2, <1>4
    <3>2. PICK k \in DOMAIN all : all[k] = rest[j] BY <1>6
    <3> QED BY <3>1, <3>2 DEF KeysOf
  <2>3. CASE i \notin S
    <3>1. PICK j \in DOMAIN back : NameKey[list[i].name] = NameKey[back[j].name] BY <2>3, <1>3 DEF KeysOf
    <3> QED BY <3>1, <1>6 DEF KeysOf
  <2> QED BY <2>2, <2>3
<1>10. KeysOf(all) \subseteq KeysOf(first) \union KeysOf(omitted)
  <2>1. SUFFICES ASSUME NEW k \in DOMAIN all, NameKey[all[k].name] \notin KeysOf(first)
                 PROVE  NameKey[all[k].name] \in KeysOf(omitted)
    BY DEF KeysOf
  <2> DEFINE p == Len(first)  q == Len(all)
  <2>2. p \in Nat /\ q \in Nat /\ p <= q /\ DOMAIN first = 1..p /\ DOMAIN all = 1..q BY <1>6, <1>7
  <2>3. k \notin 1..p BY <1>7, <2>1, <2>2 DEF KeysOf
  <2>4. omitted = SubSeq(all, p + 1, q) OBVIOUS
  <2> HIDE DEF p, q, omitted
  <2>5. DOMAIN omitted = 1..(q - p) /\ \A x \in 1..(q - p) : omitted[x] = all[x + p]
    <3>1. all \in Seq(SavedEntry) /\ Len(all) = q BY <1>6 DEF q
    <3> QED BY <3>1, <2>2, <2>4
  <2>6. k - p \in 1..(q - p) /\ (k - p) + p = k BY <2>2, <2>3
  <2>7. k - p \in DOMAIN omitted /\ omitted[k - p] = all[k] BY <2>5, <2>6
  <2> QED BY <2>7 DEF KeysOf
<1>11. TakenFrom(first, current, restored)
  <2>0. SUFFICES ASSUME NEW k \in DOMAIN first
                 PROVE  (\E i \in DOMAIN current : first[k] = current[i]) \/ (\E i \in DOMAIN restored : first[k] = restored[i])
    BY DEF TakenFrom
  <2>1. k \in DOMAIN all /\ first[k] = all[k] BY <1>7
  <2>2. CASE \E i \in DOMAIN back : all[k] = back[i] BY <2>1, <2>2, <1>2
  <2>3. CASE \E i \in DOMAIN rest : all[k] = rest[i] BY <2>1, <2>3, <1>2, <1>3, <1>4
  <2> QED BY <2>1, <2>2, <2>3, <1>6
<1> HIDE DEF first, omitted
<1> QED BY <1>1, <1>8, <1>9, <1>10, <1>11

\* Without one key.
LEMMA KeyDropped ==
  ASSUME NEW list, SoundList(list), NEW key
  PROVE  LET rest == WithoutKey(list, key)
         IN  /\ SoundList(rest) /\ key \notin KeysOf(rest)
             /\ KeysOf(list) \subseteq KeysOf(rest) \union {key}
             /\ key \in KeysOf(list) => Len(rest) < Len(list)
             /\ \A k \in DOMAIN rest : \E i \in DOMAIN list : rest[k] = list[i]
<1> DEFINE S == {i \in DOMAIN list : NameKey[list[i].name] # key}
           rest == EntriesAt(list, S)
<1>0. list \in Seq(SavedEntry) /\ Len(list) <= SavedLimit /\ Normal(list) /\ DistinctKeys(list) BY DEF SoundList
<1>1. rest = WithoutKey(list, key) BY DEF WithoutKey
<1>2. /\ S \in SUBSET DOMAIN list /\ \A i \in S : NameKey[list[i].name] # key
      /\ \A i \in DOMAIN list : i \notin S => NameKey[list[i].name] = key
  OBVIOUS
<1> HIDE DEF S
<1>3. \A i, j \in S : NameKey[list[i].name] = NameKey[list[j].name] => i = j BY <1>0, <1>2 DEF DistinctKeys
<1>4. /\ rest \in Seq(SavedEntry) /\ Len(rest) <= Len(list) /\ Normal(rest) /\ DistinctKeys(rest)
      /\ Len(rest) = Len(list) => S = DOMAIN list
      /\ \A k \in DOMAIN rest : \E i \in S : rest[k] = list[i]
      /\ \A i \in S : \E k \in DOMAIN rest : rest[k] = list[i]
  BY <1>0, <1>2, <1>3, EntriesTaken
<1> HIDE DEF rest
<1>5. Len(rest) \in Nat /\ Len(list) \in Nat /\ SavedLimit \in Nat BY <1>0, <1>4, SavedFiltersAssumption
<1>6. SoundList(rest) BY <1>0, <1>4, <1>5 DEF SoundList
<1>7. key \notin KeysOf(rest) BY <1>2, <1>4 DEF KeysOf
<1>8. KeysOf(list) \subseteq KeysOf(rest) \union {key} BY <1>2, <1>4 DEF KeysOf
<1>9. key \in KeysOf(list) => Len(rest) < Len(list)
  <2>1. SUFFICES ASSUME key \in KeysOf(list), Len(rest) = Len(list) PROVE FALSE BY <1>4, <1>5
  <2> QED BY <1>2, <1>4, <2>1 DEF KeysOf
<1>10. \A k \in DOMAIN rest : \E i \in DOMAIN list : rest[k] = list[i] BY <1>2, <1>4
<1> QED BY <1>1, <1>6, <1>7, <1>8, <1>9, <1>10

\* Saving under a name: the limit pushes nothing out.
LEMMA Saved ==
  ASSUME NEW list, SoundList(list), NEW name \in Names, NEW f \in Filters,
         ~(Len(list) >= SavedLimit /\ NameKey[name] \notin KeysOf(list))
  PROVE  LET r == upsertSavedFilter(list, name, f)
         IN  /\ SoundList(r) /\ KeysOf(list) \subseteq KeysOf(r) /\ \E i \in DOMAIN r : r[i].name = name
             /\ \A k \in DOMAIN r : \/ \E i \in DOMAIN list : r[k] = list[i]
                                    \/ FilterView(r[k].filters) = FilterView(f)
<1> DEFINE e == [name |-> name, filters |-> normalizeFilters(f)]
           head == <<e>>
           rest == WithoutKey(list, NameKey[name])
           all == head \o rest
           r == Truncate(all)
<1>1. r = upsertSavedFilter(list, name, f) BY DEF upsertSavedFilter
<1>2. e \in SavedEntry /\ e.name = name /\ e.filters = normalizeFilters(f) /\ normalizeFilters(e.filters) = e.filters
      /\ FilterView(e.filters) = FilterView(f)
  BY NormalFilters DEF SavedEntry
<1> HIDE DEF e
<1>3. head \in Seq(SavedEntry) /\ Len(head) = 1 /\ DOMAIN head = {1} /\ head[1] = e BY <1>2
<1> HIDE DEF head
<1>4. Normal(head) /\ DistinctKeys(head) /\ KeysOf(head) = {NameKey[name]} BY <1>2, <1>3 DEF Normal, DistinctKeys, KeysOf
<1>5. /\ SoundList(rest) /\ NameKey[name] \notin KeysOf(rest) /\ KeysOf(list) \subseteq KeysOf(rest) \union {NameKey[name]}
      /\ NameKey[name] \in KeysOf(list) => Len(rest) < Len(list)
      /\ \A k \in DOMAIN rest : \E i \in DOMAIN list : rest[k] = list[i]
  BY KeyDropped
<1>6. Len(rest) <= Len(list)
  <2>1. rest = EntriesAt(list, {i \in DOMAIN list : NameKey[list[i].name] # NameKey[name]}) BY DEF WithoutKey
  <2>2. list \in Seq(SavedEntry) BY DEF SoundList
  <2> HIDE DEF rest
  <2> QED BY <2>1, <2>2, EntriesTaken
<1> HIDE DEF rest
<1>7. Len(rest) + 1 <= SavedLimit
  <2>1. Len(rest) \in Nat /\ Len(list) \in Nat /\ Len(list) <= SavedLimit /\ SavedLimit \in Nat
    BY <1>5, SavedFiltersAssumption DEF SoundList
  <2>2. CASE NameKey[name] \in KeysOf(list) BY <2>1, <2>2, <1>5
  <2>3. CASE NameKey[name] \notin KeysOf(list)
    <3>1. ~(Len(list) >= SavedLimit) BY <2>3
    <3> QED BY <3>1, <2>1, <1>6
  <2> QED BY <2>2, <2>3
<1>8. /\ all \in Seq(SavedEntry) /\ Len(all) = Len(head) + Len(rest) /\ Normal(all) /\ DistinctKeys(all)
      /\ \A k \in DOMAIN all : (\E i \in DOMAIN head : all[k] = head[i]) \/ (\E i \in DOMAIN rest : all[k] = rest[i])
      /\ \A i \in DOMAIN head : i \in DOMAIN all /\ all[i] = head[i]
      /\ \A i \in DOMAIN rest : \E k \in DOMAIN all : all[k] = rest[i]
  <2>1. KeysOf(head) \cap KeysOf(rest) = {} BY <1>4, <1>5
  <2>2. rest \in Seq(SavedEntry) /\ Normal(rest) /\ DistinctKeys(rest) BY <1>5 DEF SoundList
  <2> QED BY <1>3, <1>4, <2>1, <2>2, Joins
<1> HIDE DEF all
<1>9. Len(all) <= SavedLimit
  <2>1. Len(rest) \in Nat BY <1>5 DEF SoundList
  <2>2. Len(all) = Len(rest) + 1 BY <2>1, <1>3, <1>8
  <2> QED BY <2>2, <1>7
<1>10. r = all BY <1>8, <1>9, Truncated
<1>11. SoundList(all) BY <1>8, <1>9 DEF SoundList
<1>12. all[1] = e /\ 1 \in DOMAIN all BY <1>3, <1>8
<1>13. KeysOf(list) \subseteq KeysOf(all)
  <2>1. NameKey[name] \in KeysOf(all) BY <1>2, <1>12 DEF KeysOf
  <2>2. KeysOf(rest) \subseteq KeysOf(all) BY <1>8 DEF KeysOf
  <2> QED BY <2>1, <2>2, <1>5
<1>14. \A k \in DOMAIN all : (\E i \in DOMAIN list : all[k] = list[i]) \/ FilterView(all[k].filters) = FilterView(f)
  BY <1>2, <1>3, <1>5, <1>8
<1>15. all[1].name = name BY <1>2, <1>12
<1> HIDE DEF r
<1> QED BY <1>1, <1>10, <1>11, <1>12, <1>13, <1>14, <1>15

\* Renaming: the filters stay, and one key may change.
LEMMA Renamed ==
  ASSUME NEW list, SoundList(list), NEW old \in Names, NEW new \in Names,
         \E i \in DOMAIN list : list[i].name = old,
         \A i \in DOMAIN list : list[i].name = old \/ NameKey[list[i].name] # NameKey[new]
  PROVE  LET r == renameSavedFilter(list, old, new)
         IN  /\ SoundList(r) /\ KeysOf(list) \subseteq KeysOf(r) \union {NameKey[old]}
             /\ \E i \in DOMAIN r : r[i].name = new
             /\ \A k \in DOMAIN r : k \in DOMAIN list /\ r[k].filters = list[k].filters
<1> DEFINE n == Len(list)
           r == [i \in DOMAIN list |-> IF NameKey[list[i].name] = NameKey[old] THEN [list[i] EXCEPT !.name = new] ELSE list[i]]
<1>0. list \in Seq(SavedEntry) /\ n <= SavedLimit /\ Normal(list) /\ DistinctKeys(list) BY DEF SoundList
<1>1. n \in Nat /\ DOMAIN list = 1..n BY <1>0
<1>2. ~(NameKey[old] # NameKey[new] /\ NameKey[new] \in KeysOf(list)) BY DEF KeysOf
<1>3. renameSavedFilter(list, old, new) = r BY <1>2 DEF renameSavedFilter
<1>4. DOMAIN r = 1..n BY <1>1
<1>5. ASSUME NEW k \in 1..n
      PROVE  /\ r[k] \in SavedEntry /\ r[k].filters = list[k].filters
             /\ r[k].name = IF NameKey[list[k].name] = NameKey[old] THEN new ELSE list[k].name
  <2> DEFINE e == list[k]
  <2>1. e \in SavedEntry BY <1>0, <1>1
  <2>2. r[k] = IF NameKey[e.name] = NameKey[old] THEN [e EXCEPT !.name = new] ELSE e BY <1>1
  <2> HIDE DEF e, r
  <2>3. e.name \in Names /\ e.filters \in Filters /\ e = [name |-> e.name, filters |-> e.filters] BY <2>1 DEF SavedEntry
  <2>4. [e EXCEPT !.name = new] = [name |-> new, filters |-> e.filters] BY <2>3
  <2>5. [name |-> new, filters |-> e.filters] \in SavedEntry BY <2>3 DEF SavedEntry
  <2> QED BY <2>1, <2>2, <2>3, <2>4, <2>5 DEF e
<1>6. r = [i \in DOMAIN r |-> r[i]] OBVIOUS
<1> HIDE DEF r, n
<1>7. r \in [1..n -> SavedEntry]
  <2>1. r = [i \in 1..n |-> r[i]] BY <1>4, <1>6
  <2> QED BY <2>1, <1>5
<1>8. r \in Seq(SavedEntry) /\ Len(r) = n BY <1>1, <1>7
<1>9. Normal(r) BY <1>0, <1>1, <1>4, <1>5 DEF Normal
<1>10. DistinctKeys(r)
  <2>1. SUFFICES ASSUME NEW i \in 1..n, NEW j \in 1..n, NameKey[r[i].name] = NameKey[r[j].name] PROVE i = j
    BY <1>4 DEF DistinctKeys
  <2>2. SUFFICES NameKey[list[i].name] = NameKey[list[j].name] BY <1>0, <1>1 DEF DistinctKeys
  <2>3. CASE NameKey[list[i].name] = NameKey[old] /\ NameKey[list[j].name] # NameKey[old]
    <3>1. NameKey[list[j].name] = NameKey[new] BY <2>1, <2>3, <1>5
    <3> QED BY <3>1, <2>3, <1>1
  <2>4. CASE NameKey[list[j].name] = NameKey[old] /\ NameKey[list[i].name] # NameKey[old]
    <3>1. NameKey[list[i].name] = NameKey[new] BY <2>1, <2>4, <1>5
    <3> QED BY <3>1, <2>4, <1>1
  <2> QED BY <2>1, <2>3, <2>4, <1>5
<1>11. SoundList(r) BY <1>0, <1>8, <1>9, <1>10 DEF SoundList, n
<1>12. \E i \in DOMAIN r : r[i].name = new BY <1>1, <1>4, <1>5
<1>13. KeysOf(list) \subseteq KeysOf(r) \union {NameKey[old]} BY <1>1, <1>4, <1>5 DEF KeysOf
<1> QED BY <1>1, <1>3, <1>4, <1>5, <1>11, <1>12, <1>13


(* The list, its copy in the storage and the preview of a backup are sound *)
(* lists, and the selected name is one of the list.                        *)
SFInv ==
    sf # Unmounted =>
      /\ DOMAIN sf = {"list", "selected", "current", "pending", "reading", "stored", "errors"}
      /\ SoundList(sf.list) /\ SoundList(sf.stored)
      /\ sf.selected \in Names \union {NoName}
      /\ sf.selected # NoName => \E i \in DOMAIN sf.list : sf.list[i].name = sf.selected
      /\ sf.current \in Filters /\ sf.reading \subseteq FilterFiles
      /\ DOMAIN sf.pending = {"list", "mode"} /\ SoundList(sf.pending.list)
      /\ sf.pending.mode \in {"none", "merge", "replace"}

(* What NoSilentLoss and SavedAsShown say of a step of the page. *)
LossIsAnnounced ==
    LET lost == KeysOf(sf.list) \ KeysOf(sf'.list)
    IN  lost # {} =>
          \/ lost \subseteq PreviewOmitted
          \/ sf.pending.mode = "replace" /\ sf'.pending.mode = "none"
          \/ sf.selected \in Names /\ lost = {NameKey[sf.selected]}
          \/ sf'.list = << >>
ShownIsSaved ==
    \A i \in DOMAIN sf'.list :
      \/ \E j \in DOMAIN sf.list : sf.list[j].filters = sf'.list[i].filters
      \/ FilterView(sf'.list[i].filters) = FilterView(sf.current)
      \/ \E j \in DOMAIN sf.pending.list : sf.pending.list[j] = sf'.list[i]

LEMMA EmptyIsSound == SoundList(<< >>) /\ KeysOf(<< >>) = {}
<1>1. << >> \in Seq(SavedEntry) /\ Len(<< >>) = 0 /\ DOMAIN << >> = {} OBVIOUS
<1>2. 0 <= SavedLimit BY SavedFiltersAssumption
<1> QED BY <1>1, <1>2 DEF SoundList, Normal, DistinctKeys, KeysOf

LEMMA SFMountedInv == ASSUME SFMounted PROVE SFInv
<1>1. PICK stored \in {<< >>} \union {normalizeSavedFilters(b) : b \in FilterFiles} :
      sf = [list |-> stored, selected |-> NoName,
            current |-> [period |-> "all", date |-> 0],
            pending |-> NoRestore, reading |-> {},
            stored |-> stored, errors |-> 0]
  BY DEF SFMounted
<1>2. SoundList(stored) BY EmptyIsSound, NormalisedIsSound, SavedFiltersAssumption
<1>3. [period |-> "all", date |-> 0] \in Filters BY DEF Filters
<1>4. DOMAIN NoRestore = {"list", "mode"} /\ SoundList(NoRestore.list) /\ NoRestore.mode = "none" BY EmptyIsSound DEF NoRestore
<1> QED BY <1>1, <1>2, <1>3, <1>4 DEF SFInv

\* A step that leaves the list and its copy as they are.
LEMMA ListUntouched ==
  ASSUME SFInv, sf # Unmounted, DOMAIN sf' = DOMAIN sf, sf'.list = sf.list, SoundList(sf'.stored),
         sf'.selected = sf.selected \/ (\E i \in DOMAIN sf.list : sf.list[i].name = sf'.selected),
         sf'.selected \in Names \union {NoName},
         sf'.current \in Filters, sf'.reading \subseteq FilterFiles,
         DOMAIN sf'.pending = {"list", "mode"}, SoundList(sf'.pending.list),
         sf'.pending.mode \in {"none", "merge", "replace"}
  PROVE  SFInv' /\ LossIsAnnounced /\ ShownIsSaved
<1>1. SFInv' BY DEF SFInv, SoundList, Normal, DistinctKeys
<1>2. LossIsAnnounced BY DEF LossIsAnnounced
<1>3. ShownIsSaved BY DEF ShownIsSaved
<1> QED BY <1>1, <1>2, <1>3

\* A list that is stored, or an error of the storage.
LEMMA PersistStep ==
  ASSUME SFInv, sf # Unmounted, NEW next, SoundList(next), NEW done, NEW setsSort, Persist(next, done, setsSort),
         DOMAIN done = DOMAIN sf, done.current = sf.current, done.reading = sf.reading,
         DOMAIN done.pending = {"list", "mode"}, SoundList(done.pending.list),
         done.pending.mode \in {"none", "merge", "replace"},
         done.selected \in Names \union {NoName},
         done.selected # NoName => \E i \in DOMAIN next : next[i].name = done.selected,
         (sf'.list = next /\ sf'.pending = done.pending) => LossIsAnnounced /\ ShownIsSaved
  PROVE  SFInv' /\ LossIsAnnounced /\ ShownIsSaved
<1>1. DOMAIN sf = {"list", "selected", "current", "pending", "reading", "stored", "errors"} BY DEF SFInv
<1>2. CASE sf' = [done EXCEPT !.list = next, !.stored = next]
  <2>1. /\ DOMAIN sf' = DOMAIN sf /\ sf'.list = next /\ sf'.stored = next /\ sf'.selected = done.selected
        /\ sf'.current = sf.current /\ sf'.reading = sf.reading /\ sf'.pending = done.pending
    BY <1>1, <1>2
  <2>2. SFInv' BY <1>1, <2>1 DEF SFInv, SoundList, Normal, DistinctKeys
  <2> QED BY <2>1, <2>2
<1>3. CASE \E kept \in {sf.stored} \union (IF setsSort THEN {next} ELSE {}) :
             sf' = [sf EXCEPT !.errors = @ + 1, !.stored = kept]
  <2>1. PICK kept \in {sf.stored} \union {next} : sf' = [sf EXCEPT !.errors = @ + 1, !.stored = kept] BY <1>3
  <2>2. /\ DOMAIN sf' = DOMAIN sf /\ sf'.list = sf.list /\ sf'.stored = kept /\ sf'.selected = sf.selected
        /\ sf'.current = sf.current /\ sf'.reading = sf.reading /\ sf'.pending = sf.pending
    BY <1>1, <2>1
  <2>3. SoundList(kept) BY <2>1 DEF SFInv
  <2>4. SoundList(sf'.stored) BY <2>2, <2>3
  <2>5. SoundList(sf'.pending.list) /\ DOMAIN sf'.pending = {"list", "mode"}
        /\ sf'.pending.mode \in {"none", "merge", "replace"} /\ sf'.current \in Filters
        /\ sf'.reading \subseteq FilterFiles /\ sf'.selected \in Names \union {NoName}
    BY <2>2 DEF SFInv
  <2> QED BY <2>2, <2>4, <2>5, ListUntouched
<1> QED BY <1>2, <1>3 DEF Persist

(* Each action keeps the invariant, loses nothing silently and saves what  *)
(* was on the screen.                                                      *)
LEMMA SFStep == ASSUME SFInv, sf # Unmounted, SFNext PROVE SFInv' /\ LossIsAnnounced /\ ShownIsSaved
<1> DEFINE Goal == SFInv' /\ LossIsAnnounced /\ ShownIsSaved
<1>1. /\ DOMAIN sf = {"list", "selected", "current", "pending", "reading", "stored", "errors"}
      /\ SoundList(sf.list) /\ SoundList(sf.stored)
      /\ sf.selected \in Names \union {NoName}
      /\ sf.selected # NoName => \E i \in DOMAIN sf.list : sf.list[i].name = sf.selected
      /\ sf.current \in Filters /\ sf.reading \subseteq FilterFiles
      /\ DOMAIN sf.pending = {"list", "mode"} /\ SoundList(sf.pending.list)
      /\ sf.pending.mode \in {"none", "merge", "replace"}
  BY DEF SFInv
<1>2. SoundList(NoRestore.list) /\ DOMAIN NoRestore = {"list", "mode"} /\ NoRestore.mode = "none"
  BY EmptyIsSound DEF NoRestore
<1>3. \A i \in DOMAIN sf.list : sf.list[i].name \in Names /\ sf.list[i].filters \in Filters
  <2>1. sf.list \in Seq(SavedEntry) BY <1>1 DEF SoundList
  <2>2. \A i \in DOMAIN sf.list : sf.list[i] \in SavedEntry BY <2>1
  <2> QED BY <2>2 DEF SavedEntry
<1>4. ASSUME NEW f \in Filters, ChangeFilters(f) PROVE Goal
  <2>1. sf' = [sf EXCEPT !.current = f] BY <1>4 DEF ChangeFilters
  <2>2. /\ DOMAIN sf' = DOMAIN sf /\ sf'.list = sf.list /\ sf'.stored = sf.stored /\ sf'.selected = sf.selected
        /\ sf'.current = f /\ sf'.reading = sf.reading /\ sf'.pending = sf.pending
    BY <1>1, <2>1
  <2> QED BY <1>1, <2>2, ListUntouched
<1>5. ASSUME NEW name \in Names, SelectSaved(name) PROVE Goal
  <2>1. sf' = [sf EXCEPT !.selected = name] /\ \E i \in DOMAIN sf.list : sf.list[i].name = name BY <1>5 DEF SelectSaved
  <2>2. /\ DOMAIN sf' = DOMAIN sf /\ sf'.list = sf.list /\ sf'.stored = sf.stored /\ sf'.selected = name
        /\ sf'.current = sf.current /\ sf'.reading = sf.reading /\ sf'.pending = sf.pending
    BY <1>1, <2>1
  <2> QED BY <1>1, <2>1, <2>2, ListUntouched
<1>6. ASSUME NEW name \in Names, SaveFilter(name) PROVE Goal
  <2> DEFINE next == upsertSavedFilter(sf.list, name, sf.current)  done == [sf EXCEPT !.selected = name]
  <2>1. Persist(next, done, FALSE) /\ ~(Len(sf.list) >= SavedLimit /\ NameKey[name] \notin KeysOf(sf.list))
    BY <1>6 DEF SaveFilter, isNewFilterAtLimit
  <2>2. /\ SoundList(next) /\ KeysOf(sf.list) \subseteq KeysOf(next) /\ \E i \in DOMAIN next : next[i].name = name
        /\ \A k \in DOMAIN next : \/ \E i \in DOMAIN sf.list : next[k] = sf.list[i]
                                  \/ FilterView(next[k].filters) = FilterView(sf.current)
    BY <1>1, <2>1, Saved
  <2> HIDE DEF next
  <2>3. /\ DOMAIN done = DOMAIN sf /\ done.current = sf.current /\ done.reading = sf.reading
        /\ done.pending = sf.pending /\ done.selected = name
    BY <1>1
  <2> HIDE DEF done
  <2>4. ASSUME sf'.list = next PROVE LossIsAnnounced /\ ShownIsSaved
    BY <2>2, <2>4 DEF LossIsAnnounced, ShownIsSaved
  <2> QED BY <1>1, <2>1, <2>2, <2>3, <2>4, PersistStep
<1>7. CASE ApplySaved
  <2>1. PICK i \in DOMAIN sf.list : sf' = [sf EXCEPT !.current = normalizeFilters(sf.list[i].filters)] BY <1>7 DEF ApplySaved
  <2>2. normalizeFilters(sf.list[i].filters) \in Filters BY <1>3, NormalFilters
  <2>3. /\ DOMAIN sf' = DOMAIN sf /\ sf'.list = sf.list /\ sf'.stored = sf.stored /\ sf'.selected = sf.selected
        /\ sf'.current = normalizeFilters(sf.list[i].filters) /\ sf'.reading = sf.reading /\ sf'.pending = sf.pending
    BY <1>1, <2>1
  <2> QED BY <1>1, <2>2, <2>3, ListUntouched
<1>8. CASE RemoveSaved
  <2> DEFINE key == NameKey[sf.selected]  next == WithoutKey(sf.list, key)  done == [sf EXCEPT !.selected = NoName]
  <2>1. sf.selected # NoName /\ Persist(next, done, FALSE) BY <1>8 DEF RemoveSaved, removeSavedFilter
  <2>2. /\ SoundList(next) /\ KeysOf(sf.list) \subseteq KeysOf(next) \union {key}
        /\ \A k \in DOMAIN next : \E i \in DOMAIN sf.list : next[k] = sf.list[i]
    BY <1>1, KeyDropped
  <2> HIDE DEF next
  <2>3. /\ DOMAIN done = DOMAIN sf /\ done.current = sf.current /\ done.reading = sf.reading
        /\ done.pending = sf.pending /\ done.selected = NoName
    BY <1>1
  <2> HIDE DEF done
  <2>4. ASSUME sf'.list = next PROVE LossIsAnnounced /\ ShownIsSaved
    <3>1. sf.selected \in Names BY <1>1, <2>1
    <3>2. KeysOf(sf.list) \ KeysOf(sf'.list) \subseteq {key} BY <2>2, <2>4
    <3> QED BY <2>2, <2>4, <3>1, <3>2 DEF LossIsAnnounced, ShownIsSaved
  <2> QED BY <1>1, <2>1, <2>2, <2>3, <2>4, PersistStep
<1>9. CASE ClearAllSaved
  <2> DEFINE done == [sf EXCEPT !.selected = NoName]
  <2>1. Persist(<< >>, done, FALSE) BY <1>9 DEF ClearAllSaved
  <2>2. SoundList(<< >>) BY EmptyIsSound
  <2>3. /\ DOMAIN done = DOMAIN sf /\ done.current = sf.current /\ done.reading = sf.reading
        /\ done.pending = sf.pending /\ done.selected = NoName
    BY <1>1
  <2> HIDE DEF done
  <2>4. ASSUME sf'.list = << >> PROVE LossIsAnnounced /\ ShownIsSaved
    BY <2>4 DEF LossIsAnnounced, ShownIsSaved
  <2> QED BY <1>1, <2>1, <2>2, <2>3, <2>4, PersistStep
<1>10. ASSUME NEW name \in Names, RenameSaved(name) PROVE Goal
  <2> DEFINE next == renameSavedFilter(sf.list, sf.selected, name)  done == [sf EXCEPT !.selected = name]
  <2>1. /\ sf.selected # NoName /\ Persist(next, done, FALSE)
        /\ \A i \in DOMAIN sf.list : sf.list[i].name = sf.selected \/ NameKey[sf.list[i].name] # NameKey[name]
    BY <1>10 DEF RenameSaved
  <2>0. sf.selected \in Names /\ \E i \in DOMAIN sf.list : sf.list[i].name = sf.selected BY <1>1, <2>1
  <2>2. /\ SoundList(next) /\ KeysOf(sf.list) \subseteq KeysOf(next) \union {NameKey[sf.selected]}
        /\ \E i \in DOMAIN next : next[i].name = name
        /\ \A k \in DOMAIN next : k \in DOMAIN sf.list /\ next[k].filters = sf.list[k].filters
    BY <1>1, <2>0, <2>1, Renamed
  <2> HIDE DEF next
  <2>3. /\ DOMAIN done = DOMAIN sf /\ done.current = sf.current /\ done.reading = sf.reading
        /\ done.pending = sf.pending /\ done.selected = name
    BY <1>1
  <2> HIDE DEF done
  <2>4. ASSUME sf'.list = next PROVE LossIsAnnounced /\ ShownIsSaved
    <3>1. KeysOf(sf.list) \ KeysOf(sf'.list) \subseteq {NameKey[sf.selected]} BY <2>2, <2>4
    <3> QED BY <2>0, <2>2, <2>4, <3>1 DEF LossIsAnnounced, ShownIsSaved
  <2> QED BY <1>1, <2>1, <2>2, <2>3, <2>4, PersistStep
<1>11. ASSUME NEW file \in FilterFiles, ChooseFile(file) PROVE Goal
  <2>1. PICK reading \in {sf.reading, sf.reading \union {file}} : sf' = [sf EXCEPT !.pending = NoRestore, !.reading = reading]
    BY <1>11 DEF ChooseFile
  <2>2. /\ DOMAIN sf' = DOMAIN sf /\ sf'.list = sf.list /\ sf'.stored = sf.stored /\ sf'.selected = sf.selected
        /\ sf'.current = sf.current /\ sf'.reading = reading /\ sf'.pending = NoRestore
    BY <1>1, <2>1
  <2>3. reading \subseteq FilterFiles BY <1>1, <2>1
  <2> QED BY <1>1, <1>2, <2>2, <2>3, ListUntouched
<1>12. ASSUME NEW file \in FilterFiles, FileRead(file) PROVE Goal
  <2> DEFINE back == normalizeSavedFilters(file)
             opened == [list |-> back, mode |-> IF Len(back) = 1 THEN "merge" ELSE "replace"]
  <2>1. PICK preview \in {sf.pending, opened} : sf' = [sf EXCEPT !.reading = @ \ {file}, !.pending = preview]
    BY <1>12 DEF FileRead
  <2>2. SoundList(back) BY NormalisedIsSound, SavedFiltersAssumption
  <2>3. DOMAIN opened = {"list", "mode"} /\ opened.list = back /\ opened.mode \in {"merge", "replace"} OBVIOUS
  <2> HIDE DEF back, opened
  <2>4. DOMAIN preview = {"list", "mode"} /\ SoundList(preview.list)
        /\ preview.mode \in {"none", "merge", "replace"}
    BY <1>1, <2>1, <2>2, <2>3
  <2>5. /\ DOMAIN sf' = DOMAIN sf /\ sf'.list = sf.list /\ sf'.stored = sf.stored /\ sf'.selected = sf.selected
        /\ sf'.current = sf.current /\ sf'.reading = sf.reading \ {file} /\ sf'.pending = preview
    BY <1>1, <2>1
  <2> QED BY <1>1, <2>4, <2>5, ListUntouched
<1>13. ASSUME NEW mode \in {"merge", "replace"}, ChangeRestoreMode(mode) PROVE Goal
  <2>0. sf' = [sf EXCEPT !.pending.mode = mode] BY <1>13 DEF ChangeRestoreMode
  <2> DEFINE preview == [sf.pending EXCEPT !.mode = mode]
  <2>1. sf' = [sf EXCEPT !.pending = preview] BY <1>1, <2>0
  <2>3. DOMAIN preview = {"list", "mode"} /\ preview.list = sf.pending.list /\ preview.mode = mode BY <1>1
  <2> HIDE DEF preview
  <2>2. /\ DOMAIN sf' = DOMAIN sf /\ sf'.list = sf.list /\ sf'.stored = sf.stored /\ sf'.selected = sf.selected
        /\ sf'.current = sf.current /\ sf'.reading = sf.reading
        /\ sf'.pending = preview
    BY <1>1, <2>1
  <2> QED BY <1>1, <2>2, <2>3, ListUntouched
<1>14. CASE CancelRestore
  <2>1. sf' = [sf EXCEPT !.pending = NoRestore] BY <1>14 DEF CancelRestore
  <2>2. /\ DOMAIN sf' = DOMAIN sf /\ sf'.list = sf.list /\ sf'.stored = sf.stored /\ sf'.selected = sf.selected
        /\ sf'.current = sf.current /\ sf'.reading = sf.reading /\ sf'.pending = NoRestore
    BY <1>1, <2>1
  <2> QED BY <1>1, <1>2, <2>2, ListUntouched
<1>15. CASE RestoreBackup
  <2> DEFINE next == RestoreResult  done == [sf EXCEPT !.selected = NoName, !.pending = NoRestore]
             merged == mergeSavedFilters(sf.list, sf.pending.list)
  <2>1. sf.pending.mode # "none" /\ Persist(next, done, TRUE) BY <1>15 DEF RestoreBackup
  <2>2. /\ SoundList(merged.filters)
        /\ KeysOf(sf.list) \subseteq KeysOf(merged.filters) \union KeysOf(merged.omitted)
        /\ TakenFrom(merged.filters, sf.list, sf.pending.list)
    <3>1. SoundList(sf.list) /\ SoundList(sf.pending.list) BY <1>1
    <3> QED BY <3>1, Merged
  <2>3. next = (IF sf.pending.mode = "merge" THEN merged.filters ELSE sf.pending.list)
        /\ PreviewOmitted = (IF sf.pending.mode = "merge" THEN KeysOf(merged.omitted) ELSE {})
    BY DEF RestoreResult, PreviewOmitted
  <2> HIDE DEF next, merged
  <2>4. /\ DOMAIN done = DOMAIN sf /\ done.current = sf.current /\ done.reading = sf.reading
        /\ done.pending = NoRestore /\ done.selected = NoName
    BY <1>1
  <2> HIDE DEF done
  <2>5. SoundList(next) BY <1>1, <2>2, <2>3
  <2>6. ASSUME sf'.list = next, sf'.pending = NoRestore PROVE LossIsAnnounced /\ ShownIsSaved
    <3>1. CASE sf.pending.mode = "merge"
      <4>1. next = merged.filters /\ PreviewOmitted = KeysOf(merged.omitted) BY <2>3, <3>1
      <4>2. KeysOf(sf.list) \ KeysOf(sf'.list) \subseteq PreviewOmitted BY <2>2, <2>6, <4>1
      <4>3. ShownIsSaved BY <2>2, <2>6, <4>1 DEF ShownIsSaved, TakenFrom
      <4> QED BY <4>2, <4>3 DEF LossIsAnnounced
    <3>2. CASE sf.pending.mode # "merge"
      <4>1. next = sf.pending.list BY <2>3, <3>2
      <4>2. ShownIsSaved BY <2>6, <4>1 DEF ShownIsSaved
      <4>3. sf.pending.mode = "replace" BY <1>1, <2>1, <3>2
      <4>4. sf'.pending.mode = "none" BY <1>2, <2>6
      <4> QED BY <4>2, <4>3, <4>4 DEF LossIsAnnounced
    <3> QED BY <3>1, <3>2
  <2> QED BY <1>1, <1>2, <2>1, <2>4, <2>5, <2>6, PersistStep
<1> QED BY <1>4, <1>5, <1>6, <1>7, <1>8, <1>9, <1>10, <1>11, <1>12, <1>13, <1>14, <1>15 DEF SFNext


\* As many keys as entries.
LEMMA KeysCounted == ASSUME NEW list, SoundList(list) PROVE Cardinality(KeysOf(list)) = Len(list)
<1> DEFINE n == Len(list)  key == [i \in 1..n |-> NameKey[list[i].name]]
<1>1. n \in Nat /\ DOMAIN list = 1..n /\ DistinctKeys(list) BY DEF SoundList
<1>2. DOMAIN key = 1..n /\ \A i \in 1..n : key[i] = NameKey[list[i].name] OBVIOUS
<1>3. KeysOf(list) = {key[i] : i \in 1..n} BY <1>1 DEF KeysOf
<1>4. key \in [1..n -> KeysOf(list)] BY <1>1 DEF KeysOf
<1> HIDE DEF n, key
<1>5. key \in Injection(1..n, KeysOf(list)) BY <1>1, <1>2, <1>4 DEF Injection, IsInjective, DistinctKeys
<1>6. key \in Surjection(1..n, KeysOf(list)) BY <1>3, <1>4 DEF Surjection
<1>7. ExistsBijection(1..n, KeysOf(list)) BY <1>5, <1>6 DEF ExistsBijection, Bijection
<1>8. Cardinality(KeysOf(list)) = n BY <1>1, <1>7, FS_CountingElements
<1> QED BY <1>8 DEF n

LEMMA SFShown == ASSUME SFInv PROVE SavedFiltersConsistent
<1> SUFFICES ASSUME sf # Unmounted
             PROVE  /\ \A list \in {sf.list, sf.stored} :
                         Len(list) <= SavedLimit /\ Cardinality(KeysOf(list)) = Len(list)
                    /\ sf.selected # NoName => \E i \in DOMAIN sf.list : sf.list[i].name = sf.selected
  BY DEF SavedFiltersConsistent
<1>1. SoundList(sf.list) /\ SoundList(sf.stored) BY DEF SFInv
<1>2. \A list \in {sf.list, sf.stored} : Len(list) <= SavedLimit /\ Cardinality(KeysOf(list)) = Len(list)
  BY <1>1, KeysCounted DEF SoundList
<1> QED BY <1>2 DEF SFInv

-----------------------------------------------------------------------------
(* The service form (ServiceForm). *)

ServiceFields ==
    {"auth", "key", "group", "basic", "creds", "tls", "redirect", "https", "skip", "rateOn", "rate", "until"}

(* A service as the backend stores it, or as the empty form has it. *)
StoredSound(s) ==
    /\ DOMAIN s = ServiceFields
    /\ s.auth \in AuthModes
    /\ (s.auth = "token") = (s.key # NoKey)
    /\ s.group # NoGroup => s.auth = "authentik"
    /\ s.basic \in BOOLEAN /\ (s.basic => s.auth = "none")
    /\ s.creds = IF s.basic THEN "stored" ELSE "blank"
    /\ s.redirect \in BOOLEAN /\ (s.redirect => s.tls)
    /\ s.skip \in BOOLEAN /\ (s.skip => s.https)
    /\ s.https \in BOOLEAN /\ s.tls \in BOOLEAN /\ s.rateOn \in BOOLEAN
    /\ s.rateOn = (s.rate # "unset")
    /\ DOMAIN s.until = {"minute", "second"} /\ s.until.minute \in Nat

(* What the effects keep in line in the form. *)
FormSound(f) ==
    /\ DOMAIN f = ServiceFields
    /\ f.redirect => f.tls
    /\ f.auth # "authentik" => f.group = NoGroup
    /\ f.auth # "none" => ~f.basic
    /\ f.auth = "token" => f.key # NoKey
    /\ f.skip => f.https

PayloadSound(p) ==
    /\ (p.auth = "token") = (p.key # NoKey)
    /\ p.basic => p.auth = "none"
    /\ p.redirect => p.tls
    /\ p.skip => p.https
    /\ p.rateOn => p.rate = "5"

ToTheMinute(s) == [s EXCEPT !.until = [minute |-> @.minute, second |-> 0]]

(* A form that nobody touched is the stored service, and what was sent is  *)
(* consistent; without a touch it is the service that was loaded.          *)
FOInv ==
    fo # Unmounted =>
      /\ DOMAIN fo = {"stored", "form", "touched", "modal", "upstream", "submit"}
      /\ StoredSound(fo.stored) /\ FormSound(fo.form)
      /\ ~fo.touched => fo.form = createServiceFormDefaultValues(fo.stored)
      /\ fo.submit # NoSubmit =>
           /\ PayloadSound(fo.submit.payload)
           /\ ~fo.touched => fo.submit.payload = ToTheMinute(fo.submit.over)

\* The services a form can be opened with.
LEMMA StoredAreSound == \A s \in StoredServices \union {NewService} : StoredSound(s)
<1>1. ASSUME NEW s \in StoredServices PROVE StoredSound(s)
  <2>1. s \in Storable BY StoredServicesAssumption
  <2>2. /\ DOMAIN s = ServiceFields /\ s.auth \in AuthModes /\ s.basic \in BOOLEAN /\ s.creds \in {"blank", "stored"}
        /\ s.redirect \in BOOLEAN /\ s.skip \in BOOLEAN /\ s.https \in BOOLEAN /\ s.tls \in BOOLEAN
        /\ s.rateOn \in BOOLEAN /\ s.until = [minute |-> 1, second |-> 30]
    BY <2>1 DEF Storable, ServiceFields
  <2>3. /\ (s.auth = "token") = (s.key # NoKey)
        /\ s.group # NoGroup => s.auth = "authentik"
        /\ s.basic => s.auth = "none"
        /\ s.basic = (s.creds = "stored")
        /\ s.redirect => s.tls
        /\ s.skip => s.https
        /\ s.rateOn = (s.rate # "unset")
    BY <2>1 DEF Storable
  <2>4. DOMAIN s.until = {"minute", "second"} /\ s.until.minute = 1 BY <2>2
  <2>5. s.creds = IF s.basic THEN "stored" ELSE "blank" BY <2>2, <2>3
  <2> QED BY <2>2, <2>3, <2>4, <2>5 DEF StoredSound
<1>2. StoredSound(NewService)
  <2> DEFINE s == NewService
  <2>1. /\ DOMAIN s = ServiceFields /\ s.auth = "none" /\ s.key = NoKey /\ s.group = NoGroup /\ s.basic = FALSE
        /\ s.creds = "blank" /\ s.rate = "unset" /\ s.rateOn = FALSE /\ s.skip = FALSE
        /\ s.redirect \in BOOLEAN /\ s.tls \in BOOLEAN /\ s.https \in BOOLEAN
        /\ (s.redirect => s.tls)
        /\ DOMAIN s.until = {"minute", "second"} /\ s.until.minute \in Nat
    BY DEF NewService, ServiceFields
  <2> HIDE DEF s
  <2>2. StoredSound(s) BY <2>1 DEF StoredSound, AuthModes
  <2> QED BY <2>2 DEF s
<1> QED BY <1>1, <1>2

\* What the form makes of a stored service, field by field.
LEMMA DefaultFields ==
  ASSUME NEW s, StoredSound(s)
  PROVE  LET f == createServiceFormDefaultValues(s)
         IN  /\ FormSound(f) /\ f.until = toKoreanDateTimeLocal(s.until)
             /\ \A k \in ServiceFields \ {"until"} : f[k] = s[k]
             /\ f.auth = "none" \/ (~f.basic /\ f.creds = "blank")
<1> DEFINE f == createServiceFormDefaultValues(s)
<1>1. DOMAIN s = ServiceFields BY DEF StoredSound
<1>2. DOMAIN f = ServiceFields /\ f.until = toKoreanDateTimeLocal(s.until) /\ \A k \in ServiceFields \ {"until"} : f[k] = s[k]
  BY <1>1 DEF createServiceFormDefaultValues, ServiceFields
<1> HIDE DEF f
<1>3. /\ f.auth = s.auth /\ f.key = s.key /\ f.group = s.group /\ f.basic = s.basic /\ f.creds = s.creds
      /\ f.tls = s.tls /\ f.redirect = s.redirect /\ f.https = s.https /\ f.skip = s.skip
  BY <1>2 DEF ServiceFields
<1>4. FormSound(f) BY <1>2, <1>3 DEF FormSound, StoredSound
<1>5. f.auth = "none" \/ (~f.basic /\ f.creds = "blank") BY <1>3 DEF StoredSound
<1> QED BY <1>2, <1>4, <1>5 DEF f

\* The effects that run on mount find nothing to change.
LEMMA NothingToChange ==
  ASSUME NEW s, StoredSound(s)
  PROVE  MountEffects(createServiceFormDefaultValues(s)) = createServiceFormDefaultValues(s)
<1> DEFINE f == createServiceFormDefaultValues(s)
<1>1. FormSound(f) /\ (f.auth = "none" \/ (~f.basic /\ f.creds = "blank")) BY DefaultFields
<1>2. f.redirect \in BOOLEAN /\ f.basic \in BOOLEAN /\ f.skip \in BOOLEAN
  <2>1. \A k \in ServiceFields \ {"until"} : f[k] = s[k] BY DefaultFields
  <2> HIDE DEF f
  <2>2. f.redirect = s.redirect /\ f.basic = s.basic /\ f.skip = s.skip BY <2>1 DEF ServiceFields
  <2> QED BY <2>2 DEF StoredSound
<1>3. f = [k \in ServiceFields |-> f[k]]
  <2>1. f = [k \in DOMAIN s |-> f[k]] BY DEF createServiceFormDefaultValues
  <2> QED BY <2>1 DEF StoredSound
<1> HIDE DEF f
<1>4. DropRedirect(f) = f
  <2>1. ~f.tls => f.redirect = FALSE BY <1>1, <1>2 DEF FormSound
  <2> QED BY <2>1, <1>3 DEF DropRedirect
<1>5. DropGroup(f) = f
  <2>1. f.auth # "authentik" => f.group = NoGroup BY <1>1 DEF FormSound
  <2> QED BY <2>1, <1>3 DEF DropGroup
<1>6. DropBasicAuth(f) = f
  <2>1. f.auth # "none" => f.basic = FALSE /\ f.creds = "blank" BY <1>1, <1>2
  <2> QED BY <2>1, <1>3 DEF DropBasicAuth
<1>7. GenerateKey(f) = f BY <1>1 DEF GenerateKey, FormSound
<1>8. DropSkipVerify(f) = f
  <2>1. ~f.https => f.skip = FALSE BY <1>1, <1>2 DEF FormSound
  <2> QED BY <2>1, <1>3 DEF DropSkipVerify
<1>9. MountEffects(f) = f BY <1>4, <1>5, <1>6, <1>7, <1>8 DEF MountEffects, AuthEffects
<1> QED BY <1>9 DEF f

LEMMA FOMountedInv == ASSUME FOMounted PROVE FOInv
<1>1. PICK stored \in StoredServices \union {NewService} :
        fo = [stored |-> stored, form |-> MountEffects(createServiceFormDefaultValues(stored)),
              touched |-> FALSE, modal |-> "closed", upstream |-> NoContainer,
              submit |-> NoSubmit]
  BY DEF FOMounted
<1>2. StoredSound(stored) BY StoredAreSound
<1> DEFINE f == createServiceFormDefaultValues(stored)
<1>3. FormSound(f) /\ MountEffects(f) = f BY <1>2, DefaultFields, NothingToChange
<1> HIDE DEF f
<1>4. /\ DOMAIN fo = {"stored", "form", "touched", "modal", "upstream", "submit"}
      /\ fo.stored = stored /\ fo.form = f /\ fo.submit = NoSubmit
  BY <1>1, <1>3 DEF f
<1> QED BY <1>2, <1>3, <1>4 DEF FOInv, f

\* What is sent of a sound form is consistent.
LEMMA SentIsSound ==
  ASSUME NEW f, FormSound(f), Issues(f) = {} PROVE PayloadSound(buildServiceSubmitPayload(f))
<1> DEFINE p == buildServiceSubmitPayload(f)
<1>1. DOMAIN f = ServiceFields BY DEF FormSound
<1>2. /\ p.auth = f.auth /\ p.basic = f.basic /\ p.redirect = f.redirect /\ p.tls = f.tls /\ p.https = f.https
      /\ p.rateOn = f.rateOn /\ p.skip = (f.https /\ f.skip) /\ p.key = (IF f.auth = "token" THEN f.key ELSE NoKey)
      /\ p.rate = IF f.rateOn THEN f.rate ELSE "unset"
  BY <1>1 DEF buildServiceSubmitPayload, ServiceFields
<1>3. f.rateOn => f.rate = "5"
  <2>1. "rate" \notin Issues(f) OBVIOUS
  <2> QED BY <2>1 DEF Issues
<1> HIDE DEF p
<1>4. (p.auth = "token") = (p.key # NoKey) BY <1>2 DEF FormSound
<1>5. p.basic => p.auth = "none" BY <1>2 DEF FormSound
<1>6. p.redirect => p.tls BY <1>2 DEF FormSound
<1>7. p.skip => p.https BY <1>2
<1>8. p.rateOn => p.rate = "5" BY <1>2, <1>3
<1> QED BY <1>4, <1>5, <1>6, <1>7, <1>8 DEF PayloadSound, p

\* An untouched form is sent as what was loaded.
LEMMA UntouchedIsSent ==
  ASSUME NEW s, StoredSound(s)
  PROVE  buildServiceSubmitPayload(createServiceFormDefaultValues(s)) = ToTheMinute(s)
<1> DEFINE f == createServiceFormDefaultValues(s)  p == buildServiceSubmitPayload(f)  t == ToTheMinute(s)
<1>1. DOMAIN s = ServiceFields /\ DOMAIN f = ServiceFields
      /\ f.until = toKoreanDateTimeLocal(s.until)
      /\ \A k \in ServiceFields \ {"until"} : f[k] = s[k]
  BY DefaultFields DEF StoredSound, FormSound
<1> HIDE DEF f
<1>2. /\ f.auth = s.auth /\ f.key = s.key /\ f.group = s.group /\ f.basic = s.basic /\ f.creds = s.creds
      /\ f.https = s.https /\ f.skip = s.skip /\ f.rateOn = s.rateOn /\ f.rate = s.rate
  BY <1>1 DEF ServiceFields
<1>3. /\ p = [k \in ServiceFields |-> p[k]] /\ p.skip = (f.https /\ f.skip) /\ p.key = (IF f.auth = "token" THEN f.key ELSE NoKey)
      /\ p.group = (IF f.auth = "authentik" THEN f.group ELSE NoGroup)
      /\ p.creds = (IF f.basic THEN f.creds ELSE "blank")
      /\ p.rate = (IF f.rateOn THEN f.rate ELSE "unset")
      /\ p.until = toMaintenanceUntilIso(f.until)
      /\ \A k \in ServiceFields \ {"skip", "key", "group", "creds", "rate", "until"} : p[k] = f[k]
  BY <1>1 DEF buildServiceSubmitPayload, ServiceFields
<1>4. t = [k \in ServiceFields |-> t[k]] /\ t.until = [minute |-> s.until.minute, second |-> 0]
      /\ \A k \in ServiceFields \ {"until"} : t[k] = s[k]
  BY <1>1 DEF ToTheMinute, ServiceFields
<1> HIDE DEF p, t
<1>5. p.until = t.until
  <2>1. f.until.minute = s.until.minute + 540 BY <1>1 DEF toKoreanDateTimeLocal
  <2>2. s.until.minute \in Nat BY DEF StoredSound
  <2>3. f.until.minute - 540 = s.until.minute BY <2>1, <2>2
  <2>4. toMaintenanceUntilIso(f.until) = [minute |-> s.until.minute, second |-> 0]
    BY <2>3 DEF toMaintenanceUntilIso
  <2> QED BY <2>4, <1>3, <1>4
<1>6. p.skip = s.skip BY <1>2, <1>3 DEF StoredSound
<1>7. p.key = s.key BY <1>2, <1>3 DEF StoredSound
<1>8. p.group = s.group BY <1>2, <1>3 DEF StoredSound
<1>9. p.creds = s.creds BY <1>2, <1>3 DEF StoredSound
<1>10. p.rate = s.rate BY <1>2, <1>3 DEF StoredSound
<1>11. ASSUME NEW k \in ServiceFields PROVE p[k] = t[k]
  <2>1. CASE k \in {"skip", "key", "group", "creds", "rate"}
    <3>1. t[k] = s[k] BY <1>4, <2>1 DEF ServiceFields
    <3>2. p[k] = s[k] BY <2>1, <1>6, <1>7, <1>8, <1>9, <1>10
    <3> QED BY <3>1, <3>2
  <2>2. CASE k = "until" BY <2>2, <1>5
  <2>3. CASE k \notin {"skip", "key", "group", "creds", "rate", "until"} BY <2>3, <1>1, <1>3, <1>4
  <2> QED BY <2>1, <2>2, <2>3
<1> QED BY <1>3, <1>4, <1>11 DEF p, t, f

\* The effects of a change of the authentication.
LEMMA AuthInLine ==
  ASSUME NEW f, FormSound(f), NEW mode PROVE FormSound(AuthEffects([f EXCEPT !.auth = mode]))
<1> DEFINE a == [f EXCEPT !.auth = mode]  b == DropGroup(a)  c == DropBasicAuth(b)  d == GenerateKey(c)
<1>1. DOMAIN a = ServiceFields /\ (a.redirect => a.tls) /\ (a.skip => a.https)
  BY DEF FormSound, ServiceFields
<1> HIDE DEF a
<1>2. DOMAIN b = ServiceFields /\ (b.redirect => b.tls) /\ (b.skip => b.https) /\ (b.auth # "authentik" => b.group = NoGroup)
  BY <1>1 DEF DropGroup, ServiceFields
<1> HIDE DEF b
<1>3. DOMAIN c = ServiceFields /\ (c.redirect => c.tls) /\ (c.skip => c.https) /\ (c.auth # "authentik" => c.group = NoGroup)
      /\ (c.auth # "none" => ~c.basic)
  BY <1>2 DEF DropBasicAuth, ServiceFields
<1> HIDE DEF c
<1>4. DOMAIN d = ServiceFields /\ (d.redirect => d.tls) /\ (d.skip => d.https) /\ (d.auth # "authentik" => d.group = NoGroup)
      /\ (d.auth # "none" => ~d.basic) /\ (d.auth = "token" => d.key # NoKey)
  BY <1>3 DEF GenerateKey, ServiceFields, NoKey
<1> HIDE DEF d
<1>5. FormSound(d) BY <1>4 DEF FormSound
<1> QED BY <1>5 DEF AuthEffects, a, b, c, d

(* Each action keeps the invariant. *)
LEMMA FOStep == ASSUME FOInv, fo # Unmounted, FONext PROVE FOInv'
<1> DEFINE F == {"stored", "form", "touched", "modal", "upstream", "submit"}
<1>1. /\ DOMAIN fo = F /\ StoredSound(fo.stored) /\ FormSound(fo.form)
      /\ ~fo.touched => fo.form = createServiceFormDefaultValues(fo.stored)
      /\ fo.submit # NoSubmit =>
           /\ PayloadSound(fo.submit.payload)
           /\ ~fo.touched => fo.submit.payload = ToTheMinute(fo.submit.over)
  BY DEF FOInv
<1>2. ASSUME DOMAIN fo' = F, fo'.stored = fo.stored, FormSound(fo'.form), fo'.touched, fo'.submit = fo.submit PROVE FOInv'
  BY <1>1, <1>2 DEF FOInv
<1>3. ASSUME NEW f, FormSound(f), Edit(f) PROVE FOInv'
  <2>1. DOMAIN fo' = F /\ fo'.stored = fo.stored /\ fo'.form = f /\ fo'.touched = TRUE /\ fo'.submit = fo.submit
    BY <1>1, <1>3 DEF Edit
  <2> QED BY <2>1, <1>2, <1>3
<1>4. ASSUME DOMAIN fo' = F, fo'.stored = fo.stored, fo'.form = fo.form, fo'.touched = fo.touched,
             fo'.submit = fo.submit \/ fo'.submit = NoSubmit
      PROVE  FOInv'
  BY <1>1, <1>4 DEF FOInv
<1>5. ASSUME NEW mode \in AuthModes, ChooseAuthMode(mode) PROVE FOInv'
  BY <1>1, <1>3, <1>5, AuthInLine DEF ChooseAuthMode
<1>6. ASSUME NEW group \in {NoGroup, "g"}, ChooseGroup(group) PROVE FOInv'
  <2>1. FormSound([fo.form EXCEPT !.group = group]) BY <1>1, <1>6 DEF FormSound, ServiceFields, ChooseGroup
  <2> QED BY <2>1, <1>3, <1>6 DEF ChooseGroup
<1>7. ASSUME NEW creds \in {"blank", "typed"}, TypeCredentials(creds) PROVE FOInv'
  <2>1. FormSound([fo.form EXCEPT !.creds = creds]) BY <1>1 DEF FormSound, ServiceFields
  <2> QED BY <2>1, <1>3, <1>7 DEF TypeCredentials
<1>8. ASSUME NEW text, TypeRateLimit(text) PROVE FOInv'
  <2>1. FormSound([fo.form EXCEPT !.rate = text]) BY <1>1 DEF FormSound, ServiceFields
  <2> QED BY <2>1, <1>3, <1>8 DEF TypeRateLimit
<1>9. CASE RegenerateApiKey
  <2>1. FormSound([fo.form EXCEPT !.key = "generated"]) BY <1>1 DEF FormSound, ServiceFields, NoKey
  <2> QED BY <2>1, <1>3, <1>9 DEF RegenerateApiKey
<1>10. CASE ToggleBasicAuth
  <2>1. FormSound([fo.form EXCEPT !.basic = ~@]) BY <1>1, <1>10 DEF FormSound, ServiceFields, ToggleBasicAuth
  <2> QED BY <2>1, <1>3, <1>10 DEF ToggleBasicAuth
<1>11. CASE ToggleTls
  <2>1. FormSound(DropRedirect([fo.form EXCEPT !.tls = ~@])) BY <1>1 DEF FormSound, ServiceFields, DropRedirect
  <2> QED BY <2>1, <1>3, <1>11 DEF ToggleTls
<1>12. CASE ToggleHttpsRedirect
  <2>1. FormSound([fo.form EXCEPT !.redirect = ~@]) BY <1>1, <1>12 DEF FormSound, ServiceFields, ToggleHttpsRedirect
  <2> QED BY <2>1, <1>3, <1>12 DEF ToggleHttpsRedirect
<1>13. CASE ToggleUpstreamHttps
  <2>1. FormSound(DropSkipVerify([fo.form EXCEPT !.https = ~@])) BY <1>1 DEF FormSound, ServiceFields, DropSkipVerify
  <2> QED BY <2>1, <1>3, <1>13 DEF ToggleUpstreamHttps
<1>14. CASE ToggleSkipVerify
  <2>1. FormSound([fo.form EXCEPT !.skip = ~@]) BY <1>1, <1>14 DEF FormSound, ServiceFields, ToggleSkipVerify
  <2> QED BY <2>1, <1>3, <1>14 DEF ToggleSkipVerify
<1>15. CASE ToggleRateLimit
  <2>1. FormSound([fo.form EXCEPT !.rateOn = ~@]) BY <1>1 DEF FormSound, ServiceFields
  <2> QED BY <2>1, <1>3, <1>15 DEF ToggleRateLimit
<1>16. CASE StoredKeyRefetched
  <2> DEFINE s == [fo.stored EXCEPT !.key = "rotated"]  f == [fo.form EXCEPT !.key = "rotated"]
  <2>1. fo.stored.key = "stored" /\ fo' = [fo EXCEPT !.stored = s, !.form = f]
    BY <1>16 DEF StoredKeyRefetched
  <2>2. StoredSound(s) BY <1>1, <2>1 DEF StoredSound, ServiceFields, NoKey
  <2>3. FormSound(f) BY <1>1 DEF FormSound, ServiceFields, NoKey
  <2>4. ~fo.touched => f = createServiceFormDefaultValues(s)
    <3>1. DOMAIN fo.stored = ServiceFields BY <1>1 DEF StoredSound
    <3>2. [[fo.stored EXCEPT !.until = toKoreanDateTimeLocal(@)] EXCEPT !.key = "rotated"]
          = [[fo.stored EXCEPT !.key = "rotated"] EXCEPT !.until = toKoreanDateTimeLocal(@)]
      BY <3>1 DEF ServiceFields
    <3> QED BY <3>2, <1>1 DEF createServiceFormDefaultValues
  <2> HIDE DEF s, f
  <2>5. DOMAIN fo' = F /\ fo'.stored = s /\ fo'.form = f /\ fo'.touched = fo.touched /\ fo'.submit = fo.submit
    BY <1>1, <2>1
  <2> QED BY <1>1, <2>2, <2>3, <2>4, <2>5 DEF FOInv
<1>17. CASE OpenContainerImport BY <1>1, <1>4, <1>17 DEF OpenContainerImport
<1>18. CASE CloseContainerImport BY <1>1, <1>4, <1>18 DEF CloseContainerImport
<1>19. ASSUME NEW mode, ChangeImportMode(mode) PROVE FOInv' BY <1>1, <1>4, <1>19 DEF ChangeImportMode
<1>20. ASSUME NEW x, handleBasicContainerImport(x) PROVE FOInv'
  BY <1>1, <1>2, <1>20 DEF handleBasicContainerImport
<1>21. ASSUME NEW candidate, handleTraefikContainerImport(candidate) PROVE FOInv'
  <2> DEFINE f == DropRedirect([fo.form EXCEPT !.tls = candidate.tls])
  <2>1. FormSound(f) BY <1>1 DEF FormSound, ServiceFields, DropRedirect
  <2>2. fo' = [fo EXCEPT !.modal = "closed", !.touched = TRUE, !.form = f, !.upstream = candidate.upstream]
    BY <1>21 DEF handleTraefikContainerImport
  <2> HIDE DEF f
  <2>3. DOMAIN fo' = F /\ fo'.stored = fo.stored /\ fo'.form = f /\ fo'.touched = TRUE /\ fo'.submit = fo.submit BY <1>1, <2>2
  <2> QED BY <2>1, <2>3, <1>2
<1>22. ASSUME NEW x, NEW tls, ImportTraefikItem(x, tls) PROVE FOInv' BY <1>21, <1>22 DEF ImportTraefikItem
<1>23. CASE SubmitForm
  <2> DEFINE p == buildServiceSubmitPayload(fo.form)
  <2>1. Issues(fo.form) = {} BY <1>23 DEF SubmitForm
  <2>2. PayloadSound(p) BY <1>1, <2>1, SentIsSound
  <2>3. ~fo.touched => p = ToTheMinute(fo.stored) BY <1>1, UntouchedIsSent
  <2> HIDE DEF p
  <2>4. /\ DOMAIN fo' = F /\ fo'.stored = fo.stored /\ fo'.form = fo.form /\ fo'.touched = fo.touched
        /\ fo'.submit.payload = p /\ fo'.submit.over = fo.stored
    BY <1>1, <1>23 DEF SubmitForm, p
  <2> QED BY <1>1, <2>2, <2>3, <2>4 DEF FOInv
<1>24. CASE SubmitFails BY <1>1, <1>4, <1>24 DEF SubmitFails
<1> QED BY <1>5, <1>6, <1>7, <1>8, <1>9, <1>10, <1>11, <1>12, <1>13, <1>14, <1>15, <1>16, <1>17, <1>18,
           <1>19, <1>20, <1>22, <1>23, <1>24 DEF FONext

(* What holds of every form. *)
LEMMA FOShown == ASSUME FOInv PROVE HiddenFieldsDoNotBlock /\ UntouchedEditChangesNothing /\ PayloadConsistent
<1>1. HiddenFieldsDoNotBlock BY DEF FOInv, HiddenFieldsDoNotBlock, FormSound, Issues
<1>2. UntouchedEditChangesNothing BY DEF FOInv, UntouchedEditChangesNothing, ToTheMinute
<1>3. PayloadConsistent BY DEF FOInv, PayloadConsistent, PayloadSound
<1> QED BY <1>1, <1>2, <1>3

\* Where there is a gateway, the best one is one.
LEMMA BestIsGateway == ASSUME NEW c \in Containers, Gateways(c) # {} PROVE BestGateway(c) \in Gateways(c)
<1> DEFINE G == Gateways(c)
           Better(g) == {t \in G : t.score > g.score}
           T == {Better(g) : g \in G}
<1>1. G \in SUBSET Containers /\ G # {} BY DEF Gateways
<1>2. BestGateway(c) = CHOOSE g \in G : \A t \in G : g.score >= t.score BY DEF BestGateway
<1> HIDE DEF G
<1>3. IsFiniteSet(G) BY <1>1, ContainersAssumption, FS_Subset
<1>4. \A g \in G : g.score \in Nat BY <1>1, ContainersAssumption
<1>5. IsWellFoundedOn(StrictSubsetOrdering(G), SUBSET G)
  BY <1>3, FS_StrictSubsetOrderingWellFounded, FS_FiniteSubsetsOfFinite
<1>6. T \subseteq SUBSET G /\ T # {} BY <1>1
<1> HIDE DEF T
<1>7. PICK fewest \in T : \A y \in T : ~(<<y, fewest>> \in StrictSubsetOrdering(G))
  BY <1>5, <1>6, WFMin
<1>8. PICK g \in G : fewest = Better(g) BY DEF T
<1>9. ASSUME NEW t \in G PROVE g.score >= t.score
  <2>1. SUFFICES ASSUME t.score > g.score PROVE FALSE BY <1>4
  <2> DEFINE U == Better(t)  V == Better(g)
  <2>2. \A u \in G : u.score > t.score => u.score > g.score BY <2>1, <1>4
  <2>3. ~(t.score > t.score) BY <1>4
  <2>4. U \subseteq V /\ t \in V /\ t \notin U /\ U \in SUBSET G /\ V \in SUBSET G BY <2>1, <2>2, <2>3
  <2>5. U \in T BY DEF T
  <2>6. V = fewest BY <1>8
  <2> HIDE DEF U, V
  <2>7. <<U, V>> \in StrictSubsetOrdering(G) BY <2>4 DEF StrictSubsetOrdering
  <2> QED BY <1>7, <2>5, <2>6, <2>7
<1>10. BestGateway(c) \in G BY <1>2, <1>9
<1> QED BY <1>10 DEF G

\* The best score is the one of a recommended gateway.
LEMMA BestScore ==
  ASSUME NEW x \in Containers, ContainerScore(x) >= 2 PROVE isRecommendedComposeGateway(x)
<1>1. CASE \E other \in Containers : ~other.proxy /\ findRecommendedComposeGateway(other) = x
  BY <1>1 DEF isRecommendedComposeGateway
<1>2. CASE ~(\E other \in Containers : ~other.proxy /\ findRecommendedComposeGateway(other) = x)
  <2>1. ContainerScore(x) = 1 \/ ContainerScore(x) = 0 BY <1>2 DEF ContainerScore
  <2> QED BY <2>1
<1> QED BY <1>1, <1>2

(* An imported container can be reached where its project has a gateway. *)
LEMMA FOImports ==
  ASSUME FOInv, fo # Unmounted, NEW c \in Containers, c.http, c.project # "", Gateways(c) # {}, handleBasicContainerImport(c)
  PROVE  GatewayFilledIn(c)
<1> DEFINE g == findRecommendedComposeGateway(c)
<1>1. fo'.upstream = IF g = NoContainer THEN c ELSE g
  BY DEF handleBasicContainerImport, applyBasicContainerImport, FOInv
<1>2. RecommendedGatewayPreview(c) = IF g = NoContainer THEN c ELSE g
  BY DEF RecommendedGatewayPreview, ListedGateway, isLikelyNonHttpContainer
<1>3. CASE c.proxy
  <2>1. g = NoContainer BY <1>3 DEF findRecommendedComposeGateway
  <2> QED BY <1>1, <1>2, <1>3, <2>1 DEF GatewayFilledIn
<1>4. CASE ~c.proxy
  <2>1. g = BestGateway(c) BY <1>4 DEF findRecommendedComposeGateway, isLikelyNonHttpContainer
  <2>2. g \in Gateways(c) BY <2>1, BestIsGateway
  <2>3. g \in Containers /\ g.proxy BY <2>2 DEF Gateways
  <2>4. fo'.upstream = g /\ g = RecommendedGatewayPreview(c) BY <1>1, <1>2, <2>3, ContainersAssumption
  <2>5. ContainerScore(g) = 2 BY <1>4 DEF ContainerScore
  <2>6. ASSUME NEW x \in Containers, ContainerScore(x) >= 2 PROVE isRecommendedComposeGateway(x) BY <2>6, BestScore
  <2> HIDE DEF g
  <2> QED BY <2>3, <2>4, <2>5, <2>6 DEF GatewayFilledIn
<1> QED BY <1>3, <1>4

-----------------------------------------------------------------------------
(* List fields (ServiceForm). *)

(* A field that keeps its text shows every key that was typed. *)
LFInv ==
    lf # Unmounted =>
      /\ DOMAIN lf = {"field", "text", "keys", "saved", "isSaved"}
      /\ lf.field # "recipients" /\ lf.text = lf.keys
      /\ lf.isSaved => lf.saved = parseMultivalueText(lf.keys)

LEMMA LFMountedInv == ASSUME LFMounted, "recipients" \notin ListFieldNames PROVE LFInv
<1>1. PICK field \in ListFieldNames :
        lf = [field |-> field, text |-> << >>, keys |-> << >>, saved |-> << >>, isSaved |-> FALSE]
  BY DEF LFMounted
<1> QED BY <1>1 DEF LFInv

LEMMA LFStep == ASSUME LFInv, lf # Unmounted, LFNext PROVE LFInv'
<1>1. DOMAIN lf = {"field", "text", "keys", "saved", "isSaved"} /\ lf.field # "recipients" /\ lf.text = lf.keys
  BY DEF LFInv
<1>2. CASE SaveList
  <2>1. lf' = [lf EXCEPT !.saved = parseMultivalueText(lf.text), !.isSaved = TRUE] BY <1>2 DEF SaveList
  <2>2. DOMAIN lf' = DOMAIN lf /\ lf'.field = lf.field /\ lf'.text = lf.text /\ lf'.keys = lf.keys
        /\ lf'.saved = parseMultivalueText(lf.keys)
    BY <1>1, <2>1
  <2> QED BY <1>1, <2>2 DEF LFInv
<1>3. ASSUME NEW key, TypeKey(key) PROVE LFInv'
  <2> DEFINE longer == Append(lf.keys, key)
  <2>1. lf' = [lf EXCEPT !.keys = longer, !.isSaved = FALSE, !.text = longer]
    BY <1>1, <1>3 DEF TypeKey, ShownText
  <2> HIDE DEF longer
  <2>2. DOMAIN lf' = DOMAIN lf /\ lf'.field = lf.field /\ lf'.text = longer /\ lf'.keys = longer /\ lf'.isSaved = FALSE
    BY <1>1, <2>1
  <2> QED BY <1>1, <2>2 DEF LFInv
<1> QED BY <1>2, <1>3 DEF LFNext

LEMMA LFShown == ASSUME LFInv PROVE ListSavedAsTyped
  BY DEF LFInv, ListSavedAsTyped

-----------------------------------------------------------------------------
(* The template form (MiddlewareTemplates). *)

(* The fields of the form, the hidden ones included. *)
TemplateFormSound(f) ==
    /\ DOMAIN f = {"type", "ranges", "average", "burst", "users", "headers"}
    /\ f.type \in TemplateTypes /\ f.ranges \in ListTexts /\ f.users \in ListTexts
    /\ f.headers \in Seq(HeaderKeys)

(* What was sent is accepted, and is what was stored if nothing was        *)
(* touched, as the form then is what the stored template makes of it.      *)
TFInv ==
    tf # Unmounted =>
      /\ DOMAIN tf = {"stored", "form", "touched", "submit"}
      /\ tf.stored \in StoredTemplates \union {NewTemplate}
      /\ TemplateFormSound(tf.form)
      /\ ~tf.touched => tf.form = Registered(extractMiddlewareFormDefaults(tf.stored))
      /\ tf.submit # NewTemplate =>
           /\ BackendAccepts(tf.submit)
           /\ ~tf.touched => tf.submit = tf.stored

\* Registering changes no field but the numbers.
LEMMA RegisteredSound ==
  ASSUME NEW f, TemplateFormSound(f)
  PROVE  /\ TemplateFormSound(Registered(f))
         /\ Registered(f).type = f.type /\ Registered(f).ranges = f.ranges
         /\ Registered(f).users = f.users /\ Registered(f).headers = f.headers
<1> DEFINE r == Registered(f)
<1>1. DOMAIN f = {"type", "ranges", "average", "burst", "users", "headers"} BY DEF TemplateFormSound
<1>2. DOMAIN r = DOMAIN f /\ r.type = f.type /\ r.ranges = f.ranges /\ r.users = f.users /\ r.headers = f.headers
  BY <1>1 DEF Registered
<1> HIDE DEF r
<1>3. TemplateFormSound(r) BY <1>2 DEF TemplateFormSound
<1> QED BY <1>2, <1>3 DEF r

\* What the form makes of a template.
LEMMA DefaultsSound ==
  ASSUME NEW t \in StoredTemplates \union {NewTemplate}
  PROVE  LET f == extractMiddlewareFormDefaults(t)
         IN  /\ TemplateFormSound(f)
             /\ f.type = IF t = NewTemplate THEN "ipAllowList" ELSE t.type
             /\ f.ranges = IF t.type = "ipAllowList" THEN TextOf(t.config) ELSE ""
             /\ f.users = IF t.type = "basicAuth" THEN TextOf(t.config) ELSE ""
             /\ f.headers = IF t.type = "headers" THEN <<"h">> ELSE <<"">>
<1> DEFINE f == extractMiddlewareFormDefaults(t)
<1>1. /\ DOMAIN f = {"type", "ranges", "average", "burst", "users", "headers"}
      /\ f.type = IF t = NewTemplate THEN "ipAllowList" ELSE t.type
      /\ f.ranges = IF t.type = "ipAllowList" THEN TextOf(t.config) ELSE ""
      /\ f.users = IF t.type = "basicAuth" THEN TextOf(t.config) ELSE ""
      /\ f.headers = IF t.type = "headers" THEN <<"h">> ELSE <<"">>
  BY DEF extractMiddlewareFormDefaults
<1> HIDE DEF f
<1>2. t = NewTemplate \/ t.type \in TemplateTypes BY DEF StoredTemplates, TemplateTypes
<1>3. f.type \in TemplateTypes BY <1>1, <1>2 DEF TemplateTypes
<1>4. \A list : TextOf(list) \in ListTexts BY DEF TextOf, ListTexts
<1>5. f.ranges \in ListTexts /\ f.users \in ListTexts BY <1>1, <1>4 DEF ListTexts
<1>6. f.headers \in Seq(HeaderKeys)
  <2>1. <<"h">> \in Seq(HeaderKeys) /\ <<"">> \in Seq(HeaderKeys) BY DEF HeaderKeys
  <2> QED BY <1>1, <2>1
<1>7. TemplateFormSound(f) BY <1>1, <1>3, <1>5, <1>6 DEF TemplateFormSound
<1> QED BY <1>1, <1>7 DEF f

LEMMA TFMountedInv == ASSUME TFMounted PROVE TFInv
<1>1. PICK t \in StoredTemplates \union {NewTemplate} :
        tf = [stored |-> t, form |-> Registered(extractMiddlewareFormDefaults(t)),
              touched |-> FALSE, submit |-> NewTemplate]
  BY DEF TFMounted
<1>2. TemplateFormSound(Registered(extractMiddlewareFormDefaults(t))) BY DefaultsSound, RegisteredSound
<1> QED BY <1>1, <1>2 DEF TFInv

\* A list of ranges or users that is sent was typed.
LEMMA ListsRead ==
  /\ \A text \in ListTexts : parseMultiline(text) \in {<< >>, <<"a">>, <<"a", "b">>}
  /\ parseMultiline("") = << >> /\ parseMultiline("a") = <<"a">> /\ parseMultiline("a,b") = <<"a", "b">>
  BY DEF ListTexts, parseMultiline

\* What the schema lets through, the backend accepts.
LEMMA SentIsAccepted ==
  ASSUME NEW f, TemplateFormSound(f), HasConfig(f)
  PROVE  BackendAccepts([type |-> f.type, config |-> buildMiddlewareConfig(f)])
<1> DEFINE config == buildMiddlewareConfig(f)  t == [type |-> f.type, config |-> config]
<1>1. t.type = f.type /\ t.config = config /\ f.type \in TemplateTypes BY DEF TemplateFormSound
<1> HIDE DEF t, config
<1>2. CASE f.type = "ipAllowList"
  <2>1. config = parseMultiline(f.ranges) /\ config # << >> BY <1>2 DEF config, buildMiddlewareConfig, HasConfig
  <2>2. t.type = "ipAllowList" /\ t.config # << >> BY <1>1, <1>2, <2>1
  <2>3. BackendAccepts(t) BY <2>2 DEF BackendAccepts
  <2> QED BY <2>3 DEF t, config
<1>3. CASE f.type = "basicAuth"
  <2>1. config = parseMultiline(f.users) /\ config # << >> BY <1>3 DEF config, buildMiddlewareConfig, HasConfig
  <2>2. t.type = "basicAuth" /\ t.config # << >> BY <1>1, <1>3, <2>1
  <2>3. BackendAccepts(t) BY <2>2 DEF BackendAccepts
  <2> QED BY <2>3 DEF t, config
<1>4. CASE f.type = "rateLimit"
  <2>1. config = <<5, 5>> BY <1>4 DEF config, buildMiddlewareConfig
  <2>2. config # << >> BY <2>1
  <2>3. t.type = "rateLimit" /\ t.config # << >> BY <1>1, <1>4, <2>2
  <2>4. BackendAccepts(t) BY <2>3 DEF BackendAccepts
  <2> QED BY <2>4 DEF t, config
<1>5. CASE f.type = "headers"
  <2>1. config = buildCustomResponseHeaders(f) /\ hasHeader(f) BY <1>5 DEF config, buildMiddlewareConfig, HasConfig
  <2>2. \A i \in DOMAIN f.headers : f.headers[i] \in HeaderKeys
    <3>1. f.headers \in Seq(HeaderKeys) BY DEF TemplateFormSound
    <3> QED BY <3>1
  <2>3. config # {} /\ config \subseteq {"h"}
    BY <2>1, <2>2 DEF buildCustomResponseHeaders, hasHeader, TrimmedKey, HeaderKeys
  <2>4. t.type = "headers" /\ t.config # {} /\ t.config \subseteq {"h"} BY <1>1, <1>5, <2>3
  <2> HIDE DEF t
  <2>5. BackendAccepts(t) BY <2>4 DEF BackendAccepts
  <2> QED BY <2>5 DEF t, config
<1> QED BY <1>1, <1>2, <1>3, <1>4, <1>5 DEF TemplateTypes, t, config

\* A template that nobody touched is sent as it was stored.
LEMMA UntouchedIsStored ==
  ASSUME NEW t \in StoredTemplates \union {NewTemplate}, NEW f,
         f = Registered(extractMiddlewareFormDefaults(t)), HasConfig(f)
  PROVE  [type |-> f.type, config |-> buildMiddlewareConfig(f)] = t
<1> DEFINE d == extractMiddlewareFormDefaults(t)
<1>1. /\ TemplateFormSound(d)
      /\ d.type = IF t = NewTemplate THEN "ipAllowList" ELSE t.type
      /\ d.ranges = IF t.type = "ipAllowList" THEN TextOf(t.config) ELSE ""
      /\ d.users = IF t.type = "basicAuth" THEN TextOf(t.config) ELSE ""
      /\ d.headers = IF t.type = "headers" THEN <<"h">> ELSE <<"">>
  BY DefaultsSound
<1> HIDE DEF d
<1>2. f.type = d.type /\ f.ranges = d.ranges /\ f.users = d.users /\ f.headers = d.headers
  BY <1>1, RegisteredSound DEF d
<1>3. t # NewTemplate
  <2>1. SUFFICES ASSUME t = NewTemplate PROVE FALSE OBVIOUS
  <2>2. t.type = "new" BY <2>1 DEF NewTemplate
  <2>3. f.type = "ipAllowList" /\ f.ranges = "" BY <1>1, <1>2, <2>1, <2>2
  <2>4. parseMultiline(f.ranges) # << >> BY <2>3 DEF HasConfig
  <2> QED BY <2>3, <2>4, ListsRead
<1>4. CASE \E list \in {<<"a">>, <<"a", "b">>} : t = [type |-> "ipAllowList", config |-> list]
  <2>1. PICK list \in {<<"a">>, <<"a", "b">>} : t = [type |-> "ipAllowList", config |-> list] BY <1>4
  <2>2. f.type = "ipAllowList" /\ f.ranges = TextOf(list) BY <1>1, <1>2, <1>3, <2>1
  <2>3. parseMultiline(TextOf(list)) = list
    <3>1. CASE list = <<"a">>
      <4>1. Len(list) = 1 BY <3>1
      <4>2. TextOf(list) = "a" BY <4>1 DEF TextOf
      <4> QED BY <3>1, <4>2, ListsRead
    <3>2. CASE list = <<"a", "b">>
      <4>1. Len(list) = 2 BY <3>2
      <4>2. TextOf(list) = "a,b" BY <4>1 DEF TextOf
      <4> QED BY <3>2, <4>2, ListsRead
    <3> QED BY <2>1, <3>1, <3>2
  <2>4. buildMiddlewareConfig(f) = list BY <2>2, <2>3 DEF buildMiddlewareConfig
  <2> QED BY <2>1, <2>2, <2>4
<1>5. CASE t = [type |-> "basicAuth", config |-> <<"a">>]
  <2>1. f.type = "basicAuth" /\ f.users = TextOf(<<"a">>) BY <1>1, <1>2, <1>3, <1>5
  <2>2. parseMultiline(TextOf(<<"a">>)) = <<"a">> BY ListsRead DEF TextOf
  <2>3. buildMiddlewareConfig(f) = <<"a">> BY <2>1, <2>2 DEF buildMiddlewareConfig
  <2> QED BY <1>5, <2>1, <2>3
<1>6. CASE t = [type |-> "rateLimit", config |-> <<5, 5>>]
  <2>1. f.type = "rateLimit" BY <1>1, <1>2, <1>3, <1>6
  <2>2. buildMiddlewareConfig(f) = <<5, 5>> BY <2>1 DEF buildMiddlewareConfig
  <2> QED BY <1>6, <2>1, <2>2
<1>7. CASE t = [type |-> "headers", config |-> {"h"}]
  <2>1. f.type = "headers" /\ f.headers = <<"h">> BY <1>1, <1>2, <1>3, <1>7
  <2>2. buildCustomResponseHeaders(f) = {"h"}
    <3>1. DOMAIN f.headers = {1} /\ f.headers[1] = "h" BY <2>1
    <3>2. {TrimmedKey(f.headers[i]) : i \in DOMAIN f.headers} = {"h"} BY <3>1 DEF TrimmedKey
    <3> QED BY <3>2 DEF buildCustomResponseHeaders
  <2>3. buildMiddlewareConfig(f) = {"h"} BY <2>1, <2>2 DEF buildMiddlewareConfig
  <2> QED BY <1>7, <2>1, <2>3
<1> QED BY <1>3, <1>4, <1>5, <1>6, <1>7 DEF StoredTemplates

\* One more row.
LEMMA RowAdded == ASSUME NEW rows \in Seq(HeaderKeys), NEW key \in HeaderKeys PROVE Append(rows, key) \in Seq(HeaderKeys)
  OBVIOUS

LEMMA TFStep == ASSUME TFInv, tf # Unmounted, TFNext PROVE TFInv'
<1>1. /\ DOMAIN tf = {"stored", "form", "touched", "submit"}
      /\ tf.stored \in StoredTemplates \union {NewTemplate}
      /\ TemplateFormSound(tf.form)
      /\ ~tf.touched => tf.form = Registered(extractMiddlewareFormDefaults(tf.stored))
  BY DEF TFInv
<1> DEFINE f == tf.form
<1>2. /\ DOMAIN f = {"type", "ranges", "average", "burst", "users", "headers"}
      /\ f.type \in TemplateTypes /\ f.ranges \in ListTexts /\ f.users \in ListTexts
      /\ f.headers \in Seq(HeaderKeys)
  BY <1>1 DEF TemplateFormSound
<1>3. ASSUME NEW g, TemplateFormSound(g), FillIn(g) PROVE TFInv'
  <2>1. tf.submit = NewTemplate /\ tf' = [tf EXCEPT !.form = g, !.touched = TRUE] BY <1>3 DEF FillIn
  <2>2. DOMAIN tf' = DOMAIN tf /\ tf'.stored = tf.stored /\ tf'.form = g /\ tf'.touched = TRUE /\ tf'.submit = NewTemplate
    BY <1>1, <2>1
  <2> QED BY <1>1, <1>3, <2>2 DEF TFInv
<1>4. ASSUME NEW rows \in Seq(HeaderKeys), FillIn([f EXCEPT !.headers = rows]) PROVE TFInv'
  <2>1. TemplateFormSound([f EXCEPT !.headers = rows]) BY <1>2 DEF TemplateFormSound
  <2> QED BY <2>1, <1>3, <1>4
<1>5. ASSUME NEW type \in TemplateTypes, ChangeType(type) PROVE TFInv'
  <2>1. TemplateFormSound([f EXCEPT !.type = type]) BY <1>2 DEF TemplateFormSound
  <2>2. TemplateFormSound(Registered([f EXCEPT !.type = type])) BY <2>1, RegisteredSound
  <2> QED BY <2>2, <1>3, <1>5 DEF ChangeType
<1>6. ASSUME NEW text \in ListTexts, TypeRanges(text) PROVE TFInv'
  <2>1. TemplateFormSound([f EXCEPT !.ranges = text]) BY <1>2 DEF TemplateFormSound
  <2> QED BY <2>1, <1>3, <1>6 DEF TypeRanges
<1>7. ASSUME NEW text \in ListTexts, TypeUsers(text) PROVE TFInv'
  <2>1. TemplateFormSound([f EXCEPT !.users = text]) BY <1>2 DEF TemplateFormSound
  <2> QED BY <2>1, <1>3, <1>7 DEF TypeUsers
<1>8. ASSUME NEW field \in {"average", "burst"}, NEW text, TypeRate(field, text) PROVE TFInv'
  <2>1. TemplateFormSound([f EXCEPT ![field] = text])
    <3>1. CASE field = "average" BY <1>2, <3>1 DEF TemplateFormSound
    <3>2. CASE field = "burst" BY <1>2, <3>2 DEF TemplateFormSound
    <3> QED BY <3>1, <3>2
  <2> QED BY <2>1, <1>3, <1>8 DEF TypeRate
<1>9. CASE AddHeader
  <2>1. Append(f.headers, "") \in Seq(HeaderKeys)
    <3>1. "" \in HeaderKeys BY DEF HeaderKeys
    <3> QED BY <3>1, <1>2, RowAdded
  <2> QED BY <2>1, <1>4, <1>9 DEF AddHeader
<1>10. ASSUME NEW i \in 1..2, RemoveHeader(i) PROVE TFInv'
  <2> DEFINE rows == SubSeq(f.headers, 1, i - 1) \o SubSeq(f.headers, i + 1, Len(f.headers))
  <2>1. rows \in Seq(HeaderKeys)
    <3>1. i \in DOMAIN f.headers BY <1>10 DEF RemoveHeader
    <3>2. SubSeq(f.headers, 1, i - 1) \in Seq(HeaderKeys) BY <1>2, <3>1
    <3>3. SubSeq(f.headers, i + 1, Len(f.headers)) \in Seq(HeaderKeys) BY <1>2, <3>1
    <3> QED BY <3>2, <3>3
  <2>2. FillIn([f EXCEPT !.headers = rows]) BY <1>10 DEF RemoveHeader
  <2> HIDE DEF rows
  <2> QED BY <2>1, <2>2, <1>4
<1>11. ASSUME NEW i \in 1..2, NEW key \in HeaderKeys, TypeHeader(i, key) PROVE TFInv'
  <2> DEFINE rows == [f.headers EXCEPT ![i] = key]
  <2>1. rows \in Seq(HeaderKeys)
    <3> DEFINE headers == f.headers
    <3>1. headers \in Seq(HeaderKeys) BY <1>2
    <3> HIDE DEF headers
    <3>2. [headers EXCEPT ![i] = key] \in Seq(HeaderKeys)
      <4>1. headers \in [1..Len(headers) -> HeaderKeys] /\ Len(headers) \in Nat BY <3>1
      <4>2. [headers EXCEPT ![i] = key] \in [1..Len(headers) -> HeaderKeys] BY <4>1
      <4> QED BY <4>1, <4>2
    <3> QED BY <3>2 DEF headers
  <2>2. FillIn([f EXCEPT !.headers[i] = key]) BY <1>11 DEF TypeHeader
  <2>3. [f EXCEPT !.headers[i] = key] = [f EXCEPT !.headers = rows] BY <1>2
  <2>4. FillIn([f EXCEPT !.headers = rows]) BY <2>2, <2>3
  <2> HIDE DEF rows
  <2> QED BY <2>1, <2>4, <1>4
<1>12. CASE SubmitTemplate
  <2> DEFINE sent == [type |-> f.type, config |-> buildMiddlewareConfig(f)]
  <2>1. HasConfig(f) /\ tf' = [tf EXCEPT !.submit = sent] BY <1>12 DEF SubmitTemplate, middlewareFormSchema
  <2>2. BackendAccepts(sent) BY <1>1, <2>1, SentIsAccepted
  <2>3. ~tf.touched => sent = tf.stored BY <1>1, <2>1, UntouchedIsStored
  <2> HIDE DEF sent
  <2>4. DOMAIN tf' = DOMAIN tf /\ tf'.stored = tf.stored /\ tf'.form = f /\ tf'.touched = tf.touched /\ tf'.submit = sent
    BY <1>1, <2>1
  <2> QED BY <1>1, <2>2, <2>3, <2>4 DEF TFInv
<1> QED BY <1>5, <1>6, <1>7, <1>8, <1>9, <1>10, <1>11, <1>12 DEF TFNext

LEMMA TFShown == ASSUME TFInv PROVE TemplatePayloadAccepted /\ UntouchedTemplateKept
  BY DEF TFInv, TemplatePayloadAccepted, UntouchedTemplateKept

-----------------------------------------------------------------------------
(* The pages together. *)

(* Each page keeps its invariant; the list fields have one of their own    *)
(* below, as it holds only of fields that keep the text as it is typed.    *)
PagesInv ==
    /\ HPInv /\ MFInv /\ FMInv /\ SHInv /\ KSInv /\ MPInv
    /\ AUInv /\ SFInv /\ ALInv /\ FOInv /\ TFInv

\* A page that opens satisfies its invariant, the others are closed.
LEMMA PagesInitially == Init => PagesInv
<1> SUFFICES ASSUME Init PROVE PagesInv OBVIOUS
<1>1. HPInv
  <2>1. HPMounted \/ hp = Unmounted BY DEF Init
  <2> QED BY <2>1, HPMountedInv DEF HPInv
<1>2. MFInv
  <2>1. MFMounted \/ mf = Unmounted BY DEF Init
  <2> QED BY <2>1, MFMountedInv DEF MFInv
<1>3. FMInv
  <2>1. FMMounted \/ fm = Unmounted BY DEF Init
  <2> QED BY <2>1, FMMountedInv DEF FMInv
<1>4. SHInv
  <2>1. SHMounted \/ sh = Unmounted BY DEF Init
  <2> QED BY <2>1, SHMountedInv DEF SHInv
<1>5. KSInv
  <2>1. KSMounted \/ ks = Unmounted BY DEF Init
  <2> QED BY <2>1, KSMountedInv DEF KSInv
<1>6. MPInv
  <2>1. MPMounted \/ mp = Unmounted BY DEF Init
  <2> QED BY <2>1, MPMountedInv DEF MPInv
<1>7. AUInv
  <2>1. AUMounted \/ au = Unmounted BY DEF Init
  <2> QED BY <2>1, AUMountedInv DEF AUInv
<1>8. SFInv
  <2>1. SFMounted \/ sf = Unmounted BY DEF Init
  <2> QED BY <2>1, SFMountedInv DEF SFInv
<1>9. ALInv
  <2>1. ALMounted \/ al = Unmounted BY DEF Init
  <2> QED BY <2>1, ALMountedInv DEF ALInv
<1>10. FOInv
  <2>1. FOMounted \/ fo = Unmounted BY DEF Init
  <2> QED BY <2>1, FOMountedInv DEF FOInv
<1>11. TFInv
  <2>1. TFMounted \/ tf = Unmounted BY DEF Init
  <2> QED BY <2>1, TFMountedInv DEF TFInv
<1> QED BY <1>1, <1>2, <1>3, <1>4, <1>5, <1>6, <1>7, <1>8, <1>9, <1>10, <1>11 DEF PagesInv

(* A step is of one page, or leaves it as it was. *)
LEMMA OnePageMoves ==
  [Next]_pages =>
    /\ (hp # Unmounted /\ HPNext) \/ hp' = hp
    /\ (mf # Unmounted /\ MFNext) \/ mf' = mf
    /\ (fm # Unmounted /\ FMNext) \/ fm' = fm
    /\ (sh # Unmounted /\ SHNext) \/ sh' = sh
    /\ (ks # Unmounted /\ KSNext) \/ ks' = ks
    /\ (mp # Unmounted /\ MPNext) \/ mp' = mp
    /\ (au # Unmounted /\ AUNext) \/ au' = au
    /\ (sf # Unmounted /\ SFNext) \/ sf' = sf
    /\ (al # Unmounted /\ ALNext) \/ al' = al
    /\ (fo # Unmounted /\ FONext) \/ fo' = fo
    /\ (tf # Unmounted /\ TFNext) \/ tf' = tf
    /\ (lf # Unmounted /\ LFNext) \/ lf' = lf
  BY DEF Next, pages

\* A step of one page keeps the invariants of all.
LEMMA PagesStep == PagesInv /\ [Next]_pages => PagesInv'
<1> SUFFICES ASSUME PagesInv, [Next]_pages PROVE PagesInv' OBVIOUS
<1>0. /\ HPInv /\ MFInv /\ FMInv /\ SHInv /\ KSInv /\ MPInv
      /\ AUInv /\ SFInv /\ ALInv /\ FOInv /\ TFInv
  BY DEF PagesInv
<1>1. HPInv'
  <2>1. CASE hp' = hp BY <1>0, <2>1 DEF HPInv
  <2> QED BY <1>0, <2>1, OnePageMoves, HPStep
<1>2. MFInv'
  <2>1. CASE mf' = mf BY <1>0, <2>1 DEF MFInv
  <2> QED BY <1>0, <2>1, OnePageMoves, MFStep
<1>3. FMInv'
  <2>1. CASE fm' = fm BY <1>0, <2>1 DEF FMInv, SelectedEntries, Visible
  <2> QED BY <1>0, <2>1, OnePageMoves, FMStep
<1>4. SHInv'
  <2>1. CASE sh' = sh BY <1>0, <2>1 DEF SHInv
  <2> QED BY <1>0, <2>1, OnePageMoves, SHStep
<1>5. KSInv'
  <2>1. CASE ks' = ks BY <1>0, <2>1 DEF KSInv
  <2> QED BY <1>0, <2>1, OnePageMoves, KSStep
<1>6. MPInv'
  <2>1. CASE mp' = mp BY <1>0, <2>1 DEF MPInv
  <2> QED BY <1>0, <2>1, OnePageMoves, MPStep
<1>7. AUInv'
  <2>1. CASE au' = au BY <1>0, <2>1 DEF AUInv
  <2> QED BY <1>0, <2>1, OnePageMoves, AUStep
<1>8. SFInv'
  <2>1. CASE sf' = sf BY <1>0, <2>1 DEF SFInv, SoundList, Normal, DistinctKeys
  <2> QED BY <1>0, <2>1, OnePageMoves, SFStep
<1>9. ALInv'
  <2>1. CASE al' = al BY <1>0, <2>1 DEF ALInv
  <2> QED BY <1>0, <2>1, OnePageMoves, ALStep
<1>10. FOInv'
  <2>1. CASE fo' = fo BY <1>0, <2>1 DEF FOInv
  <2> QED BY <1>0, <2>1, OnePageMoves, FOStep
<1>11. TFInv'
  <2>1. CASE tf' = tf BY <1>0, <2>1 DEF TFInv
  <2> QED BY <1>0, <2>1, OnePageMoves, TFStep
<1> QED BY <1>1, <1>2, <1>3, <1>4, <1>5, <1>6, <1>7, <1>8, <1>9, <1>10, <1>11 DEF PagesInv

LEMMA PagesAlways == Spec => []PagesInv
<1>1. Init => PagesInv BY PagesInitially
<1>2. PagesInv /\ [Next]_pages => PagesInv' BY PagesStep
<1> QED BY <1>1, <1>2, PTL DEF Spec

(* Whatever was clicked, typed, reset or closed before, the location holds *)
(* what is on screen: the updateFilters of the filtered histories and      *)
(* their read...Filters, the effect of the middleware page that replaces   *)
(* the address, useSmokeHistoryFilters, and the panel of scheduled         *)
(* maintenance.                                                            *)
THEOREM LinksAlwaysRestore == Spec => []LinksRestore
<1>1. PagesInv => LinksRestore
  BY HPShown, MFShown, FMShown, SHShown, KSShown, MPShown DEF PagesInv, LinksRestore
<1> QED BY <1>1, PagesAlways, PTL

(* What each page promises of its steps. *)

\* A chip takes its condition away, and no other one comes.
LEMMA ConditionsRemoved == Spec => RemovalRemoves
<1>1. PagesInv /\ [Next]_pages => [au # Unmounted =>
         \A c \in ActiveConditions(au.url) :
           RemoveCondition(c) => ActiveConditions(au'.url) \subseteq ActiveConditions(au.url) \ {c}]_au
  <2> SUFFICES ASSUME PagesInv, [Next]_pages, au' # au, NEW c \in ActiveConditions(au.url), RemoveCondition(c)
               PROVE  ActiveConditions(au'.url) \subseteq ActiveConditions(au.url) \ {c}
    OBVIOUS
  <2>1. AUInv BY DEF PagesInv
  <2>2. au # Unmounted /\ AUNext BY OnePageMoves
  <2> QED BY <2>1, <2>2, AURemoves
<1> QED BY <1>1, PagesAlways, PTL DEF Spec, RemovalRemoves

\* Another result starts at its first page, with no row open.
LEMMA ResultsFromTop == Spec => NewResultFromTop
<1>1. PagesInv /\ [Next]_pages => [(au # Unmounted /\ au' # Unmounted) =>
         LET before == buildAuditLogQuery(decodeAuditLogQuery(au.url))
             after == buildAuditLogQuery(decodeAuditLogQuery(au'.url))
         IN  /\ [before EXCEPT !.offset = 0] # [after EXCEPT !.offset = 0] => after.offset = 0
             /\ before # after => au'.expanded = "none"]_au
  <2> SUFFICES ASSUME PagesInv, [Next]_pages, au' # au
               PROVE  FromTop
    BY DEF FromTop
  <2>1. AUInv BY DEF PagesInv
  <2>2. au # Unmounted /\ AUNext BY OnePageMoves
  <2> QED BY <2>1, <2>2, AUStep
<1> QED BY <1>1, PagesAlways, PTL DEF Spec, NewResultFromTop

\* Another filter of the smoke history starts at its first page.
LEMMA FiltersFromTop == Spec => NewFilterFirstPage
<1>1. PagesInv /\ [Next]_pages => [(sh # Unmounted /\ sh' # Unmounted
          /\ [sh'.filters EXCEPT !.page = 1] # [sh.filters EXCEPT !.page = 1])
        => sh'.filters.page = 1]_sh
  <2> SUFFICES ASSUME PagesInv, [Next]_pages, sh' # sh, [sh'.filters EXCEPT !.page = 1] # [sh.filters EXCEPT !.page = 1]
               PROVE  sh'.filters.page = 1
    OBVIOUS
  <2>1. SHInv BY DEF PagesInv
  <2>2. sh # Unmounted /\ SHNext BY OnePageMoves
  <2> QED BY <2>1, <2>2, SHStep
<1> QED BY <1>1, PagesAlways, PTL DEF Spec, NewFilterFirstPage

\* A saved filter goes where it was removed, renamed or announced.
LEMMA LossAnnounced == Spec => NoSilentLoss
<1>1. PagesInv /\ [Next]_pages => [(sf # Unmounted /\ sf' # Unmounted) =>
         LET lost == KeysOf(sf.list) \ KeysOf(sf'.list)
         IN  lost # {} =>
               \/ lost \subseteq PreviewOmitted
               \/ sf.pending.mode = "replace" /\ sf'.pending.mode = "none"
               \/ sf.selected \in Names /\ lost = {NameKey[sf.selected]}
               \/ sf'.list = << >>]_sf
  <2> SUFFICES ASSUME PagesInv, [Next]_pages, sf' # sf
               PROVE  LossIsAnnounced
    BY DEF LossIsAnnounced
  <2>1. SFInv BY DEF PagesInv
  <2>2. sf # Unmounted /\ SFNext BY OnePageMoves
  <2> QED BY <2>1, <2>2, SFStep
<1> QED BY <1>1, PagesAlways, PTL DEF Spec, NoSilentLoss

\* What is saved was on the screen, in the list or in the backup.
LEMMA ShownSaved == Spec => SavedAsShown
<1>1. PagesInv /\ [Next]_pages => [(sf # Unmounted /\ sf' # Unmounted /\ sf'.list # sf.list) =>
         \A i \in DOMAIN sf'.list :
           \/ \E j \in DOMAIN sf.list : sf.list[j].filters = sf'.list[i].filters
           \/ FilterView(sf'.list[i].filters) = FilterView(sf.current)
           \/ \E j \in DOMAIN sf.pending.list :
                 sf.pending.list[j] = sf'.list[i]]_sf
  <2> SUFFICES ASSUME PagesInv, [Next]_pages, sf' # sf
               PROVE  ShownIsSaved
    BY DEF ShownIsSaved
  <2>1. SFInv BY DEF PagesInv
  <2>2. sf # Unmounted /\ SFNext BY OnePageMoves
  <2> QED BY <2>1, <2>2, SFStep
<1> QED BY <1>1, PagesAlways, PTL DEF Spec, SavedAsShown

\* A reload shows the filter of the artifacts that was chosen.
LEMMA ReloadKept == Spec => ReloadKeepsFilter
<1>1. PagesInv /\ [Next]_pages => [(al # Unmounted /\ al' # Unmounted /\ ReloadPage) =>
          al'.filter = IF al.filter = "all" THEN al.stored ELSE al.filter]_al
  <2> SUFFICES ASSUME PagesInv, [Next]_pages, al' # al, ReloadPage
               PROVE  al'.filter = IF al.filter = "all" THEN al.stored ELSE al.filter
    OBVIOUS
  <2>1. ALInv BY DEF PagesInv
  <2>2. al # Unmounted /\ ALNext BY OnePageMoves
  <2> QED BY <2>1, <2>2, ALStep
<1> QED BY <1>1, PagesAlways, PTL DEF Spec, ReloadKeepsFilter

\* An extension ends later than the end it was clicked on.
LEMMA ExtensionsLengthen == Spec => ExtensionLengthens
<1>1. PagesInv /\ [Next]_pages => [(mp # Unmounted /\ mp' # Unmounted /\ mp.update.phase = "sent"
          /\ mp'.update.phase = "refetch" /\ mp.update.kind = "extend") => EndMovesOut]_mp
  <2> SUFFICES ASSUME PagesInv, [Next]_pages, mp' # mp, mp.update.phase = "sent", mp'.update.phase = "refetch", mp.update.kind = "extend"
               PROVE  EndMovesOut
    OBVIOUS
  <2>1. MPInv BY DEF PagesInv
  <2>2. mp # Unmounted /\ MPNext BY OnePageMoves
  <2> QED BY <2>1, <2>2, MPStep
<1> QED BY <1>1, PagesAlways, PTL DEF Spec, ExtensionLengthens

\* An imported container is reached where its project has a gateway.
LEMMA ImportsReachable == Spec => ImportedUpstreamReachable
<1>1. PagesInv /\ [Next]_pages => [(fo # Unmounted /\ fo.modal = "basic" /\ fo'.modal = "closed") =>
         \A c \in Containers :
           (c.http /\ c.project # "" /\ Gateways(c) # {} /\ handleBasicContainerImport(c)) =>
             GatewayFilledIn(c)]_fo
  <2> SUFFICES ASSUME PagesInv, [Next]_pages, fo' # fo, NEW c \in Containers, c.http, c.project # "", Gateways(c) # {}, handleBasicContainerImport(c)
               PROVE  GatewayFilledIn(c)
    OBVIOUS
  <2>1. FOInv BY DEF PagesInv
  <2>2. fo # Unmounted /\ FONext BY OnePageMoves
  <2> QED BY <2>1, <2>2, FOImports
<1> QED BY <1>1, PagesAlways, PTL DEF Spec, ImportedUpstreamReachable

(* A step does what its button says, on every page that promises it:       *)
(* handleRemoveCondition and the other handlers of the audit log,          *)
(* useSmokeHistoryFilters, the saved filters of failed runs, the list of   *)
(* artifacts, the extension of a maintenance and the container import.     *)
THEOREM ChangesAreAsAsked == Spec => ChangesAsAsked
  BY ConditionsRemoved, ResultsFromTop, FiltersFromTop, LossAnnounced, ShownSaved,
     ReloadKept, ExtensionsLengthen, ImportsReachable, PTL DEF ChangesAsAsked

\* A list field that keeps its text as it is typed.
LEMMA FieldsAlways == ASSUME "recipients" \notin ListFieldNames PROVE Spec => []LFInv
<1>1. Init => LFInv
  <2>1. SUFFICES ASSUME Init PROVE LFInv OBVIOUS
  <2>2. LFMounted \/ lf = Unmounted BY <2>1 DEF Init
  <2> QED BY <2>2, LFMountedInv DEF LFInv
<1>2. LFInv /\ [Next]_pages => LFInv'
  <2>1. SUFFICES ASSUME LFInv, [Next]_pages PROVE LFInv' OBVIOUS
  <2>2. CASE lf' = lf BY <2>1, <2>2 DEF LFInv
  <2> QED BY <2>1, <2>2, OnePageMoves, LFStep
<1> QED BY <1>1, <1>2, PTL DEF Spec

(* What leaves a page is what the user chose, and the server takes it: the *)
(* query of the audit log, the clean-up and the export of failed runs,     *)
(* their saved filters, the payloads of the service form and of the        *)
(* template form, and the text areas that hold a list.  The one of the     *)
(* alert recipients, which splits its text at every key, is excluded.      *)
THEOREM SentIsAsChosen ==
  ASSUME "recipients" \notin ListFieldNames
  PROVE  Spec => []SentAsChosen
<1>1. PagesInv /\ LFInv => SentAsChosen
  BY AUShown, FMShown, SFShown, LFShown, FOShown, TFShown DEF PagesInv, SentAsChosen
<1> QED BY <1>1, PagesAlways, FieldsAlways, PTL

=============================================================================
