---------------------------- MODULE ServicesPage ----------------------------
(***************************************************************************)
(* The list of services: filters that live in the address bar, the         *)
(* selection, changing the routing mode of the selection in one operation, *)
(* and deletion.                                                           *)
(*                                                                         *)
(* A bulk operation updates one service after the other from the list that *)
(* was cached when it was started; another administrator may change or     *)
(* delete a service between any two of its steps.                          *)
(***************************************************************************)
EXTENDS Browser, Naturals, FiniteSets, Sequences

CONSTANTS
    ServiceIds,          \* the services, in the order of the list
    MaxServiceEvents     \* bound: operations, deletions, edits of others

RoutingModes == {"active", "disabled"}
Gone == "gone"
SearchTexts == {"", "spaces", "s1"}
CauseFilters == {"dns", "connection_refused", "timeout", "unexpected_status", "other_error"}
HealthFilters == {"all", "active", "disabled", "up", "down"} \union CauseFilters
Failures == [status : {"down"}, kind : {"dns", "connection_refused", "connection_timeout",
                                        "request_timeout", "unexpected_status", "tls", "none"}]
NoOperation == [mode |-> "none"]
NoFailure == [mode |-> "none"]
NoTarget == "none"

VARIABLE sv

DefaultFilters == [health |-> "all", search |-> ""]

SVMounted ==
    sv = [server |-> [id \in ServiceIds |-> "active"], data |-> [id \in ServiceIds |-> "active"],
            filters |-> DefaultFilters, url |-> DefaultFilters,
            selected |-> {}, routing |-> "active", failure |-> NoFailure, op |-> NoOperation,
            target |-> NoTarget, deleting |-> NoTarget, events |-> 0]

Listed == {id \in ServiceIds : sv.data[id] # Gone}

(* The effect that drops the services that the list no longer has. *)
PruneSelection(s) == [s EXCEPT !.selected = {id \in @ : s.data[id] # Gone}]

Event(s) == [s EXCEPT !.events = @ + 1]

-----------------------------------------------------------------------------
(* Filters.  The text, "spaces" for one of spaces only, stays in the field *)
(* as it was typed; the address bar gets it trimmed, and defaults leave no *)
(* parameter.                                                              *)

trim(text) == IF text = "spaces" THEN "" ELSE text

(* In place of replaceFiltersInUrl: the health filter is not written. *)
dropHealthFromUrl(filters) == [health |-> "all", search |-> trim(filters.search)]

replaceFiltersInUrl(filters) == [health |-> filters.health, search |-> trim(filters.search)]

readFiltersFromUrl(url) ==
    [health |-> IF url.health \in HealthFilters THEN url.health ELSE "all", search |-> url.search]

(* In place of matchesOtherHealthError: every error counts as another one. *)
matchesAnyError(health) == health.status = "down"

matchesOtherHealthError(health) ==
    health.status = "down"
    /\ health.kind \notin {"dns", "connection_refused", "connection_timeout",
                           "request_timeout", "unexpected_status"}

(* The routing filters look at the service, the others at its health. *)
matchesHealthFilter(mode, health, filter) ==
    CASE filter = "all" -> TRUE
      [] filter \in RoutingModes -> mode = filter
      [] filter \in {"up", "down"} -> health.status = filter
      [] filter \in {"dns", "connection_refused", "unexpected_status"} -> health.kind = filter
      [] filter = "timeout" -> health.kind \in {"connection_timeout", "request_timeout"}
      [] filter = "other_error" -> matchesOtherHealthError(health)

(* One service answers, the other does not. *)
HealthNow(id) ==
    IF id = "s1" THEN [status |-> "up", kind |-> "none"] ELSE [status |-> "down", kind |-> "dns"]

filterServices(s, filters) ==
    {id \in {x \in ServiceIds : s.data[x] # Gone} :
       /\ trim(filters.search) \in {"", id}
       /\ matchesHealthFilter(s.data[id], HealthNow(id), filters.health)}

(* An open dialog covers the page. *)
PageFree == sv.target = NoTarget

ApplyFilters(filters) ==
    /\ PageFree
    /\ sv' = [sv EXCEPT !.filters = filters, !.url = replaceFiltersInUrl(filters)]

SetSearch(text) == ApplyFilters([sv.filters EXCEPT !.search = text])
SetHealthFilter(filter) == ApplyFilters([sv.filters EXCEPT !.health = filter])

(* A card of the summary selects its mode, or everything when it is on. *)
ToggleSummaryCard(mode) ==
    SetHealthFilter(IF sv.filters.health = mode THEN "all" ELSE mode)

(* popstate, a link or a reload: any address, valid or not. *)
ArriveAt(url) == ApplyFilters(readFiltersFromUrl(url))

-----------------------------------------------------------------------------
(* The selection; its controls other than the cards are locked while an    *)
(* operation is pending.                                                   *)

isBusy == sv.op # NoOperation

SelectService(id, on) ==
    /\ PageFree /\ id \in filterServices(sv, sv.filters)
    /\ sv' = [sv EXCEPT !.failure = NoFailure,
                        !.selected = IF on THEN @ \union {id} ELSE @ \ {id}]

ToggleVisible ==
    LET visible == filterServices(sv, sv.filters)
    IN  /\ PageFree /\ ~isBusy /\ visible # {}
        /\ sv' = [sv EXCEPT !.failure = NoFailure,
                            !.selected = IF visible \subseteq @ THEN @ \ visible
                                         ELSE @ \union visible]

(* In place of ModeChanged: the failed ones of the other mode are kept. *)
ModeOnly(s, mode) == [s EXCEPT !.routing = mode]

ModeChanged(s, mode) == [s EXCEPT !.routing = mode, !.failure = NoFailure]
SetRoutingMode(mode) ==
    /\ PageFree /\ ~isBusy
    /\ sv' = ModeChanged(sv, mode)

ClearSelection ==
    /\ PageFree /\ ~isBusy /\ sv.selected # {}
    /\ sv' = [sv EXCEPT !.selected = {}, !.failure = NoFailure]

-----------------------------------------------------------------------------
(* The bulk operation. *)

getRoutingUpdateTargets(ids, mode) == {id \in ids \cap Listed : sv.data[id] # mode}

(* "stale" are the services whose cached mode was not the stored one, and  *)
(* those that others change while the operation runs.                      *)
StartOperation(ids, mode) ==
    [asked |-> ids \cap Listed, mode |-> mode, failed |-> {},
     todo |-> getRoutingUpdateTargets(ids, mode),
     stale |-> {id \in ids : sv.data[id] # sv.server[id]}]

(* Applying asks for consent first; refusing it changes nothing. *)
ApplyBulk ==
    /\ PageFree /\ ~isBusy /\ sv.selected # {} /\ sv.events < MaxServiceEvents
    /\ sv' = Event([sv EXCEPT !.op = StartOperation(sv.selected, sv.routing)])

RetryBulk ==
    /\ PageFree /\ ~isBusy /\ sv.failure # NoFailure /\ sv.events < MaxServiceEvents
    /\ sv' = Event([sv EXCEPT !.op = StartOperation(sv.failure.ids, sv.failure.mode)])

Next1(ids) == CHOOSE id \in ids : TRUE

UpdateWorks ==
    /\ isBusy /\ sv.op.todo # {}
    /\ LET id == Next1(sv.op.todo)
       IN  /\ sv.server[id] # Gone
           /\ sv' = [sv EXCEPT !.server[id] = sv.op.mode, !.op.todo = @ \ {id}]

(* In place of FailedAdded: a failed update is not noted. *)
FailedForgotten(failed, id) == {}

FailedAdded(failed, id) == failed \union {id}
UpdateFails ==
    /\ isBusy /\ sv.op.todo # {}
    /\ LET id == Next1(sv.op.todo)
       IN  sv' = [sv EXCEPT !.op.todo = @ \ {id}, !.op.failed = FailedAdded(@, id)]

(* The notification of the operation is sent (or fails, which only changes *)
(* the message), the queries are fetched again, then the outcome is shown. *)
(* The selection is set after the list was refreshed: a service that       *)
(* failed because it is gone stays selected until the list changes again.  *)
BulkSettled ==
    /\ isBusy /\ sv.op.todo = {}
    /\ \E fetched \in BOOLEAN :
         LET s == IF fetched THEN [sv EXCEPT !.data = sv.server] ELSE sv
         IN  sv' = [s EXCEPT !.op = NoOperation, !.selected = sv.op.failed,
                             !.failure = IF sv.op.failed = {} THEN NoFailure
                                         ELSE [mode |-> sv.op.mode, ids |-> sv.op.failed]]

-----------------------------------------------------------------------------
(* Deletion, other administrators, refetching. *)

OpenDelete(id) ==
    /\ id \in filterServices(sv, sv.filters) /\ PageFree
    /\ sv' = [sv EXCEPT !.target = id]

CloseDelete ==
    /\ sv.target # NoTarget
    /\ sv' = [sv EXCEPT !.target = NoTarget]

handleDelete ==
    /\ sv.target # NoTarget /\ sv.deleting = NoTarget /\ sv.events < MaxServiceEvents
    /\ sv' = Event([sv EXCEPT !.deleting = sv.target])

(* The dialog is closed whichever service it shows by now. *)
DeleteWorks ==
    /\ sv.deleting # NoTarget
    /\ sv' = [sv EXCEPT !.server[sv.deleting] = Gone, !.deleting = NoTarget, !.target = NoTarget]

DeleteFails ==
    /\ sv.deleting # NoTarget
    /\ sv' = [sv EXCEPT !.deleting = NoTarget]

OtherAdmin(id) ==
    /\ sv.server[id] # Gone /\ sv.events < MaxServiceEvents
    /\ \E mode \in (RoutingModes \union {Gone}) \ {sv.server[id]} :
         LET op == IF isBusy THEN [sv.op EXCEPT !.stale = @ \union {id}] ELSE sv.op
         IN  sv' = Event([sv EXCEPT !.server[id] = mode, !.op = op])

ServicesRefetched ==
    /\ sv.data # sv.server
    /\ sv' = PruneSelection([sv EXCEPT !.data = sv.server])

SVNext ==
    \/ \E text \in SearchTexts : SetSearch(text)
    \/ \E filter \in {"all", "dns"} : SetHealthFilter(filter)
    \/ \E mode \in RoutingModes : ToggleSummaryCard(mode) \/ SetRoutingMode(mode)
    \/ \E filter \in {"dns", "typo"} : ArriveAt([health |-> filter, search |-> ""])
    \/ \E id \in ServiceIds, on \in BOOLEAN : SelectService(id, on)
    \/ ToggleVisible \/ ClearSelection
    \/ ApplyBulk \/ RetryBulk \/ UpdateWorks \/ UpdateFails \/ BulkSettled
    \/ \E id \in ServiceIds : OpenDelete(id) \/ OtherAdmin(id)
    \/ CloseDelete \/ handleDelete \/ DeleteWorks \/ DeleteFails
    \/ ServicesRefetched

-----------------------------------------------------------------------------
(* Properties. *)

SVTypeOK ==
    sv # Unmounted =>
      /\ \A id \in ServiceIds : {sv.server[id], sv.data[id]} \subseteq RoutingModes \union {Gone}
      /\ sv.filters.health \in HealthFilters /\ sv.selected \subseteq ServiceIds
      /\ sv.target \in ServiceIds \union {NoTarget}

(* What an operation does not report as failed has the requested mode,     *)
(* unless somebody else changed it meanwhile or it was already something   *)
(* else than the list said; also for services that were skipped because    *)
(* the list showed the mode already.                                       *)
BulkReportTrue ==
    [][(sv # Unmounted /\ sv' # Unmounted /\ sv.op # NoOperation /\ sv'.op = NoOperation)
        => \A id \in sv.op.asked \ (sv.op.stale \union sv'.selected) :
             sv.server[id] \in {sv.op.mode, Gone}]_sv

(* The retry button repeats what the screen says: the mode in the selector *)
(* and services among those that failed last; every other way to change    *)
(* the selection or the mode takes the button away.                        *)
RetryIsWhatIsShown ==
    (sv # Unmounted /\ sv.failure # NoFailure)
      => sv.failure.mode = sv.routing /\ sv.selected \subseteq sv.failure.ids

(* Reloading the page shows the services that were shown. *)
ReloadShowsSame ==
    sv # Unmounted =>
      filterServices(sv, readFiltersFromUrl(sv.url)) = filterServices(sv, sv.filters)

(* Every service that is down is found under exactly one cause. *)
OneCausePerFailure ==
    sv # Unmounted =>
      \A mode \in {sv.data[id] : id \in Listed}, health \in Failures :
        Cardinality({f \in CauseFilters : matchesHealthFilter(mode, health, f)}) = 1

=============================================================================
