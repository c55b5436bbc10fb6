------------------------ MODULE MiddlewareAssignment ------------------------
(***************************************************************************)
(* The dialog that says which services use a shared middleware template.   *)
(* Saving compares the check marks with the cached services and sends one  *)
(* update per service that differs, each with the whole list of templates  *)
(* of the service, all at once.  The mutation fails with the first update  *)
(* that fails, while the others are still under way, and only a success    *)
(* refetches the services.  One administrator works here; what two of them *)
(* overwrite in each other's services is the subject of ServiceRoutes.     *)
(***************************************************************************)
EXTENDS Browser, Naturals, FiniteSets

CONSTANTS
    TemplateIds,        \* the shared templates
    AssignableIds,      \* the services
    MaxAssignments      \* bound: saves of the dialog

NoTemplate == "noTemplate"

VARIABLE ma

MAMounted ==
    \E used \in [AssignableIds -> {{}, TemplateIds}] :
      ma = [server |-> used, cached |-> used, target |-> NoTemplate,
            selected |-> {}, toggled |-> {}, phase |-> "idle", error |-> FALSE,
            sent |-> {}, waiting |-> {}, saves |-> 0,
            \* of the last save: its template, its check marks, and whether
            \* it started from current data and nothing interfered
            template |-> NoTemplate, wanted |-> {}, clean |-> FALSE]

-----------------------------------------------------------------------------
(* The dialog. *)

AppliedServices(services, template) == {id \in AssignableIds : template \in services[id]}

(* The effect that follows the target and the fetched services. *)
KeepSelection(s) == s
syncSelection(s) ==
    [s EXCEPT !.selected = IF s.target = NoTemplate THEN {}
                           ELSE AppliedServices(s.cached, s.target),
              !.toggled = {}]

OpenAssignment(template) ==
    /\ ma.target = NoTemplate
    /\ ma' = syncSelection([ma EXCEPT !.target = template])

CloseAssignment ==
    /\ ma.target # NoTemplate
    /\ ma' = syncSelection([ma EXCEPT !.target = NoTemplate])

Flipped(set, id) == IF id \in set THEN set \ {id} ELSE set \union {id}

toggleServiceSelection(id) ==
    /\ ma.target # NoTemplate
    /\ ma' = [ma EXCEPT !.selected = Flipped(@, id), !.toggled = Flipped(@, id)]

Fetched(s) ==
    LET next == [s EXCEPT !.cached = s.server]
    IN  IF s.cached = s.server THEN next ELSE syncSelection(next)

-----------------------------------------------------------------------------
(* Saving. *)

ChangedServices ==
    {id \in AssignableIds : (id \in ma.selected) # (ma.target \in ma.cached[id])}

(* In place of NextTemplateIds: the other templates are dropped. *)
OnlyThisTemplate(id) == IF id \in ma.selected THEN {ma.target} ELSE {}

(* In place of NextTemplateIds: nothing is taken away. *)
AddedOnly(id) == ma.cached[id] \union {ma.target}

NextTemplateIds(id) ==
    IF id \in ma.selected THEN ma.cached[id] \union {ma.target}
    ELSE ma.cached[id] \ {ma.target}

SaveAssignment ==
    /\ ma.target # NoTemplate /\ ma.phase = "idle" /\ ma.saves < MaxAssignments
    /\ ma' = [ma EXCEPT
         !.phase = IF ChangedServices = {} THEN "refetch" ELSE "updates",
         !.error = FALSE, !.saves = @ + 1, !.waiting = ChangedServices,
         !.sent = @ \union {[save |-> ma.saves + 1, template |-> ma.target, id |-> id,
                               list |-> NextTemplateIds(id)] : id \in ChangedServices},
         !.template = ma.target, !.wanted = ma.selected,
         !.clean = ma.cached = ma.server /\ ma.sent = {}]

AllSucceeded(waiting) == waiting = {}

(* An update of the running save, or of one that has failed already. *)
UpdateAnswered(update, s) ==
    LET waiting == ma.waiting \ {update.id}
    IN  IF ma.phase # "updates" \/ update.save # ma.saves THEN s
        ELSE [s EXCEPT !.waiting = waiting,
                       !.phase = IF AllSucceeded(waiting) THEN "refetch" ELSE "updates"]

UpdateSucceeds(update) ==
    ma' = UpdateAnswered(update, [ma EXCEPT !.sent = @ \ {update}, !.server[update.id] = update.list])

(* Rejected, or applied with the answer lost. *)
UpdateRejected(update, applied) ==
    LET s == [ma EXCEPT !.sent = @ \ {update}, !.clean = FALSE,
                        !.server[update.id] = IF applied THEN update.list ELSE @]
    IN  ma' = IF ma.phase = "updates" /\ update.save = ma.saves
                THEN [s EXCEPT !.phase = "idle", !.error = TRUE, !.waiting = {}] ELSE s

(* onSuccess awaits the refetch; then the dialog is closed, whichever      *)
(* template it shows by then.                                              *)
SaveDone ==
    /\ ma.phase = "refetch"
    /\ ma' = syncSelection([Fetched(ma) EXCEPT !.phase = "idle", !.target = NoTemplate])

AssignedRefetched ==
    /\ ma.cached # ma.server
    /\ ma' = Fetched(ma)

MANext ==
    \/ CloseAssignment \/ SaveAssignment \/ SaveDone \/ AssignedRefetched
    \/ \E template \in TemplateIds : OpenAssignment(template)
    \/ \E id \in AssignableIds : toggleServiceSelection(id)
    \/ \E update \in ma.sent :
         UpdateSucceeds(update) \/ \E applied \in BOOLEAN : UpdateRejected(update, applied)

-----------------------------------------------------------------------------
(* Properties. *)

MATypeOK ==
    ma # Unmounted =>
      /\ ma.server \in [AssignableIds -> SUBSET TemplateIds]
      /\ ma.cached \in [AssignableIds -> SUBSET TemplateIds]
      /\ ma.target \in TemplateIds \union {NoTemplate}
      /\ ma.selected \subseteq AssignableIds
      /\ ma.phase \in {"idle", "updates", "refetch"}
      /\ ma.phase = "updates" <=> ma.waiting # {}

(* A save that started from current data, and none of whose updates        *)
(* failed, leaves the template on the services that were checked, and on   *)
(* no other one, however its updates interleave.                           *)
AssignedAsChecked ==
    (ma # Unmounted /\ ma.clean /\ ma.phase = "refetch")
      => AppliedServices(ma.server, ma.template) = ma.wanted

(* Saving a dialog whose check marks are as the data gave them sends       *)
(* nothing, whatever was refetched or saved while it was open.             *)
UntouchedDialogSendsNothing ==
    (ma # Unmounted /\ ma.target # NoTemplate /\ ma.toggled = {}) => ChangedServices = {}

(* Whether the updates that are applied in a step change only membership   *)
(* in the template of their own save.                                      *)
OwnTemplateOnly ==
    \A update \in ma.sent \ ma'.sent :
      ma'.server[update.id] \ {update.template} = ma.server[update.id] \ {update.template}

(* A save with which nothing interfered leaves the other templates of      *)
(* every service alone.                                                    *)
CleanSaveKeepsOthers == [][(ma # Unmounted /\ ma' # Unmounted /\ ma.clean) => OwnTemplateOnly]_ma

=============================================================================
