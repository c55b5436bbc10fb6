-------------------------- MODULE MaintenancePanel --------------------------
(***************************************************************************)
(* The maintenance schedule on the overview page: the services that are in *)
(* maintenance ordered by the end of it, the first few of them unless the  *)
(* list is expanded, with buttons to extend or to end the maintenance, an  *)
(* editor for its end, and a history of one service that the address bar   *)
(* remembers.  Time is counted in hours; the end 0 means "no end".         *)
(***************************************************************************)
EXTENDS Browser, Naturals, FiniteSets

CONSTANTS
    ScheduleIds,     \* the services
    CollapsedRows,   \* rows of the collapsed list (3 in the code)
    MaxHours,        \* bound: ends of maintenance
    MaxUpdates       \* bound: updates made here or by other administrators

ASSUME MaintenanceAssumption == MaxHours \in Nat

ActiveService == MaxHours + 1
NoEnd == 0
NoHistory == "no history"
NoUpdate == [phase |-> "none"]
Untyped == MaxHours + 2

VARIABLE mp

Ends == {ActiveService} \union 0..MaxHours

MPMounted ==
    \E ends \in [ScheduleIds -> {NoEnd, 1}], open \in ScheduleIds \union {NoHistory} :
      mp = [server |-> ends, cached |-> ends, clock |-> 0, updates |-> 0,
            showAll |-> FALSE, url |-> open, history |-> open,
            typed |-> [id \in ScheduleIds |-> [value |-> Untyped, of |-> ends[id]]],
            update |-> NoUpdate]

-----------------------------------------------------------------------------
(* getMaintenanceSchedule and the rows on screen. *)

Entries == {id \in ScheduleIds : mp.cached[id] # ActiveService}

EndsNoLater(a, b) ==
    mp.cached[b] = NoEnd \/ (mp.cached[a] # NoEnd /\ mp.cached[a] <= mp.cached[b])

(* In place of isExpanded: a deep link does not expand. *)
ExpandedByButton == mp.showAll

isExpanded == mp.showAll \/ mp.history # NoHistory

(* The prefix of a list ordered by the end; equal ends keep their order.   *)
VisibleRows ==
    IF isExpanded THEN {Entries}
    ELSE {rows \in SUBSET Entries :
            /\ Cardinality(rows) = IF Cardinality(Entries) < CollapsedRows
                                     THEN Cardinality(Entries) ELSE CollapsedRows
            /\ \A a \in rows, b \in Entries \ rows : EndsNoLater(a, b)}

OnScreen(id) == id \in Entries /\ \E rows \in VisibleRows : id \in rows

(* The timer of the panel only renews how long a maintenance lasts still;  *)
(* an extension reads the clock itself.                                    *)
MaintenanceClockTicks == mp.clock < 2 /\ mp' = [mp EXCEPT !.clock = @ + 1]

-----------------------------------------------------------------------------
(* The history and the list. *)

(* In place of replaceMaintenanceHistoryServiceId: nothing is written. *)
ForgetUrl(s, id) == s

replaceMaintenanceHistoryServiceId(s, id) == [s EXCEPT !.url = id]

handleHistoryToggle(id) ==
    /\ OnScreen(id)
    /\ LET next == IF mp.history = id THEN NoHistory ELSE id
       IN  mp' = replaceMaintenanceHistoryServiceId([mp EXCEPT !.history = next], next)

CloseList(s) == replaceMaintenanceHistoryServiceId(
                  [s EXCEPT !.showAll = FALSE, !.history = NoHistory], NoHistory)

handleScheduleToggle ==
    /\ Cardinality(Entries) > CollapsedRows
    /\ mp' = IF isExpanded THEN CloseList(mp) ELSE [mp EXCEPT !.showAll = TRUE]

ReloadPanel ==
    mp' = [mp EXCEPT !.history = mp.url, !.showAll = FALSE, !.update = NoUpdate,
                     !.typed = [id \in ScheduleIds |-> [value |-> Untyped, of |-> mp.server[id]]],
                     !.cached = mp.server]

-----------------------------------------------------------------------------
(* Updates.  One at a time: isPending disables the buttons of every row,   *)
(* until the refetch that follows the update has ended.                    *)

(* In place of extendMaintenanceUntil: an end in the past is extended. *)
ExtendFromEnd(until, hours) == until + hours

extendMaintenanceUntil(until, hours) ==
    (IF until = NoEnd \/ until < mp.clock THEN mp.clock ELSE until) + hours

(* The editor is keyed by the end that it edits, and is not rendered while *)
(* the row is updated.                                                     *)
EditorsKept(s) == s.typed
Editors(s) ==
    [id \in ScheduleIds |->
       IF s.typed[id].of # s.cached[id] \/ (s.update # NoUpdate /\ s.update.id = id)
         THEN [value |-> Untyped, of |-> s.cached[id]] ELSE s.typed[id]]

StartUpdate(id, kind, until) ==
    /\ OnScreen(id) /\ mp.update = NoUpdate /\ mp.updates < MaxUpdates
    /\ until \in Ends
    /\ LET next == [mp EXCEPT !.updates = @ + 1,
                              !.update = [phase |-> "sent", id |-> id, kind |-> kind,
                                          until |-> until, base |-> mp.cached[id],
                                          least |-> mp.clock]]
       IN  mp' = [next EXCEPT !.typed = Editors(next)]

handleExtend(id, hours) ==
    StartUpdate(id, "extend", extendMaintenanceUntil(mp.cached[id], hours))

handleActivate(id) == StartUpdate(id, "activate", ActiveService)

TypeUntil(id, until) ==
    /\ OnScreen(id) /\ mp.update = NoUpdate
    /\ mp' = [mp EXCEPT !.typed[id].value = until]

(* The stored end in the field, if nothing was typed. *)
handleSetUntil(id) ==
    LET value == IF mp.typed[id].value = Untyped THEN mp.typed[id].of ELSE mp.typed[id].value
    IN  /\ value # NoEnd
        /\ StartUpdate(id, "set", value)

UpdateApplied ==
    /\ mp.update.phase = "sent"
    /\ mp' = [mp EXCEPT !.server[mp.update.id] = mp.update.until, !.update.phase = "refetch"]

(* Rejected, or settled after the refetch. *)
UpdateEnds ==
    /\ mp.update # NoUpdate
    /\ LET fresh == IF mp.update.phase = "refetch" THEN mp.server ELSE mp.cached
           next == [mp EXCEPT !.update = NoUpdate, !.cached = fresh]
       IN  mp' = [next EXCEPT !.typed = Editors(next)]

ScheduleRefetched ==
    /\ mp.cached # mp.server
    /\ LET next == [mp EXCEPT !.cached = mp.server]
       IN  mp' = [next EXCEPT !.typed = Editors(next)]

(* The maintenance ends by itself, or another administrator changes it. *)
Expires(id) ==
    /\ mp.server[id] \in 1..mp.clock
    /\ mp' = [mp EXCEPT !.server[id] = ActiveService]

OtherUpdates(id, until) ==
    /\ mp.updates < MaxUpdates /\ mp.server[id] # until
    /\ mp' = [mp EXCEPT !.server[id] = until, !.updates = @ + 1]

MPNext ==
    \/ MaintenanceClockTicks \/ handleScheduleToggle \/ ReloadPanel
    \/ UpdateApplied \/ UpdateEnds \/ ScheduleRefetched
    \/ \E id \in ScheduleIds :
         \/ handleHistoryToggle(id) \/ handleActivate(id) \/ handleSetUntil(id) \/ Expires(id)
         \/ \E hours \in {1, 2} : handleExtend(id, hours)
         \/ TypeUntil(id, 2)
         \/ \E until \in {1, MaxHours} : OtherUpdates(id, until)

-----------------------------------------------------------------------------
(* Properties. *)

MPTypeOK ==
    mp # Unmounted =>
      /\ mp.server \in [ScheduleIds -> Ends] /\ mp.cached \in [ScheduleIds -> Ends]
      /\ mp.history \in ScheduleIds \union {NoHistory}

(* The history in the address bar is the one on screen, so a reload of the *)
(* page, or the link in a colleague's browser, opens the same one.         *)
MaintenanceLinkRestores == mp # Unmounted => mp.url = mp.history

(* The row whose history is open, by a click or by a link, is never among  *)
(* the rows that the collapsed list hides.                                 *)
OpenHistoryVisible ==
    mp # Unmounted => \A rows \in VisibleRows : mp.history \in Entries => mp.history \in rows

\* The server has an end that is later than the click and than the end on screen.
EndMovesOut ==
    LET id == mp.update.id
    IN  /\ mp'.server[id] > mp.update.least
        /\ mp.server[id] = mp.update.base => mp'.server[id] > mp.server[id]

(* An extension lengthens: the new end is at least the extension away from *)
(* the moment of the click, and later than the end it replaces, unless     *)
(* somebody else changed that end after it was fetched.                    *)
ExtensionLengthens ==
    [][(mp # Unmounted /\ mp' # Unmounted /\ mp.update.phase = "sent"
          /\ mp'.update.phase = "refetch" /\ mp.update.kind = "extend") => EndMovesOut]_mp

(* What the editor holds was typed against the end that the row shows: a   *)
(* new end discards it, however the refetch and the typing interleave.     *)
EditorOfShownEnd ==
    mp # Unmounted => \A id \in ScheduleIds :
      mp.typed[id].value # Untyped => mp.typed[id].of = mp.cached[id]

=============================================================================
