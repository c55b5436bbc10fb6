----------------------------- MODULE ActiveSlot -----------------------------
(***************************************************************************)
(* What blue-green deployment promises, without containers, files or       *)
(* commands: one slot is active, it is always a running one, and the       *)
(* background work moves between slots only by way of nobody doing it.     *)
(***************************************************************************)
CONSTANT Slot

VARIABLES
  active,    \* the slot requests are routed to
  running,   \* slots whose containers are started
  workers    \* slots doing background work

avars == <<active, running, workers>>

AInit ==
  /\ active \in Slot
  /\ running = {active}
  /\ workers = {}

\* A slot is started, or restarted in place; work of its old process ends.
Launch(s) ==
  /\ running' = running \cup {s}
  /\ workers' \in {workers, workers \ {s}}
  /\ UNCHANGED active

\* Only a slot that is not active is stopped.
Retire(s) ==
  /\ s # active
  /\ running' = running \ {s}
  /\ workers' \in {workers, workers \ {s}}
  /\ UNCHANGED active

\* Requests move to a slot that is already running.
Switch(s) ==
  /\ s \in running
  /\ active' = s
  /\ UNCHANGED <<running, workers>>

Take(s) ==
  /\ workers = {}
  /\ workers' = {s}
  /\ UNCHANGED <<active, running>>

\* Work stops, on one slot or with the host.
Drop ==
  /\ \E gone \in SUBSET workers : workers' = workers \ gone
  /\ UNCHANGED <<active, running>>

ANext == Drop \/ \E s \in Slot : Launch(s) \/ Retire(s) \/ Switch(s) \/ Take(s)

ASpec == AInit /\ [][ANext]_avars

=============================================================================
