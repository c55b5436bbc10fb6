--------------------------- MODULE BlueGreenProofs ---------------------------
(***************************************************************************)
(* Theorems about BlueGreen for every set of releases, every assignment of *)
(* migrations to them and every bound.  Each rests on inductive invariants *)
(* stated at the end of BlueGreen: LeaderInv for the background work,      *)
(* DeployInv for the route and the slots, FreshLogInv for the leader line, *)
(* MigrationsInv for the shared database, ServiceInv for what serves, and  *)
(* RollbackHasCause and FaithfulInv for failures and the state file.       *)
(***************************************************************************)
EXTENDS BlueGreen, TLAPS

-----------------------------------------------------------------------------
(* Facts about the operators the actions are built from.                   *)

\* opposite_slot names another slot, also for the single-slot installation.
LEMMA OppositeSlot ==
  ASSUME NEW s \in Slots
  PROVE  opposite_slot(s) \in Slots /\ opposite_slot(s) # s
BY DEF opposite_slot, Slots

\* docker start, docker stop and a restart change the status of a container
\* only; a started container stays started under docker start.
LEMMA ContainerOperations ==
  ASSUME NEW c \in Container
  PROVE  /\ DockerStop(c) \in Container /\ DockerStop(c).ver = c.ver
         /\ ~Started(DockerStop(c))
         /\ DockerStart(c) \in Container /\ DockerStart(c).ver = c.ver
         /\ Started(c) => Started(DockerStart(c))
         /\ Started(c) => /\ c.ver \in Versions
                          /\ [c EXCEPT !.status = "starting"] \in Container
                          /\ [c EXCEPT !.status = "up"] \in Container
<1>1. CASE c = Missing
  BY <1>1 DEF DockerStop, DockerStart, Started, Container, Missing
<1>2. CASE c \in [status: {"exited", "starting", "up"}, ver: Versions]
  BY <1>2 DEF DockerStop, DockerStart, Started, Container
<1>. QED BY <1>1, <1>2 DEF Container

\* Containers the script creates, and the one that does not exist yet.
LEMMA NewContainers ==
  /\ Missing \in Container
  /\ \A v \in Versions : /\ [status |-> "starting", ver |-> v] \in Container
                         /\ [status |-> "up", ver |-> v] \in Container
BY DEF Container

-----------------------------------------------------------------------------

\* The variables keep their types: no path of the script puts a slot, a
\* label or a container status outside the sets the code uses.
THEOREM TypeCorrect == Spec => []TypeOK
<1>1. Init => TypeOK
  <2> SUFFICES ASSUME Init PROVE TypeOK
    OBVIOUS
  <2>1. PICK s \in Slots, v \in Versions :
          /\ route = s /\ traefik = s
          /\ stateFile = IF s = "single" THEN NoState ELSE [slot |-> s, ver |-> v]
          /\ schema = Head[v]
          /\ backend = [t \in Slots |-> IF t = s THEN [status |-> "up", ver |-> v] ELSE Missing]
          /\ frontend = backend
          /\ sup = [t \in Slots |-> IF t = s THEN "standby" ELSE "off"]
          /\ prev = s /\ cand = opposite_slot(s) /\ ver = v
    BY DEF Init
  <2>2. backend \in [Slots -> Container] /\ frontend \in [Slots -> Container]
    BY <2>1, NewContainers
  <2>3. sup \in [Slots -> SupStates] /\ synced \in [Slots -> BOOLEAN]
    BY <2>1 DEF Init, SupStates
  <2>4. schema \in Nat /\ stateFile \in StateRecord \cup {NoState}
    BY <2>1, HeadAssumption DEF StateRecord
  <2>. QED
    BY <2>1, <2>2, <2>3, <2>4, OppositeSlot DEF Init, TypeOK, Labels
<1>2. TypeOK /\ [Next]_vars => TypeOK'
  <2> SUFFICES ASSUME TypeOK, [Next]_vars PROVE TypeOK'
    OBVIOUS
  <2> USE DEF TypeOK, containerVars, leaderVars, localVars, countVars, Goto
  <2>1. ASSUME NEW v \in Versions, NEW force \in BOOLEAN, DeployBegin(v, force)
        PROVE  TypeOK'
    <3>1. pc' \in Labels /\ deploys' \in Nat
      BY <2>1 DEF DeployBegin, Labels, BeforeSwitch
    <3>2. prev' \in Slots /\ cand' \in Slots
      BY <2>1, OppositeSlot DEF DeployBegin
    <3>. QED BY <2>1, <3>1, <3>2 DEF DeployBegin
  <2>2. CASE Script
    <3> USE DEF Labels, BeforeSwitch, AfterSwitch, RollingBack
    <3>1. CASE Prepare \/ MigrationPreflight \/ WaitCandidateBackend \/ WaitCandidateFrontend
      BY <3>1 DEF Prepare, MigrationPreflight, WaitCandidateBackend, WaitCandidateFrontend
    <3>2. CASE VerifyCandidate \/ StartProbe \/ RenderRoute \/ WaitTraefikRoute
      BY <3>2 DEF VerifyCandidate, StartProbe, RenderRoute, WaitTraefikRoute
    <3>3. CASE WaitBackgroundLeader \/ PublicProbe \/ WriteState \/ WaitPreviousBackend
      BY <3>3 DEF WaitBackgroundLeader, PublicProbe, WriteState, WaitPreviousBackend, StateRecord
    <3>4. CASE WaitPreviousFrontend \/ RenderPreviousRoute \/ WaitPreviousRoute \/ restore_state
      BY <3>4 DEF WaitPreviousFrontend, RenderPreviousRoute, WaitPreviousRoute, restore_state
    <3>5. CASE StartCandidateBackend
      BY <3>5, NewContainers DEF StartCandidateBackend, ProcessGone, SupStates
    <3>6. CASE StartCandidateFrontend
      BY <3>6, NewContainers DEF StartCandidateFrontend
    <3>7. CASE StopPreviousBackend
      BY <3>7, ContainerOperations DEF StopPreviousBackend, ProcessGone, SupStates
    <3>8. CASE StopPreviousFrontend
      BY <3>8, ContainerOperations DEF StopPreviousFrontend
    <3>9. CASE RestartPreviousBackend
      BY <3>9, ContainerOperations DEF RestartPreviousBackend
    <3>10. CASE RestartPreviousFrontend
      BY <3>10, ContainerOperations DEF RestartPreviousFrontend
    <3>11. CASE RecordSuccess
      BY <3>11 DEF RecordSuccess, Record, HistoryRecord, Outcome
    <3>12. CASE EnterRollback
      BY <3>12 DEF EnterRollback, CommandFails
    <3>13. CASE RollbackFails
      BY <3>13 DEF RollbackFails, CommandFails, Record, HistoryRecord, Outcome
    <3>14. CASE StopCandidate
      <4>1. PICK stopB, stopF \in BOOLEAN :
              /\ backend' = IF candStarted /\ stopB
                   THEN [backend EXCEPT ![cand] = DockerStop(@)] ELSE backend
              /\ frontend' = IF candStarted /\ stopF
                   THEN [frontend EXCEPT ![cand] = DockerStop(@)] ELSE frontend
        BY <3>14 DEF StopCandidate
      <4>5. backend' \in [Slots -> Container] /\ frontend' \in [Slots -> Container]
        BY <4>1, ContainerOperations
      <4>2. sup' \in [Slots -> SupStates] /\ lease' \in Slots \cup {NoSlot}
        BY <3>14 DEF StopCandidate, ProcessGone, SupStates
      <4>3. history' \in HistoryRecord /\ faults' \in Nat
        BY <3>14 DEF StopCandidate, Record, HistoryRecord, Outcome
      <4>. QED BY <3>14, <4>5, <4>2, <4>3 DEF StopCandidate
    <3>. QED BY <2>2, <3>1, <3>2, <3>3, <3>4, <3>5, <3>6, <3>7, <3>8, <3>9, <3>10, <3>11, <3>12, <3>13, <3>14 DEF Script
  <2>3. CASE TraefikReload \/ ProbeSampleFails \/ ScriptKilled \/ HostReboots
    <3>1. CASE TraefikReload \/ ProbeSampleFails \/ ScriptKilled
      BY <3>1 DEF TraefikReload, ProbeSampleFails, ScriptKilled, Labels
    <3>2. CASE HostReboots
      <4>1. backend' \in [Slots -> Container] /\ frontend' \in [Slots -> Container]
        BY <3>2, ContainerOperations DEF HostReboots
      <4>2. sup' \in [Slots -> SupStates] /\ lease' \in Slots \cup {NoSlot}
        BY <3>2 DEF HostReboots, SupStates
      <4>. QED BY <3>2, <4>1, <4>2 DEF HostReboots, Labels
    <3>. QED BY <2>3, <3>1, <3>2
  <2>4. ASSUME NEW s \in Slots,
               BackendReady(s) \/ FrontendReady(s) \/ BackendCrashes(s) \/ FrontendCrashes(s)
        PROVE  TypeOK'
    <3> DEFINE b == backend[s]
               f == frontend[s]
    <3>0. /\ Started(b) => /\ b.ver \in Versions
                           /\ [b EXCEPT !.status = "starting"] \in Container
                           /\ [b EXCEPT !.status = "up"] \in Container
          /\ Started(f) => /\ [f EXCEPT !.status = "starting"] \in Container
                           /\ [f EXCEPT !.status = "up"] \in Container
      BY ContainerOperations
    <3> USE DEF Started, Up
    <3>1. CASE BackendReady(s)
      <4>1. backend' = [backend EXCEPT ![s] = [b EXCEPT !.status = "up"]]
        BY <3>1 DEF BackendReady
      <4>2. backend' \in [Slots -> Container] /\ schema' \in Nat
        BY <3>0, <3>1, <4>1, HeadAssumption DEF BackendReady
      <4>. QED BY <3>1, <4>2 DEF BackendReady, SupStates
    <3>2. CASE FrontendReady(s)
      <4>1. frontend' = [frontend EXCEPT ![s] = [f EXCEPT !.status = "up"]]
        BY <3>2 DEF FrontendReady
      <4>2. frontend' \in [Slots -> Container]
        BY <3>0, <3>2, <4>1 DEF FrontendReady
      <4>. QED BY <3>2, <4>2 DEF FrontendReady
    <3>3. CASE BackendCrashes(s)
      <4>1. backend' = [backend EXCEPT ![s] = [b EXCEPT !.status = "starting"]]
        BY <3>3 DEF BackendCrashes
      <4>2. backend' \in [Slots -> Container]
        BY <3>0, <3>3, <4>1 DEF BackendCrashes
      <4>. QED BY <3>3, <4>2 DEF BackendCrashes, ProcessGone, SupStates
    <3>4. CASE FrontendCrashes(s)
      <4>1. frontend' = [frontend EXCEPT ![s] = [f EXCEPT !.status = "starting"]]
        BY <3>4 DEF FrontendCrashes
      <4>2. frontend' \in [Slots -> Container]
        BY <3>0, <3>4, <4>1 DEF FrontendCrashes
      <4>. QED BY <3>4, <4>2 DEF FrontendCrashes
    <3>. QED BY <2>4, <3>1, <3>2, <3>3, <3>4
  <2>5. ASSUME NEW s \in Slots, Supervisor(s) \/ RunActiveFails(s) PROVE TypeOK'
    <3> USE DEF SupStates, SupervisorStep
    <3>1. CASE try_acquire_lease(s)
      BY <3>1 DEF try_acquire_lease
    <3>2. CASE SupervisorSeesActive(s) \/ SupervisorSeesInactive(s)
      BY <3>2 DEF SupervisorSeesActive, SupervisorSeesInactive
    <3>3. CASE StartupSyncDone(s) \/ release_lease(s)
      BY <3>3 DEF StartupSyncDone, release_lease
    <3>4. CASE RunActiveFails(s)
      BY <3>4 DEF RunActiveFails
    <3>. QED BY <2>5, <3>1, <3>2, <3>3, <3>4 DEF Supervisor
  <2>6. CASE UNCHANGED vars
    BY <2>6 DEF vars
  <2>. QED BY <2>1, <2>2, <2>3, <2>4, <2>5, <2>6 DEF Next, Environment
<1>. QED BY <1>1, <1>2, PTL DEF Spec

-----------------------------------------------------------------------------
(* Leadership.                                                             *)

\* Killing a process can only end work, and frees its own flock alone.
LEMMA ProcessGoneLeader ==
  ASSUME TypeOK, LeaderInv, NEW s \in Slots, ProcessGone(s)
  PROVE  LeaderInv'
BY DEF TypeOK, LeaderInv, ProcessGone, Working

\* Every step preserves "the worker holds the flock".
LEMMA LeaderInvStep == TypeOK /\ LeaderInv /\ [Next]_vars => LeaderInv'
<1> SUFFICES ASSUME TypeOK, LeaderInv, [Next]_vars PROVE LeaderInv'
  OBVIOUS
<1>0. ASSUME UNCHANGED <<sup, lease>> PROVE LeaderInv'
  BY <1>0 DEF LeaderInv
<1> USE DEF leaderVars
<1>1. ASSUME NEW v \in Versions, NEW force \in BOOLEAN, DeployBegin(v, force)
      PROVE  LeaderInv'
  BY <1>0, <1>1 DEF DeployBegin
<1>2. CASE Script
  <2>1. CASE StartCandidateBackend \/ StopPreviousBackend
    BY <2>1, ProcessGoneLeader DEF StartCandidateBackend, StopPreviousBackend, TypeOK
  <2>2. CASE StopCandidate
    BY <2>2, <1>0, ProcessGoneLeader DEF StopCandidate, TypeOK
  <2>3. CASE ~(StartCandidateBackend \/ StopPreviousBackend \/ StopCandidate)
    <3>1. UNCHANGED <<sup, lease>>
      BY <1>2, <2>3 DEF Script, Prepare, MigrationPreflight, WaitCandidateBackend,
        StartCandidateFrontend, WaitCandidateFrontend, VerifyCandidate, StartProbe,
        RenderRoute, WaitTraefikRoute, WaitBackgroundLeader, PublicProbe, WriteState,
        StopPreviousFrontend, RecordSuccess, EnterRollback, RestartPreviousBackend,
        WaitPreviousBackend, RestartPreviousFrontend, WaitPreviousFrontend,
        RenderPreviousRoute, WaitPreviousRoute, restore_state, RollbackFails
    <3>. QED BY <3>1, <1>0
  <2>. QED BY <2>1, <2>2, <2>3
<1>3. CASE Environment
  <2>1. CASE TraefikReload \/ ProbeSampleFails \/ ScriptKilled
    BY <2>1, <1>0 DEF TraefikReload, ProbeSampleFails, ScriptKilled
  <2>2. CASE HostReboots
    BY <2>2 DEF HostReboots, LeaderInv, Working
  <2>3. ASSUME NEW s \in Slots, FrontendReady(s) \/ FrontendCrashes(s)
        PROVE  LeaderInv'
    BY <2>3, <1>0 DEF FrontendReady, FrontendCrashes
  <2>4. ASSUME NEW s \in Slots, BackendReady(s) \/ RunActiveFails(s)
        PROVE  LeaderInv'
    BY <2>4 DEF BackendReady, RunActiveFails, LeaderInv, Working, TypeOK
  <2>5. ASSUME NEW s \in Slots, BackendCrashes(s) PROVE LeaderInv'
    BY <2>5, ProcessGoneLeader DEF BackendCrashes
  <2>. QED BY <1>3, <2>1, <2>2, <2>3, <2>4, <2>5 DEF Environment
<1>4. ASSUME NEW s \in Slots, Supervisor(s) PROVE LeaderInv'
  <2> USE DEF LeaderInv, Working, TypeOK, SupervisorStep
  <2>1. CASE SupervisorSeesActive(s) \/ SupervisorSeesInactive(s) \/ StartupSyncDone(s)
    BY <2>1 DEF SupervisorSeesActive, SupervisorSeesInactive, StartupSyncDone
  <2>2. CASE try_acquire_lease(s)
    BY <2>2 DEF try_acquire_lease, NoSlot, Slots
  <2>3. CASE release_lease(s)
    BY <2>3 DEF release_lease
  <2>. QED BY <1>4, <2>1, <2>2, <2>3 DEF Supervisor
<1>5. CASE UNCHANGED vars
  BY <1>0, <1>5 DEF vars
<1>. QED BY <1>1, <1>2, <1>3, <1>4, <1>5 DEF Next

\* At most one backend does background work, however many releases,
\* deployments, crashes and kills there are.
THEOREM LeaderExclusion == Spec => []SingleLeader
<1>1. Init => LeaderInv
  BY DEF Init, LeaderInv, Working
<1>2. LeaderInv => SingleLeader
  BY DEF LeaderInv, SingleLeader
<1>. QED BY <1>1, <1>2, TypeCorrect, LeaderInvStep, PTL DEF Spec

-----------------------------------------------------------------------------
(* The route, the state file and the history.                              *)

deployVars == <<route, stateFile, prev, cand, ver, backup, switched>>

\* Docker and the host restart containers; they neither stop nor replace one.
KeepsContainers ==
  \A t \in Slots : /\ Started(backend[t]) <=> Started(backend'[t])
                   /\ Started(frontend[t]) <=> Started(frontend'[t])
                   /\ backend'[t].ver = backend[t].ver
                   /\ frontend'[t].ver = frontend[t].ver

LEMMA EnvironmentKeepsContainers ==
  ASSUME TypeOK, Environment
  PROVE  KeepsContainers /\ UNCHANGED deployVars /\ pc' \in {pc, "idle"}
<1> USE DEF deployVars, localVars, containerVars, TypeOK
<1>1. CASE TraefikReload \/ ProbeSampleFails \/ ScriptKilled
  BY <1>1 DEF TraefikReload, ProbeSampleFails, ScriptKilled, KeepsContainers
<1>2. CASE HostReboots
  <2>1. ASSUME NEW c \in Container, Started(c)
        PROVE  /\ Started([c EXCEPT !.status = "starting"])
               /\ [c EXCEPT !.status = "starting"].ver = c.ver
    BY <2>1 DEF Started, Container, Missing
  <2>2. KeepsContainers
    BY <1>2, <2>1 DEF HostReboots, KeepsContainers
  <2>. QED BY <1>2, <2>2 DEF HostReboots
<1>3. ASSUME NEW s \in Slots,
             BackendReady(s) \/ FrontendReady(s) \/ BackendCrashes(s)
               \/ FrontendCrashes(s) \/ RunActiveFails(s)
      PROVE  KeepsContainers /\ UNCHANGED deployVars /\ pc' = pc
  <2>1. ASSUME NEW c \in Container, NEW st \in {"starting", "up"}, Started(c)
        PROVE  /\ Started([c EXCEPT !.status = st])
               /\ [c EXCEPT !.status = st].ver = c.ver
    BY <2>1 DEF Started, Container, Missing
  <2>2. KeepsContainers
    <3>1. CASE BackendReady(s)
      BY <2>1, <3>1 DEF BackendReady, KeepsContainers, Started
    <3>2. CASE FrontendReady(s)
      BY <2>1, <3>2 DEF FrontendReady, KeepsContainers, Started
    <3>3. CASE BackendCrashes(s)
      BY <2>1, <3>3 DEF BackendCrashes, KeepsContainers, Started, Up
    <3>4. CASE FrontendCrashes(s)
      BY <2>1, <3>4 DEF FrontendCrashes, KeepsContainers, Started, Up
    <3>5. CASE RunActiveFails(s)
      BY <3>5 DEF RunActiveFails, KeepsContainers
    <3>. QED BY <1>3, <3>1, <3>2, <3>3, <3>4, <3>5
  <2>. QED BY <1>3, <2>2 DEF BackendReady, FrontendReady, BackendCrashes,
                             FrontendCrashes, RunActiveFails
<1>. QED BY <1>1, <1>2, <1>3 DEF Environment

\* Every step preserves what is known at each command of the script.
LEMMA DeployInvStep == TypeOK /\ DeployInv /\ [Next]_vars => DeployInv'
<1> SUFFICES ASSUME TypeOK, DeployInv, [Next]_vars PROVE DeployInv'
  OBVIOUS
<1> USE DEF containerVars, localVars, Goto
<1>0. ASSUME KeepsContainers, UNCHANGED deployVars, pc' \in {pc, "idle"}
      PROVE  DeployInv'
  BY <1>0 DEF DeployInv, TypeOK, KeepsContainers, deployVars, SlotStarted,
              BeforeSwitch, AfterSwitch, CandidateBackendStarted, CandidateFrontendStarted
<1>1. ASSUME NEW v \in Versions, NEW force \in BOOLEAN, DeployBegin(v, force)
      PROVE  DeployInv'
  BY <1>1, OppositeSlot DEF DeployBegin, DeployInv, TypeOK, SlotStarted,
     BeforeSwitch, AfterSwitch, CandidateBackendStarted, CandidateFrontendStarted
<1>2. CASE Script
  <2> USE DEF DeployInv, TypeOK, SlotStarted, BeforeSwitch, AfterSwitch,
              CandidateBackendStarted, CandidateFrontendStarted
  <2>1. CASE Prepare \/ MigrationPreflight \/ WaitCandidateBackend
    BY <2>1 DEF Prepare, MigrationPreflight, WaitCandidateBackend
  <2>2. CASE StartCandidateBackend
    BY <2>2 DEF StartCandidateBackend, Started
  <2>3. CASE StartCandidateFrontend
    BY <2>3 DEF StartCandidateFrontend, Started
  <2>4. CASE WaitCandidateFrontend \/ VerifyCandidate \/ StartProbe
    BY <2>4 DEF WaitCandidateFrontend, VerifyCandidate, StartProbe
  <2>5. CASE RenderRoute
    BY <2>5 DEF RenderRoute
  <2>6. CASE WaitTraefikRoute \/ WaitBackgroundLeader \/ PublicProbe \/ WriteState
    BY <2>6 DEF WaitTraefikRoute, WaitBackgroundLeader, PublicProbe, WriteState
  <2>7. CASE StopPreviousBackend
    BY <2>7, ContainerOperations DEF StopPreviousBackend
  <2>8. CASE StopPreviousFrontend
    BY <2>8, ContainerOperations DEF StopPreviousFrontend
  <2>9. CASE RecordSuccess \/ RollbackFails
    BY <2>9 DEF RecordSuccess, RollbackFails
  <2>10. CASE EnterRollback
    BY <2>10 DEF EnterRollback
  <2>11. CASE RestartPreviousBackend
    BY <2>11, ContainerOperations DEF RestartPreviousBackend
  <2>12. CASE RestartPreviousFrontend
    BY <2>12, ContainerOperations DEF RestartPreviousFrontend
  <2>13. CASE WaitPreviousBackend \/ WaitPreviousFrontend
    BY <2>13 DEF WaitPreviousBackend, WaitPreviousFrontend, Up, Started
  <2>14. CASE RenderPreviousRoute
    BY <2>14 DEF RenderPreviousRoute
  <2>15. CASE WaitPreviousRoute \/ restore_state
    BY <2>15 DEF WaitPreviousRoute, restore_state
  <2>16. CASE StopCandidate
    BY <2>16, ContainerOperations DEF StopCandidate
  <2>. QED BY <1>2, <2>1, <2>2, <2>3, <2>4, <2>5, <2>6, <2>7, <2>8, <2>9, <2>10,
              <2>11, <2>12, <2>13, <2>14, <2>15, <2>16 DEF Script
<1>3. CASE Environment
  BY <1>0, <1>3, EnvironmentKeepsContainers
<1>4. ASSUME NEW s \in Slots, Supervisor(s) PROVE DeployInv'
  <2>1. KeepsContainers /\ UNCHANGED deployVars /\ pc' = pc
    BY <1>4 DEF Supervisor, SupervisorSeesActive, SupervisorSeesInactive,
       StartupSyncDone, try_acquire_lease, release_lease, KeepsContainers, deployVars
  <2>. QED BY <1>0, <2>1
<1>5. CASE UNCHANGED vars
  BY <1>0, <1>5 DEF vars, deployVars, KeepsContainers
<1>. QED BY <1>1, <1>2, <1>3, <1>4, <1>5 DEF Next

LEMMA DeployInvInit == Init => DeployInv
BY OppositeSlot DEF Init, DeployInv, SlotStarted, Started, BeforeSwitch, AfterSwitch,
   CandidateBackendStarted, CandidateFrontendStarted

\* The slot the route file names always has its two containers started:
\* after every command, on every rollback path, and wherever the script is
\* killed or the host goes down.
THEOREM RouteAlwaysStarted == Spec => []RoutedSlotStarted
<1>1. DeployInv => RoutedSlotStarted
  BY DEF DeployInv, RoutedSlotStarted
<1>. QED BY <1>1, TypeCorrect, DeployInvInit, DeployInvStep, PTL DEF Spec

\* What HistoryTruthful asks of one step.
TruthfulStep ==
  history' # history =>
    /\ history'.active = route'
    /\ history'.status \in {"failed_before_switch", "rolled_back"} =>
         route' = prev /\ stateFile' = backup
    /\ history'.status = "success" =>
         /\ stateFile' = [slot |-> route', ver |-> ver]
         /\ backend[route'].ver = ver /\ frontend[route'].ver = ver
         /\ ~Started(backend'[prev]) /\ ~Started(frontend'[prev])

LEMMA HistoryStep == DeployInv /\ [Next]_vars => [TruthfulStep]_vars
<1> SUFFICES ASSUME DeployInv, Next PROVE TruthfulStep
  OBVIOUS
<1> USE DEF containerVars, localVars, Goto
<1>1. CASE RecordSuccess
  BY <1>1 DEF RecordSuccess, Record, TruthfulStep, DeployInv, AfterSwitch,
     CandidateBackendStarted, CandidateFrontendStarted
<1>2. CASE RollbackFails
  BY <1>2 DEF RollbackFails, Record, TruthfulStep
<1>3. CASE StopCandidate
  BY <1>3 DEF StopCandidate, Record, TruthfulStep, DeployInv
<1>4. CASE ~(RecordSuccess \/ RollbackFails \/ StopCandidate)
  <2>1. CASE Script
    BY <1>4, <2>1 DEF TruthfulStep, Script, Prepare, MigrationPreflight,
        StartCandidateBackend, WaitCandidateBackend,
        StartCandidateFrontend, WaitCandidateFrontend, VerifyCandidate, StartProbe,
        RenderRoute, WaitTraefikRoute, StopPreviousBackend, WaitBackgroundLeader,
        PublicProbe, WriteState, StopPreviousFrontend, EnterRollback,
        RestartPreviousBackend, WaitPreviousBackend, RestartPreviousFrontend,
        WaitPreviousFrontend, RenderPreviousRoute, WaitPreviousRoute, restore_state
  <2>2. CASE Environment
    BY <2>2 DEF TruthfulStep, Environment, TraefikReload, ProbeSampleFails,
        ScriptKilled, HostReboots, BackendReady, FrontendReady, BackendCrashes,
        FrontendCrashes, RunActiveFails
  <2>3. ASSUME NEW s \in Slots, Supervisor(s) PROVE TruthfulStep
    BY <2>3 DEF TruthfulStep, Supervisor, SupervisorSeesActive, try_acquire_lease,
        StartupSyncDone, SupervisorSeesInactive, release_lease
  <2>4. ASSUME NEW v \in Versions, NEW force \in BOOLEAN, DeployBegin(v, force)
        PROVE  TruthfulStep
    BY <2>4 DEF TruthfulStep, DeployBegin
  <2>. QED BY <2>1, <2>2, <2>3, <2>4 DEF Next
<1>. QED BY <1>1, <1>2, <1>3, <1>4

\* Every line of the deployment history is true of the route, the state file
\* and the containers at the moment it is appended.
THEOREM HistoryIsTruthful == Spec => HistoryTruthful
<1>1. HistoryTruthful <=> [][TruthfulStep]_vars
  BY DEF HistoryTruthful, TruthfulStep
<1>. QED BY <1>1, TypeCorrect, DeployInvInit, DeployInvStep, HistoryStep, PTL DEF Spec

-----------------------------------------------------------------------------
(* Refinement of ActiveSlot.                                               *)

\* A step that only ends work is a Drop (of nothing, if it is a stutter).
LEMMA DropStep ==
  ASSUME route' = route, RunningSlots' = RunningSlots, WorkingSlots' \subseteq WorkingSlots
  PROVE  Abstract!ANext
<1>1. WorkingSlots' = WorkingSlots \ (WorkingSlots \ WorkingSlots')
  OBVIOUS
<1>2. Abstract!Drop
  BY <1>1 DEF Abstract!Drop
<1>. QED BY <1>2 DEF Abstract!ANext

\* Ending the process of one slot ends at most its own work.
LEMMA ProcessGoneWork ==
  ASSUME TypeOK, NEW s \in Slots, ProcessGone(s)
  PROVE  WorkingSlots' = WorkingSlots \ {s}
BY DEF TypeOK, ProcessGone, WorkingSlots, Working

\* Commands of the script that change no container and not the route.
QuietScript ==
  \/ Prepare \/ MigrationPreflight \/ WaitCandidateBackend \/ WaitCandidateFrontend
  \/ VerifyCandidate \/ StartProbe \/ WaitTraefikRoute \/ WaitBackgroundLeader
  \/ PublicProbe \/ WriteState \/ RecordSuccess \/ EnterRollback
  \/ WaitPreviousBackend \/ WaitPreviousFrontend \/ WaitPreviousRoute
  \/ restore_state \/ RollbackFails

LEMMA QuietScriptStep == QuietScript => UNCHANGED <<route, backend, frontend, sup>>
BY DEF QuietScript, containerVars, leaderVars, Prepare, MigrationPreflight,
   WaitCandidateBackend, WaitCandidateFrontend, VerifyCandidate, StartProbe,
   WaitTraefikRoute, WaitBackgroundLeader, PublicProbe, WriteState, RecordSuccess,
   EnterRollback, WaitPreviousBackend, WaitPreviousFrontend, WaitPreviousRoute,
   restore_state, RollbackFails

LEMMA RefinementStep ==
  TypeOK /\ LeaderInv /\ DeployInv /\ [Next]_vars => [Abstract!ANext]_Abstract!avars
<1> SUFFICES ASSUME TypeOK, LeaderInv, DeployInv, [Next]_vars PROVE Abstract!ANext
  OBVIOUS
<1>0. ASSUME UNCHANGED <<route, backend, frontend, sup>> PROVE Abstract!ANext
  BY <1>0, DropStep DEF RunningSlots, WorkingSlots, SlotStarted
<1>k. KeepsContainers => RunningSlots' = RunningSlots
  BY DEF KeepsContainers, RunningSlots, SlotStarted
<1> USE DEF containerVars, leaderVars, localVars, Goto
<1>1. ASSUME NEW v \in Versions, NEW force \in BOOLEAN, DeployBegin(v, force)
      PROVE  Abstract!ANext
  BY <1>0, <1>1 DEF DeployBegin
<1>2. CASE Script
  <2> USE DEF TypeOK
  <2>1. CASE QuietScript
    BY <1>0, <2>1, QuietScriptStep
  <2>2. CASE StartCandidateBackend
    <3>1. WorkingSlots' = WorkingSlots \ {cand} /\ route' = route
      BY <2>2, ProcessGoneWork DEF StartCandidateBackend
    <3>2. CASE Started(frontend[cand])
      <4>1. RunningSlots' = RunningSlots \cup {cand}
        BY <2>2, <3>2 DEF StartCandidateBackend, RunningSlots, SlotStarted, Started
      <4>2. Abstract!Launch(cand)
        BY <3>1, <4>1 DEF Abstract!Launch
      <4>. QED BY <4>2 DEF Abstract!ANext
    <3>3. CASE ~Started(frontend[cand])
      <4>1. RunningSlots' = RunningSlots
        BY <2>2, <3>3 DEF StartCandidateBackend, RunningSlots, SlotStarted
      <4>. QED BY <3>1, <4>1, DropStep
    <3>. QED BY <3>2, <3>3
  <2>3. CASE StartCandidateFrontend
    <3>1. Started(backend[cand])
      BY <2>3 DEF StartCandidateFrontend, DeployInv, CandidateBackendStarted
    <3>2. RunningSlots' = RunningSlots \cup {cand} /\ WorkingSlots' = WorkingSlots
      BY <2>3, <3>1 DEF StartCandidateFrontend, RunningSlots, WorkingSlots, SlotStarted, Started
    <3>3. Abstract!Launch(cand)
      BY <2>3, <3>2 DEF Abstract!Launch, StartCandidateFrontend
    <3>. QED BY <3>3 DEF Abstract!ANext
  <2>4. CASE RenderRoute
    <3>1. cand \in RunningSlots
      BY <2>4 DEF RenderRoute, DeployInv, RunningSlots, SlotStarted,
                  CandidateBackendStarted, CandidateFrontendStarted
    <3>2. Abstract!Switch(cand)
      BY <2>4, <3>1 DEF RenderRoute, Abstract!Switch, RunningSlots, WorkingSlots, SlotStarted
    <3>. QED BY <3>2 DEF Abstract!ANext
  <2>5. CASE RenderPreviousRoute
    <3>1. prev \in RunningSlots
      BY <2>5 DEF RenderPreviousRoute, DeployInv, RunningSlots, SlotStarted
    <3>2. Abstract!Switch(prev)
      BY <2>5, <3>1 DEF RenderPreviousRoute, Abstract!Switch, RunningSlots, WorkingSlots, SlotStarted
    <3>. QED BY <3>2 DEF Abstract!ANext
  <2>6. CASE StopPreviousBackend
    <3>1. prev # route
      BY <2>6 DEF StopPreviousBackend, DeployInv, AfterSwitch
    <3>2. RunningSlots' = RunningSlots \ {prev}
      BY <2>6, ContainerOperations DEF StopPreviousBackend, RunningSlots, SlotStarted
    <3>3. WorkingSlots' = WorkingSlots \ {prev}
      BY <2>6, ProcessGoneWork DEF StopPreviousBackend
    <3>4. Abstract!Retire(prev)
      BY <2>6, <3>1, <3>2, <3>3 DEF Abstract!Retire, StopPreviousBackend
    <3>. QED BY <3>4 DEF Abstract!ANext
  <2>7. CASE StopPreviousFrontend
    <3>1. prev # route
      BY <2>7 DEF StopPreviousFrontend, DeployInv, AfterSwitch
    <3>2. RunningSlots' = RunningSlots \ {prev} /\ WorkingSlots' = WorkingSlots
      BY <2>7, ContainerOperations DEF StopPreviousFrontend, RunningSlots, WorkingSlots, SlotStarted
    <3>3. Abstract!Retire(prev)
      BY <2>7, <3>1, <3>2 DEF Abstract!Retire, StopPreviousFrontend
    <3>. QED BY <3>3 DEF Abstract!ANext
  <2>8. CASE RestartPreviousBackend \/ RestartPreviousFrontend
    <3>p. prev' = prev
      BY <2>8 DEF RestartPreviousBackend, RestartPreviousFrontend, localVars
    <3>a. \A t \in Slots \ {prev} : SlotStarted(t)' <=> SlotStarted(t)
      BY <2>8 DEF RestartPreviousBackend, RestartPreviousFrontend, SlotStarted
    <3>b. SlotStarted(prev) => SlotStarted(prev)'
      BY <2>8 DEF RestartPreviousBackend, RestartPreviousFrontend, SlotStarted, Started,
                  DockerStart
    <3>1. RunningSlots' \in {RunningSlots, RunningSlots \cup {prev}}
      <4>1. CASE SlotStarted(prev) \/ ~SlotStarted(prev)'
        <5>1. \A t \in Slots : SlotStarted(t)' <=> SlotStarted(t)
          BY <3>a, <3>b, <3>p, <4>1 DEF SlotStarted
        <5>. QED BY <5>1 DEF RunningSlots, SlotStarted
      <4>2. CASE SlotStarted(prev)' /\ ~SlotStarted(prev)
        <5>1. RunningSlots' = RunningSlots \cup {prev}
          BY <3>a, <3>p, <4>2 DEF RunningSlots, SlotStarted
        <5>. QED BY <5>1
      <4>. QED BY <4>1, <4>2
    <3>2. route' = route /\ WorkingSlots' = WorkingSlots
      BY <2>8 DEF RestartPreviousBackend, RestartPreviousFrontend, WorkingSlots
    <3>3. CASE RunningSlots' = RunningSlots
      BY <3>2, <3>3, DropStep
    <3>4. CASE RunningSlots' = RunningSlots \cup {prev}
      <4>1. Abstract!Launch(prev)
        BY <3>2, <3>4 DEF Abstract!Launch
      <4>. QED BY <4>1 DEF Abstract!ANext
    <3>. QED BY <3>1, <3>3, <3>4
  <2>9. CASE StopCandidate
    <3>1. cand # route /\ route' = route
      BY <2>9 DEF StopCandidate, DeployInv
    <3>2. WorkingSlots' \in {WorkingSlots, WorkingSlots \ {cand}}
      BY <2>9, ProcessGoneWork DEF StopCandidate, WorkingSlots
    <3>3. RunningSlots' \in {RunningSlots, RunningSlots \ {cand}}
      <4>1. PICK stopB, stopF \in BOOLEAN :
              /\ backend' = IF candStarted /\ stopB
                   THEN [backend EXCEPT ![cand] = DockerStop(@)] ELSE backend
              /\ frontend' = IF candStarted /\ stopF
                   THEN [frontend EXCEPT ![cand] = DockerStop(@)] ELSE frontend
        BY <2>9 DEF StopCandidate
      <4>. QED BY <4>1, ContainerOperations DEF RunningSlots, SlotStarted
    <3>4. CASE RunningSlots' = RunningSlots
      BY <3>1, <3>2, <3>4, DropStep
    <3>5. CASE RunningSlots' = RunningSlots \ {cand}
      <4>1. Abstract!Retire(cand)
        BY <3>1, <3>2, <3>5 DEF Abstract!Retire
      <4>. QED BY <4>1 DEF Abstract!ANext
    <3>. QED BY <3>3, <3>4, <3>5
  <2>. QED BY <1>2, <2>1, <2>2, <2>3, <2>4, <2>5, <2>6, <2>7, <2>8, <2>9
           DEF Script, QuietScript
<1>3. CASE Environment
  <2>1. route' = route /\ RunningSlots' = RunningSlots
    BY <1>3, <1>k, EnvironmentKeepsContainers DEF deployVars
  <2>2. WorkingSlots' \subseteq WorkingSlots
    BY <1>3 DEF Environment, TraefikReload, ProbeSampleFails, ScriptKilled, HostReboots,
       BackendReady, FrontendReady, BackendCrashes, FrontendCrashes, RunActiveFails,
       ProcessGone, WorkingSlots, Working, TypeOK
  <2>. QED BY <2>1, <2>2, DropStep
<1>4. ASSUME NEW s \in Slots, Supervisor(s) PROVE Abstract!ANext
  <2>1. route' = route /\ RunningSlots' = RunningSlots
    BY <1>4 DEF Supervisor, SupervisorSeesActive, SupervisorSeesInactive, StartupSyncDone,
       try_acquire_lease, release_lease, RunningSlots, SlotStarted
  <2>2. CASE sup[s] = "eligible" /\ lease = NoSlot /\ try_acquire_lease(s)
    <3>1. WorkingSlots = {}
      BY <2>2 DEF LeaderInv, WorkingSlots, NoSlot, Slots
    <3>2. WorkingSlots' = {s}
      BY <2>2, <3>1 DEF try_acquire_lease, SupervisorStep, WorkingSlots, Working, TypeOK
    <3>3. Abstract!Take(s)
      BY <2>1, <3>1, <3>2 DEF Abstract!Take
    <3>. QED BY <3>3 DEF Abstract!ANext
  <2>3. CASE ~(sup[s] = "eligible" /\ lease = NoSlot /\ try_acquire_lease(s))
    <3>1. WorkingSlots' \subseteq WorkingSlots
      BY <1>4, <2>3 DEF Supervisor, SupervisorStep, SupervisorSeesActive,
         SupervisorSeesInactive, StartupSyncDone, try_acquire_lease, release_lease,
         WorkingSlots, Working, TypeOK
    <3>. QED BY <2>1, <3>1, DropStep
  <2>. QED BY <2>2, <2>3
<1>5. CASE UNCHANGED vars
  BY <1>0, <1>5 DEF vars
<1>. QED BY <1>1, <1>2, <1>3, <1>4, <1>5 DEF Next

LEMMA RefinementInit == Init => Abstract!AInit
BY DEF Init, Abstract!AInit, RunningSlots, WorkingSlots, SlotStarted, Started, Working,
       Missing, Slots

\* The deployment, with its crashes and kills, implements ActiveSlot: an
\* active slot is never stopped, requests move only to a running slot, and
\* background work is taken up only when nobody does it.
THEOREM ImplementsActiveSlot == Spec => RefinesActiveSlot
<1>1. Init => LeaderInv
  BY DEF Init, LeaderInv, Working
<1>2. Spec => [](TypeOK /\ LeaderInv /\ DeployInv)
  BY <1>1, TypeCorrect, LeaderInvStep, DeployInvInit, DeployInvStep, PTL DEF Spec
<1>3. Spec => Abstract!AInit /\ [][Abstract!ANext]_Abstract!avars
  BY <1>2, RefinementInit, RefinementStep, PTL DEF Spec
<1>. QED BY <1>3 DEF RefinesActiveSlot, Abstract!ASpec

-----------------------------------------------------------------------------
(* The leader line.                                                        *)

\* Every step preserves "the candidate is not routed, so it has not led".
LEMMA FreshLogStep == TypeOK /\ DeployInv /\ FreshLogInv /\ [Next]_vars => FreshLogInv'
<1> SUFFICES ASSUME TypeOK, DeployInv, FreshLogInv, [Next]_vars PROVE FreshLogInv'
  OBVIOUS
<1> USE DEF FreshLogInv, CandidateUnrouted
<1>0. ASSUME UNCHANGED <<sup, synced, cand>>, pc' \in {pc, "idle"} PROVE FreshLogInv'
  BY <1>0
<1>c. pc \in CandidateUnrouted => route # cand
  BY DEF DeployInv, BeforeSwitch
<1> USE DEF leaderVars, localVars, countVars, Goto
<1>1. ASSUME NEW v \in Versions, NEW force \in BOOLEAN, DeployBegin(v, force)
      PROVE  FreshLogInv'
  BY <1>1 DEF DeployBegin
<1>2. CASE Script
  <2>1. CASE StartCandidateBackend
    BY <2>1 DEF StartCandidateBackend, ProcessGone, TypeOK
  <2>2. CASE Prepare \/ MigrationPreflight \/ WaitCandidateBackend \/ StartCandidateFrontend
              \/ WaitCandidateFrontend \/ VerifyCandidate \/ StartProbe
    BY <2>2 DEF Prepare, MigrationPreflight, WaitCandidateBackend, StartCandidateFrontend,
        WaitCandidateFrontend, VerifyCandidate, StartProbe
  <2>3. CASE ~(StartCandidateBackend \/ Prepare \/ MigrationPreflight \/ WaitCandidateBackend
              \/ StartCandidateFrontend \/ WaitCandidateFrontend \/ VerifyCandidate \/ StartProbe)
    <3>1. pc' \notin CandidateUnrouted
      BY <1>2, <2>3 DEF Script, RenderRoute, WaitTraefikRoute, StopPreviousBackend,
        WaitBackgroundLeader, PublicProbe, WriteState, StopPreviousFrontend, RecordSuccess,
        EnterRollback, RestartPreviousBackend, WaitPreviousBackend, RestartPreviousFrontend,
        WaitPreviousFrontend, RenderPreviousRoute, WaitPreviousRoute, restore_state,
        RollbackFails, StopCandidate
    <3>. QED BY <3>1
  <2>. QED BY <2>1, <2>2, <2>3
<1>3. CASE Environment
  <2>1. CASE TraefikReload \/ ProbeSampleFails \/ ScriptKilled \/ HostReboots
    BY <1>0, <2>1 DEF TraefikReload, ProbeSampleFails, ScriptKilled, HostReboots
  <2>2. ASSUME NEW s \in Slots,
               FrontendReady(s) \/ FrontendCrashes(s)
        PROVE  FreshLogInv'
    BY <1>0, <2>2 DEF FrontendReady, FrontendCrashes
  <2>3. ASSUME NEW s \in Slots,
               BackendReady(s) \/ BackendCrashes(s) \/ RunActiveFails(s)
        PROVE  FreshLogInv'
    BY <2>3 DEF BackendReady, BackendCrashes, RunActiveFails, ProcessGone, TypeOK
  <2>. QED BY <1>3, <2>1, <2>2, <2>3 DEF Environment
<1>4. ASSUME NEW s \in Slots, Supervisor(s) PROVE FreshLogInv'
  BY <1>4, <1>c DEF Supervisor, SupervisorStep, SupervisorSeesActive, try_acquire_lease,
     StartupSyncDone, SupervisorSeesInactive, release_lease, is_manager_slot_active, TypeOK
<1>5. CASE UNCHANGED vars
  BY <1>0, <1>5 DEF vars
<1>. QED BY <1>1, <1>2, <1>3, <1>4, <1>5 DEF Next

\* The line wait_background_leader_ready waits for cannot be an old one: no
\* supervisor of the candidate gets past the route check before the switch,
\* and the log was emptied when the container was recreated.
THEOREM LeaderLineIsNew == Spec => []LeaderLineIsFresh
<1>1. Init => FreshLogInv
  BY DEF Init, FreshLogInv, CandidateUnrouted
<1>2. FreshLogInv => LeaderLineIsFresh
  BY DEF FreshLogInv, LeaderLineIsFresh, CandidateUnrouted, BeforeSwitch
<1>. QED BY <1>1, <1>2, TypeCorrect, DeployInvInit, DeployInvStep, FreshLogStep, PTL DEF Spec

-----------------------------------------------------------------------------
(* Migrations of two releases on one database.                             *)

\* What the script does to a backend container keeps its release, or makes
\* it the release being deployed.
BackendsKept ==
  \A s \in Slots : /\ backend'[s].ver = backend[s].ver
                   /\ backend'[s] # Missing => backend[s] # Missing
                   /\ Up(backend'[s]) => Up(backend[s])

LEMMA BackendsKeptInv ==
  ASSUME MigrationsInv, BackendsKept, schema' = schema, pc' # "cand_backend"
  PROVE  MigrationsInv'
BY DEF MigrationsInv, MixedReleasesCompatible, BackendsKept

\* Every step preserves "what is pending is marked".
LEMMA MigrationsStep == TypeOK /\ MigrationsInv /\ [Next]_vars => MigrationsInv'
<1> SUFFICES ASSUME TypeOK, MigrationsInv, [Next]_vars PROVE MigrationsInv'
  OBVIOUS
<1>0. ASSUME UNCHANGED <<backend, schema, ver>>, pc' # "cand_backend" \/ pc' = pc
      PROVE  MigrationsInv'
  BY <1>0 DEF MigrationsInv, MixedReleasesCompatible
<1> USE DEF containerVars, localVars, Goto
<1>1. ASSUME NEW v \in Versions, NEW force \in BOOLEAN, DeployBegin(v, force)
      PROVE  MigrationsInv'
  BY <1>1 DEF DeployBegin, MigrationsInv, MixedReleasesCompatible
<1>2. CASE Script
  <2>1. CASE MigrationPreflight
    BY <2>1 DEF MigrationPreflight, check_blue_green_migrations, MigrationsInv,
       MixedReleasesCompatible
  <2>2. CASE StartCandidateBackend
    BY <2>2 DEF StartCandidateBackend, MigrationsInv, MixedReleasesCompatible, Up, TypeOK
  <2>3. CASE StopPreviousBackend
    <3>1. BackendsKept
      BY <2>3 DEF StopPreviousBackend, BackendsKept, DockerStop, Started, Up, TypeOK, Container, Missing
    <3>. QED BY <2>3, <3>1, BackendsKeptInv DEF StopPreviousBackend
  <2>4. CASE RestartPreviousBackend
    <3>1. BackendsKept
      BY <2>4 DEF RestartPreviousBackend, BackendsKept, DockerStart, Up, TypeOK, Container, Missing
    <3>. QED BY <2>4, <3>1, BackendsKeptInv DEF RestartPreviousBackend
  <2>5. CASE StopCandidate
    <3>1. BackendsKept
      BY <2>5 DEF StopCandidate, BackendsKept, DockerStop, Started, Up, TypeOK, Container, Missing
    <3>2. schema' = schema /\ pc' # "cand_backend"
      BY <2>5 DEF StopCandidate
    <3>. QED BY <3>1, <3>2, BackendsKeptInv
  <2>6. CASE ~(MigrationPreflight \/ StartCandidateBackend \/ StopPreviousBackend
               \/ RestartPreviousBackend \/ StopCandidate)
    <3>1. UNCHANGED <<backend, schema, ver>> /\ pc' # "cand_backend"
      BY <1>2, <2>6 DEF Script, Prepare, WaitCandidateBackend,
        StartCandidateFrontend, WaitCandidateFrontend, VerifyCandidate, StartProbe,
        RenderRoute, WaitTraefikRoute, WaitBackgroundLeader, PublicProbe, WriteState,
        StopPreviousFrontend, RecordSuccess, EnterRollback,
        WaitPreviousBackend, RestartPreviousFrontend, WaitPreviousFrontend,
        RenderPreviousRoute, WaitPreviousRoute, restore_state, RollbackFails
    <3>. QED BY <3>1, <1>0
  <2>. QED BY <2>1, <2>2, <2>3, <2>4, <2>5, <2>6
<1>3. CASE Environment
  <2>1. CASE TraefikReload \/ ProbeSampleFails \/ ScriptKilled
    BY <1>0, <2>1 DEF TraefikReload, ProbeSampleFails, ScriptKilled
  <2>2. CASE HostReboots
    <3>1. BackendsKept
      BY <2>2 DEF HostReboots, BackendsKept, Started, Up, TypeOK, Container, Missing
    <3>. QED BY <2>2, <3>1, BackendsKeptInv DEF HostReboots
  <2>3. ASSUME NEW s \in Slots, FrontendReady(s) \/ FrontendCrashes(s) \/ RunActiveFails(s)
        PROVE  MigrationsInv'
    BY <1>0, <2>3 DEF FrontendReady, FrontendCrashes, RunActiveFails
  <2>4. ASSUME NEW s \in Slots, BackendCrashes(s) PROVE MigrationsInv'
    BY <2>4 DEF BackendCrashes, MigrationsInv, MixedReleasesCompatible, Up, TypeOK,
       Container, Missing
  <2>5. ASSUME NEW s \in Slots, BackendReady(s) PROVE MigrationsInv'
    <3>1. /\ backend[s] # Missing /\ backend[s].ver \in Versions
          /\ schema' = Head[backend[s].ver] /\ schema <= schema'
          /\ UNCHANGED ver /\ pc' = pc
      BY <2>5 DEF BackendReady, CanMigrate, TypeOK, Container, Missing
    <3>2. \A t \in Slots : /\ backend'[t].ver = backend[t].ver
                           /\ backend'[t] # Missing => backend[t] # Missing
                           /\ Up(backend'[t]) => t = s \/ Up(backend[t])
                           /\ Up(backend'[t]) => backend[t].ver \in Versions
      BY <2>5 DEF BackendReady, Up, TypeOK, Container, Missing
    <3>3. schema \in Nat /\ schema' \in Nat /\ \A v \in Versions : Head[v] \in Nat
      BY <3>1, HeadAssumption DEF TypeOK
    <3>4. ASSUME NEW r \in (schema + 1)..schema' PROVE r \in Compatible
      BY <3>1, <3>4 DEF MigrationsInv
    <3>5. ASSUME NEW t \in Slots, Up(backend'[t]),
                 NEW r \in (Head[backend'[t].ver] + 1)..schema'
          PROVE  r \in Compatible
      <4>1. CASE t = s
        BY <3>1, <3>2, <3>3, <3>5, <4>1
      <4>2. CASE r <= schema
        <5>1. t # s
          BY <3>1, <3>2, <3>3, <3>5, <4>2
        <5>2. Up(backend[t]) /\ r \in (Head[backend[t].ver] + 1)..schema
          BY <3>2, <3>3, <3>5, <4>2, <5>1
        <5>. QED BY <5>2 DEF MigrationsInv, MixedReleasesCompatible
      <4>3. CASE ~(r <= schema)
        BY <3>2, <3>3, <3>4, <3>5, <4>3
      <4>. QED BY <4>1, <4>2, <4>3
    <3>6. ASSUME NEW t \in Slots, backend'[t] # Missing,
                 NEW r \in (schema' + 1)..Head[backend'[t].ver]
          PROVE  r \in Compatible
      <4>1. backend[t] # Missing /\ backend[t].ver \in Versions
        BY <3>2, <3>6 DEF TypeOK, Container
      <4>2. r \in (schema + 1)..Head[backend[t].ver]
        BY <3>1, <3>2, <3>3, <3>6, <4>1
      <4>. QED BY <4>1, <4>2 DEF MigrationsInv
    <3>7. ASSUME pc' = "cand_backend", NEW r \in (schema' + 1)..Head[ver'] PROVE r \in Compatible
      <4>1. r \in (schema + 1)..Head[ver]
        BY <3>1, <3>3, <3>7 DEF TypeOK
      <4>. QED BY <3>1, <3>7, <4>1 DEF MigrationsInv
    <3>. QED BY <3>5, <3>6, <3>7 DEF MigrationsInv, MixedReleasesCompatible
  <2>. QED BY <1>3, <2>1, <2>2, <2>3, <2>4, <2>5 DEF Environment
<1>4. ASSUME NEW s \in Slots, Supervisor(s) PROVE MigrationsInv'
  BY <1>0, <1>4 DEF Supervisor, SupervisorSeesActive, try_acquire_lease,
     StartupSyncDone, SupervisorSeesInactive, release_lease
<1>5. CASE UNCHANGED vars
  BY <1>0, <1>5 DEF vars
<1>. QED BY <1>1, <1>2, <1>3, <1>4, <1>5 DEF Next

\* Whatever fails, crashes or is killed, the older of two releases that are
\* up meets only schema changes marked as safe for it: the preflight covers
\* every container the candidate may be up beside, later restarts included.
THEOREM MixedReleasesMarked == Spec => []MixedReleasesCompatible
<1>1. Init => MigrationsInv
  BY HeadAssumption DEF Init, MigrationsInv, MixedReleasesCompatible, Missing, Up
<1>2. MigrationsInv => MixedReleasesCompatible
  BY DEF MigrationsInv
<1>. QED BY <1>1, <1>2, TypeCorrect, MigrationsStep, PTL DEF Spec

-----------------------------------------------------------------------------
(* Continuity of the service.                                              *)

\* Nothing has died, and at most one command or background run has failed.
AtMostOneFault == faults <= 1 /\ crashes = 0 /\ kills = 0

\* What goes wrong stays counted.
LEMMA FaultsCounted ==
  ASSUME TypeOK, [Next]_vars
  PROVE  /\ faults' \in {faults, faults + 1}
         /\ crashes' \in {crashes, crashes + 1}
         /\ kills' \in {kills, kills + 1}
         /\ AtMostOneFault' => AtMostOneFault
<1>1. /\ faults' \in {faults, faults + 1}
      /\ crashes' \in {crashes, crashes + 1}
      /\ kills' \in {kills, kills + 1}
  <2> USE DEF countVars
  <2>1. ASSUME NEW v \in Versions, NEW force \in BOOLEAN, DeployBegin(v, force)
        PROVE  UNCHANGED <<faults, crashes, kills>>
    BY <2>1 DEF DeployBegin
  <2>2. CASE Script
    BY <2>2 DEF Script, Prepare, MigrationPreflight,
        StartCandidateBackend, WaitCandidateBackend,
        StartCandidateFrontend, WaitCandidateFrontend, VerifyCandidate, StartProbe,
        RenderRoute, WaitTraefikRoute, StopPreviousBackend, WaitBackgroundLeader,
        PublicProbe, WriteState, StopPreviousFrontend, RecordSuccess, EnterRollback,
        RestartPreviousBackend, WaitPreviousBackend, RestartPreviousFrontend,
        WaitPreviousFrontend, RenderPreviousRoute, WaitPreviousRoute, restore_state,
        RollbackFails, StopCandidate, CommandFails
  <2>3. CASE Environment
    BY <2>3 DEF Environment, TraefikReload, ProbeSampleFails, ScriptKilled, HostReboots,
        BackendReady, FrontendReady, BackendCrashes, FrontendCrashes, RunActiveFails
  <2>4. ASSUME NEW s \in Slots, Supervisor(s) PROVE UNCHANGED <<faults, crashes, kills>>
    BY <2>4 DEF Supervisor, SupervisorSeesActive, try_acquire_lease,
        StartupSyncDone, SupervisorSeesInactive, release_lease
  <2>5. CASE UNCHANGED vars
    BY <2>5 DEF vars
  <2>. QED BY <2>1, <2>2, <2>3, <2>4, <2>5 DEF Next
<1>. QED BY <1>1 DEF AtMostOneFault, TypeOK

\* A container that is up stays up under every operation but docker stop.
LEMMA UpKept ==
  ASSUME NEW c \in Container
  PROVE  /\ Up(c) => Up(DockerStart(c)) /\ DockerStart(c) = c
         /\ Up([c EXCEPT !.status = "up"]) \/ c = Missing
BY DEF Up, DockerStart, Container, Missing

\* Every step preserves what serves at each command of the script.
LEMMA ServiceStep == TypeOK /\ DeployInv /\ ServiceInv /\ [Next]_vars => ServiceInv'
<1> SUFFICES ASSUME TypeOK, DeployInv, ServiceInv, [Next]_vars, AtMostOneFault'
             PROVE  ServiceInv'
  BY DEF ServiceInv, AtMostOneFault
<1>a. AtMostOneFault
  BY FaultsCounted
<1>b. /\ Serving(traefik) /\ Serving(route)
      /\ probe # "failed"
      /\ traefik # route => pc = "wait_route" \/ pc \in RollingBack \ {"rb_restore"}
      /\ pc # "idle" => traefik \in {prev, cand} /\ route \in {prev, cand}
      /\ pc \in {"start_probe", "render"} \cup AfterSwitch \cup RollingBack => Serving(cand)
      /\ pc \in {"rb_frontend", "rb_wait_frontend", "rb_render"} => Up(backend[prev])
      /\ pc = "rb_render" => Up(frontend[prev])
      /\ pc \in RollingBack => faults = 1
  BY <1>a DEF ServiceInv, AtMostOneFault
<1>c. pc # "idle" => cand # prev
  BY DEF DeployInv
<1>d. /\ pc \in BeforeSwitch => route = prev /\ ~switched
      /\ pc \in AfterSwitch => route = cand /\ switched
      /\ pc \in {"rb_wait_route", "rb_restore", "rb_stop_cand"} => route = prev
  BY DEF DeployInv
<1>t. /\ route \in Slots /\ traefik \in Slots /\ prev \in Slots /\ cand \in Slots
      /\ backend \in [Slots -> Container] /\ frontend \in [Slots -> Container]
      /\ faults \in Nat /\ crashes \in Nat /\ kills \in Nat
  BY DEF TypeOK
<1> USE DEF containerVars, localVars, countVars, Goto, RollingBack, AfterSwitch
<1>1. ASSUME NEW v \in Versions, NEW force \in BOOLEAN, DeployBegin(v, force)
      PROVE  ServiceInv'
  BY <1>1, <1>b, <1>t DEF DeployBegin, ServiceInv, Serving
<1>2. CASE Script
  <2>1. CASE Prepare \/ MigrationPreflight \/ WaitCandidateBackend \/ WaitCandidateFrontend
    BY <2>1, <1>b, <1>t DEF Prepare, MigrationPreflight, WaitCandidateBackend,
       WaitCandidateFrontend, ServiceInv, Serving
  <2>2. CASE VerifyCandidate \/ StartProbe
    BY <2>2, <1>b, <1>t DEF VerifyCandidate, StartProbe, ServiceInv, Serving
  <2>3. CASE StartCandidateBackend \/ StartCandidateFrontend
    BY <2>3, <1>b, <1>c, <1>d, <1>t DEF StartCandidateBackend, StartCandidateFrontend, BeforeSwitch,
       ServiceInv, Serving
  <2>4. CASE RenderRoute
    BY <2>4, <1>b, <1>c, <1>d, <1>t DEF RenderRoute, BeforeSwitch, ServiceInv, Serving
  <2>5. CASE WaitTraefikRoute \/ WaitBackgroundLeader \/ PublicProbe \/ WriteState \/ RecordSuccess
    BY <2>5, <1>b, <1>d, <1>t DEF WaitTraefikRoute, WaitBackgroundLeader, PublicProbe, WriteState,
       RecordSuccess, RouteLoaded, ServiceInv, Serving
  <2>6. CASE StopPreviousBackend \/ StopPreviousFrontend
    BY <2>6, <1>b, <1>c, <1>d, <1>t DEF StopPreviousBackend, StopPreviousFrontend, ServiceInv, Serving
  <2>7. CASE EnterRollback
    <3>1. pc' = "rb_stop_cand" => pc \in BeforeSwitch
      BY <2>7, <1>d DEF EnterRollback
    <3>2. pc' \in RollingBack => pc = "render" \/ pc \in AfterSwitch
      BY <2>7, <1>d DEF EnterRollback
    <3>3. pc' \in RollingBack => faults' = 1
      <4>1. pc = "render" \/ pc \in AfterSwitch => ~CheckFails
        BY <1>b DEF CheckFails
      <4>. QED BY <2>7, <3>2, <4>1, <1>a, <1>t DEF EnterRollback, CommandFails, AtMostOneFault
    <3>4. pc' \in {"rb_backend", "rb_stop_cand"}
      BY <2>7 DEF EnterRollback
    <3>5. UNCHANGED <<route, traefik, backend, frontend, prev, cand>> /\ probe' = "off"
      BY <2>7 DEF EnterRollback
    <3>6. pc \in BeforeSwitch \cup AfterSwitch
      BY <2>7 DEF EnterRollback
    <3>. QED BY <3>1, <3>2, <3>3, <3>4, <3>5, <3>6, <1>b, <1>c, <1>d, <1>t
         DEF BeforeSwitch, ServiceInv, Serving
  <2>8. CASE RestartPreviousBackend
    BY <2>8, <1>b, <1>c, <1>t, UpKept DEF RestartPreviousBackend, ServiceInv, Serving
  <2>9. CASE RestartPreviousFrontend
    BY <2>9, <1>b, <1>c, <1>t, UpKept DEF RestartPreviousFrontend, ServiceInv, Serving
  <2>10. CASE WaitPreviousBackend \/ WaitPreviousFrontend
    BY <2>10, <1>b, <1>t DEF WaitPreviousBackend, WaitPreviousFrontend, ServiceInv, Serving
  <2>11. CASE RenderPreviousRoute
    BY <2>11, <1>b, <1>t DEF RenderPreviousRoute, ServiceInv, Serving
  <2>12. CASE WaitPreviousRoute \/ restore_state
    BY <2>12, <1>b, <1>d, <1>t DEF WaitPreviousRoute, restore_state, RouteLoaded, ServiceInv, Serving
  <2>13. CASE RollbackFails
    <3>1. CheckFails
      BY <2>13, <1>b, <1>t DEF RollbackFails, CommandFails, AtMostOneFault
    <3>2. pc = "rb_wait_backend" /\ ~Serving(prev)
      BY <2>13, <3>1 DEF RollbackFails, CheckFails, CannotStart, Serving, Up
    <3>3. traefik = route
      BY <3>2, <1>b
    <3>. QED BY <2>13, <3>3, <1>b, <1>t DEF RollbackFails, ServiceInv, Serving
  <2>14. CASE StopCandidate
    <3>1. traefik = prev /\ route = prev /\ cand # prev
      BY <2>14, <1>b, <1>c, <1>d DEF StopCandidate
    <3>2. backend'[prev] = backend[prev] /\ frontend'[prev] = frontend[prev]
      BY <2>14, <3>1, <1>t DEF StopCandidate
    <3>3. UNCHANGED <<route, traefik, probe>> /\ pc' = "idle"
      BY <2>14 DEF StopCandidate
    <3>. QED BY <3>1, <3>2, <3>3, <1>b DEF ServiceInv, Serving
  <2>. QED BY <1>2, <2>1, <2>2, <2>3, <2>4, <2>5, <2>6, <2>7, <2>8, <2>9, <2>10,
              <2>11, <2>12, <2>13, <2>14 DEF Script
<1>3. CASE Environment
  <2>1. CASE TraefikReload \/ ProbeSampleFails
    BY <2>1, <1>b, <1>t DEF TraefikReload, ProbeSampleFails, ServiceInv, Serving
  <2>2. CASE ScriptKilled \/ HostReboots
    BY <2>2, <1>a, <1>t DEF ScriptKilled, HostReboots, AtMostOneFault
  <2>3. ASSUME NEW s \in Slots, BackendReady(s) PROVE ServiceInv'
    <3>1. /\ UNCHANGED <<route, traefik, frontend, pc, prev, cand, probe, faults>>
          /\ \A t \in Slots : Up(backend[t]) => Up(backend'[t])
      BY <2>3, <1>t DEF BackendReady, Up
    <3>. QED BY <3>1, <1>b, <1>t DEF ServiceInv, Serving
  <2>4. ASSUME NEW s \in Slots, FrontendReady(s) PROVE ServiceInv'
    <3>1. /\ UNCHANGED <<route, traefik, backend, pc, prev, cand, probe, faults>>
          /\ \A t \in Slots : Up(frontend[t]) => Up(frontend'[t])
      BY <2>4, <1>t DEF FrontendReady, Up
    <3>. QED BY <3>1, <1>b, <1>t DEF ServiceInv, Serving
  <2>5. ASSUME NEW s \in Slots, BackendCrashes(s) \/ FrontendCrashes(s) PROVE ServiceInv'
    BY <2>5, <1>a, <1>t DEF BackendCrashes, FrontendCrashes, AtMostOneFault
  <2>6. ASSUME NEW s \in Slots, RunActiveFails(s) PROVE ServiceInv'
    BY <2>6, <1>b, <1>t DEF RunActiveFails, ServiceInv, Serving, AtMostOneFault
  <2>. QED BY <1>3, <2>1, <2>2, <2>3, <2>4, <2>5, <2>6 DEF Environment
<1>4. ASSUME NEW s \in Slots, Supervisor(s) PROVE ServiceInv'
  <2>1. UNCHANGED <<route, traefik, backend, frontend, pc, prev, cand, probe, faults>>
    BY <1>4 DEF Supervisor, SupervisorSeesActive, try_acquire_lease,
        StartupSyncDone, SupervisorSeesInactive, release_lease
  <2>. QED BY <2>1, <1>b DEF ServiceInv, Serving
<1>5. CASE UNCHANGED vars
  BY <1>5, <1>b DEF vars, ServiceInv, Serving
<1>. QED BY <1>1, <1>2, <1>3, <1>4, <1>5 DEF Next

LEMMA ServiceInit == Init => ServiceInv
BY DEF Init, ServiceInv, Serving, Up, RollingBack, AfterSwitch

\* With at most one failing command or background run, and no container
\* lost, the pair of containers Traefik forwards to is up at every moment:
\* switching forward, and switching back when the one fault calls for it.
THEOREM ServiceUninterrupted == Spec => []UninterruptedService
<1>1. ServiceInv => UninterruptedService
  BY DEF ServiceInv, UninterruptedService
<1>. QED BY <1>1, TypeCorrect, DeployInvInit, DeployInvStep, ServiceInit, ServiceStep,
            PTL DEF Spec

-----------------------------------------------------------------------------
(* What it takes for a rollback to fail.                                   *)

LEMMA CauseStep ==
  TypeOK /\ DeployInv /\ ServiceInv /\ RollbackHasCause /\ [Next]_vars => RollbackHasCause'
<1> SUFFICES ASSUME TypeOK, DeployInv, ServiceInv, RollbackHasCause, [Next]_vars, pc' \in RollingBack
             PROVE  Mishaps' >= 1
  BY DEF RollbackHasCause
<1>1. CASE pc \in RollingBack
  BY <1>1, FaultsCounted DEF RollbackHasCause, Mishaps, TypeOK
<1>2. CASE pc \notin RollingBack
  <2>1. EnterRollback
    <3>1. ASSUME Script, ~EnterRollback PROVE FALSE
      BY <3>1, <1>2 DEF Script, Prepare, MigrationPreflight, Goto, RollingBack,
        StartCandidateBackend, WaitCandidateBackend,
        StartCandidateFrontend, WaitCandidateFrontend, VerifyCandidate, StartProbe,
        RenderRoute, WaitTraefikRoute, StopPreviousBackend, WaitBackgroundLeader,
        PublicProbe, WriteState, StopPreviousFrontend, RecordSuccess,
        RestartPreviousBackend, WaitPreviousBackend, RestartPreviousFrontend,
        WaitPreviousFrontend, RenderPreviousRoute, WaitPreviousRoute, restore_state,
        RollbackFails, StopCandidate
    <3>2. ASSUME Environment PROVE FALSE
      BY <3>2, <1>2, EnvironmentKeepsContainers DEF RollingBack
    <3>3. ASSUME NEW s \in Slots, Supervisor(s) PROVE FALSE
      BY <3>3, <1>2 DEF Supervisor, SupervisorSeesActive, try_acquire_lease,
        StartupSyncDone, SupervisorSeesInactive, release_lease
    <3>4. ASSUME NEW v \in Versions, NEW force \in BOOLEAN, DeployBegin(v, force) PROVE FALSE
      BY <3>4 DEF DeployBegin, RollingBack
    <3>. QED BY <1>2, <3>1, <3>2, <3>3, <3>4 DEF Next, vars
  <2>2. pc \in {"render"} \cup AfterSwitch
    BY <2>1 DEF EnterRollback, RollingBack, DeployInv
  <2>3. CASE CheckFails
    <3>1. ~AtMostOneFault
      BY <2>2, <2>3 DEF CheckFails, ServiceInv, AtMostOneFault, AfterSwitch
    <3>. QED BY <3>1, FaultsCounted DEF AtMostOneFault, Mishaps, TypeOK
  <2>4. CASE ~CheckFails
    BY <2>1, <2>4 DEF EnterRollback, CommandFails, Mishaps, TypeOK
  <2>. QED BY <2>3, <2>4
<1>. QED BY <1>1, <1>2

\* A rollback is given up only after a second thing has gone wrong, or when
\* the database has moved past what the previous release can open.
ExplainedStep ==
  history' # history /\ history'.status = "rollback_failed" =>
    Mishaps' >= 2 \/ schema > Head[backend[prev].ver]

LEMMA RollbackFailsExplained ==
  ASSUME TypeOK, RollbackHasCause, RollbackFails
  PROVE  \/ Mishaps' >= 2
         \/ schema > Head[backend[prev].ver] /\ backend[prev].ver \in Versions
<1>1. CASE CheckFails
  <2>1. backend[prev].status = "starting" /\ ~CanMigrate(backend[prev].ver)
    BY <1>1 DEF RollbackFails, CheckFails, CannotStart, RollingBack
  <2>2. backend[prev].ver \in Versions
    BY <2>1 DEF TypeOK, Container, Missing
  <2>3. Head[backend[prev].ver] \in Nat /\ schema \in Nat
    BY <2>2, HeadAssumption DEF TypeOK
  <2>. QED BY <2>1, <2>2, <2>3 DEF CanMigrate
<1>2. CASE ~CheckFails
  <2>1. faults' = faults + 1 /\ crashes' = crashes /\ kills' = kills /\ pc \in RollingBack
    BY <1>2 DEF RollbackFails, CommandFails
  <2>. QED BY <2>1 DEF RollbackHasCause, Mishaps, TypeOK
<1>. QED BY <1>1, <1>2

\* Only RollbackFails writes the line of a failed rollback.
LEMMA FailureLine ==
  ASSUME Next, history' # history, history'.status = "rollback_failed"
  PROVE  RollbackFails
<1> USE DEF Record
<1>1. ASSUME Script PROVE RollbackFails
  BY <1>1 DEF Script, Prepare, MigrationPreflight,
    StartCandidateBackend, WaitCandidateBackend,
    StartCandidateFrontend, WaitCandidateFrontend, VerifyCandidate, StartProbe,
    RenderRoute, WaitTraefikRoute, StopPreviousBackend, WaitBackgroundLeader,
    PublicProbe, WriteState, StopPreviousFrontend, RecordSuccess, EnterRollback,
    RestartPreviousBackend, WaitPreviousBackend, RestartPreviousFrontend,
    WaitPreviousFrontend, RenderPreviousRoute, WaitPreviousRoute, restore_state, StopCandidate
<1>2. ASSUME Environment PROVE FALSE
  BY <1>2 DEF Environment, TraefikReload, ProbeSampleFails,
    ScriptKilled, HostReboots, BackendReady, FrontendReady, BackendCrashes,
    FrontendCrashes, RunActiveFails
<1>3. ASSUME NEW s \in Slots, Supervisor(s) PROVE FALSE
  BY <1>3 DEF Supervisor, SupervisorSeesActive, try_acquire_lease,
    StartupSyncDone, SupervisorSeesInactive, release_lease
<1>4. ASSUME NEW v \in Versions, NEW force \in BOOLEAN, DeployBegin(v, force) PROVE FALSE
  BY <1>4 DEF DeployBegin
<1>. QED BY <1>1, <1>2, <1>3, <1>4 DEF Next

\* The invariants the remaining proofs build on, together.
LEMMA ServiceHolds == Spec => [](TypeOK /\ DeployInv /\ ServiceInv /\ RollbackHasCause)
<1>1. Init => RollbackHasCause
  BY DEF Init, RollbackHasCause, RollingBack
<1>. QED BY <1>1, TypeCorrect, DeployInvInit, DeployInvStep, ServiceInit, ServiceStep,
            CauseStep, PTL DEF Spec

\* Without any assumption on the migrations: a rollback that was entered is
\* given up only after a second mishap, or because the candidate migrated
\* the database past what the previous release ships.
THEOREM RollbackFailureExplained == Spec => [][ExplainedStep]_vars
<1>1. TypeOK /\ RollbackHasCause /\ [Next]_vars => [ExplainedStep]_vars
  BY FailureLine, RollbackFailsExplained DEF ExplainedStep
<1>. QED BY <1>1, ServiceHolds, PTL DEF Spec

\* When all releases ship the same migrations the database never moves.
LEMMA SchemaStays ==
  ASSUME SameMigrations
  PROVE  Spec => [](\A v \in Versions : schema = Head[v])
<1> DEFINE Same == \A v \in Versions : schema = Head[v]
<1>1. Init => Same
  BY DEF Init, SameMigrations
<1>2. TypeOK /\ Same /\ [Next]_vars => Same'
  <2> SUFFICES ASSUME TypeOK, Same, [Next]_vars PROVE Same'
    OBVIOUS
  <2>0. ASSUME schema' = schema PROVE Same'
    BY <2>0
  <2> USE DEF containerVars
  <2>1. ASSUME NEW v \in Versions, NEW force \in BOOLEAN, DeployBegin(v, force) PROVE Same'
    BY <2>0, <2>1 DEF DeployBegin
  <2>2. CASE Script
    BY <2>0, <2>2 DEF Script, Prepare, MigrationPreflight,
        StartCandidateBackend, WaitCandidateBackend,
        StartCandidateFrontend, WaitCandidateFrontend, VerifyCandidate, StartProbe,
        RenderRoute, WaitTraefikRoute, StopPreviousBackend, WaitBackgroundLeader,
        PublicProbe, WriteState, StopPreviousFrontend, RecordSuccess, EnterRollback,
        RestartPreviousBackend, WaitPreviousBackend, RestartPreviousFrontend,
        WaitPreviousFrontend, RenderPreviousRoute, WaitPreviousRoute, restore_state,
        RollbackFails, StopCandidate
  <2>3. ASSUME NEW s \in Slots, BackendReady(s) PROVE Same'
    <3>1. backend[s].ver \in Versions /\ schema' = Head[backend[s].ver]
      BY <2>3 DEF BackendReady, TypeOK, Container, Missing
    <3>. QED BY <3>1 DEF SameMigrations
  <2>4. CASE Environment
    BY <2>0, <2>3, <2>4 DEF Environment, TraefikReload, ProbeSampleFails,
        ScriptKilled, HostReboots, FrontendReady, BackendCrashes,
        FrontendCrashes, RunActiveFails
  <2>5. ASSUME NEW s \in Slots, Supervisor(s) PROVE Same'
    BY <2>0, <2>5 DEF Supervisor, SupervisorSeesActive, try_acquire_lease,
        StartupSyncDone, SupervisorSeesInactive, release_lease
  <2>6. CASE UNCHANGED vars
    BY <2>0, <2>6 DEF vars
  <2>. QED BY <2>1, <2>2, <2>4, <2>5, <2>6 DEF Next
<1>. QED BY <1>1, <1>2, TypeCorrect, PTL DEF Spec

\* Between releases with the same migrations, the history says that a
\* rollback failed only when at least two things have gone wrong.
THEOREM SecondFaultNeeded ==
  ASSUME SameMigrations
  PROVE  Spec => []SecondFaultForRollbackFailure
<1> DEFINE Same == \A v \in Versions : schema = Head[v]
<1>1. Init => SecondFaultForRollbackFailure
  BY DEF Init, SecondFaultForRollbackFailure, NoHistory
<1>2. TypeOK /\ Same /\ RollbackHasCause /\ SecondFaultForRollbackFailure /\ [Next]_vars
        => SecondFaultForRollbackFailure'
  <2> SUFFICES ASSUME TypeOK, Same, RollbackHasCause, SecondFaultForRollbackFailure, [Next]_vars,
                      history'.status = "rollback_failed"
               PROVE  Mishaps' >= 2
    BY DEF SecondFaultForRollbackFailure
  <2>1. CASE history' = history
    BY <2>1, FaultsCounted DEF SecondFaultForRollbackFailure, Mishaps, TypeOK
  <2>2. CASE history' # history
    <3>1. RollbackFails
      BY <2>2, FailureLine DEF vars
    <3>2. backend[prev].ver \in Versions => ~(schema > Head[backend[prev].ver])
      BY DEF TypeOK
    <3>. QED BY <3>1, <3>2, RollbackFailsExplained
  <2>. QED BY <2>1, <2>2
<1>3. Spec => []Same
  BY SchemaStays
<1>. QED BY <1>1, <1>2, <1>3, ServiceHolds, PTL DEF Spec

-----------------------------------------------------------------------------
(* The state file.                                                         *)

LEMMA FaithfulStep ==
  ASSUME TypeOK, DeployInv, RollbackHasCause, FaithfulInv, [Next]_vars,
         \A v \in Versions : schema = Head[v]
  PROVE  FaithfulInv'
<1> SUFFICES ASSUME Mishaps' <= 1, kills' = 0 PROVE FaithfulInv'
  BY DEF FaithfulInv
<1>a. Mishaps <= 1 /\ kills = 0
  BY FaultsCounted DEF Mishaps, TypeOK
<1>b. /\ pc = "idle" => Describes(stateFile, route)
      /\ pc # "idle" => Describes(backup, prev)
  BY <1>a DEF FaithfulInv
<1>c. /\ route \in Slots /\ prev \in Slots /\ cand \in Slots
      /\ backend \in [Slots -> Container] /\ frontend \in [Slots -> Container]
      /\ pc # "idle" => cand # prev
  BY DEF TypeOK, DeployInv
\* A command inside the script that leaves the releases of the previous slot.
<1>d. ASSUME pc # "idle", pc' # "idle", UNCHANGED <<prev, backup>>,
             backend'[prev].ver = backend[prev].ver, frontend'[prev].ver = frontend[prev].ver
      PROVE  FaithfulInv'
  BY <1>b, <1>d DEF FaithfulInv, Describes
\* A step that is not the script's.
<1>e. ASSUME KeepsContainers, UNCHANGED deployVars, pc' = pc PROVE FaithfulInv'
  BY <1>b, <1>c, <1>e DEF FaithfulInv, Describes, KeepsContainers, deployVars
<1> USE DEF containerVars, localVars, Goto
<1>1. ASSUME NEW v \in Versions, NEW force \in BOOLEAN, DeployBegin(v, force)
      PROVE  FaithfulInv'
  BY <1>1, <1>b DEF DeployBegin, FaithfulInv, Describes
<1>2. CASE Script
  <2>1. CASE Prepare \/ MigrationPreflight \/ WaitCandidateBackend \/ WaitCandidateFrontend
             \/ VerifyCandidate \/ StartProbe \/ RenderRoute \/ WaitTraefikRoute
    BY <2>1, <1>d DEF Prepare, MigrationPreflight, WaitCandidateBackend, WaitCandidateFrontend,
       VerifyCandidate, StartProbe, RenderRoute, WaitTraefikRoute
  <2>2. CASE WaitBackgroundLeader \/ PublicProbe \/ WriteState \/ WaitPreviousBackend
             \/ WaitPreviousFrontend \/ RenderPreviousRoute \/ WaitPreviousRoute \/ restore_state
    BY <2>2, <1>d DEF WaitBackgroundLeader, PublicProbe, WriteState, WaitPreviousBackend,
       WaitPreviousFrontend, RenderPreviousRoute, WaitPreviousRoute, restore_state
  <2>3. CASE StartCandidateBackend \/ StartCandidateFrontend
    BY <2>3, <1>c, <1>d DEF StartCandidateBackend, StartCandidateFrontend
  <2>4. CASE StopPreviousBackend \/ StopPreviousFrontend
    BY <2>4, <1>c, <1>d, ContainerOperations DEF StopPreviousBackend, StopPreviousFrontend
  <2>5. CASE RestartPreviousBackend \/ RestartPreviousFrontend
    BY <2>5, <1>c, <1>d, ContainerOperations DEF RestartPreviousBackend, RestartPreviousFrontend
  <2>6. CASE EnterRollback
    BY <2>6, <1>d DEF EnterRollback, BeforeSwitch, AfterSwitch
  <2>7. CASE RecordSuccess
    <3>1. /\ stateFile = [slot |-> cand, ver |-> ver] /\ route = cand
          /\ backend[cand].ver = ver /\ frontend[cand].ver = ver
      BY <2>7 DEF RecordSuccess, DeployInv, AfterSwitch, CandidateBackendStarted,
         CandidateFrontendStarted
    <3>. QED BY <2>7, <3>1 DEF RecordSuccess, FaithfulInv, Describes
  <2>8. CASE RollbackFails
    <3>1. backend[prev].ver \in Versions => ~(schema > Head[backend[prev].ver])
      BY DEF TypeOK
    <3>2. Mishaps' >= 2
      BY <2>8, <3>1, RollbackFailsExplained
    <3>3. Mishaps' \in Nat
      BY FaultsCounted DEF Mishaps, TypeOK
    <3>. QED BY <3>2, <3>3
  <2>9. CASE StopCandidate
    <3>1. stateFile = backup /\ route = prev /\ cand # prev /\ pc # "idle"
      BY <2>9 DEF StopCandidate, DeployInv
    <3>2. backend'[prev] = backend[prev] /\ frontend'[prev] = frontend[prev]
      BY <2>9, <3>1, <1>c DEF StopCandidate
    <3>3. UNCHANGED <<route, stateFile>> /\ pc' = "idle"
      BY <2>9 DEF StopCandidate
    <3>. QED BY <3>1, <3>2, <3>3, <1>b DEF FaithfulInv, Describes
  <2>. QED BY <1>2, <2>1, <2>2, <2>3, <2>4, <2>5, <2>6, <2>7, <2>8, <2>9 DEF Script
<1>3. CASE Environment
  <2>1. CASE ScriptKilled \/ HostReboots
    BY <2>1 DEF ScriptKilled, HostReboots, TypeOK
  <2>2. CASE ~(ScriptKilled \/ HostReboots)
    <3>1. pc' = pc
      BY <1>3, <2>2 DEF Environment, TraefikReload, ProbeSampleFails, BackendReady,
         FrontendReady, BackendCrashes, FrontendCrashes, RunActiveFails
    <3>. QED BY <1>3, <3>1, <1>e, EnvironmentKeepsContainers
  <2>. QED BY <2>1, <2>2
<1>4. ASSUME NEW s \in Slots, Supervisor(s) PROVE FaithfulInv'
  <2>1. KeepsContainers /\ UNCHANGED deployVars /\ pc' = pc
    BY <1>4 DEF Supervisor, SupervisorSeesActive, SupervisorSeesInactive,
       StartupSyncDone, try_acquire_lease, release_lease, KeepsContainers, deployVars
  <2>. QED BY <1>e, <2>1
<1>5. CASE UNCHANGED vars
  BY <1>e, <1>5 DEF vars, deployVars, KeepsContainers
<1>. QED BY <1>1, <1>2, <1>3, <1>4, <1>5 DEF Next

\* Between releases with the same migrations, and after at most one mishap
\* that was not a kill, the state file tells the routed slot and the release
\* of both its containers: what the next deployment decides on.
THEOREM StateFileTrue ==
  ASSUME SameMigrations
  PROVE  Spec => []StateFileFaithful
<1> DEFINE Same == \A v \in Versions : schema = Head[v]
<1>1. Init => FaithfulInv
  BY DEF Init, FaithfulInv, Describes
<1>2. TypeOK /\ DeployInv /\ RollbackHasCause /\ Same /\ FaithfulInv /\ [Next]_vars => FaithfulInv'
  BY FaithfulStep
<1>3. FaithfulInv => StateFileFaithful
  BY DEF FaithfulInv, StateFileFaithful, Describes
<1>4. Spec => []Same
  BY SchemaStays
<1>. QED BY <1>1, <1>2, <1>3, <1>4, ServiceHolds, PTL DEF Spec

=============================================================================
