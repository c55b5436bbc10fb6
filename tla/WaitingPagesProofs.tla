------------------------ MODULE WaitingPagesProofs ------------------------
(***************************************************************************)
(* That what the waiting pages and the jobs of the host announce is true,  *)
(* for any limits, cooldowns and numbers of runs, and whichever answer is  *)
(* late, lost or of an earlier attempt.                                    *)
(*                                                                         *)
(* None of the parts of AnnouncementsTrue is inductive.  Each page gets an *)
(* invariant that says where its requests and its promises are:            *)
(*   - the one live chain of polls is at its timer or at one request, and  *)
(*     no request is of a later generation than the present one (MRInv);   *)
(*   - what is due to a component is counted from its last alert (HBInv);  *)
(*   - after a sign-out no answer is under way that says the opposite      *)
(*     (SSInv); a token is in the form or spent (LCInv);                   *)
(*   - a notice that waits in the storage has not been shown, nor has the  *)
(*     one of the save under way (DGInv);                                  *)
(*   - a failure that is stored was met by that many runs (SWInv);         *)
(*   - unless an error was thrown, every phase before the present one that *)
(*     this kind of run does not skip has passed; nothing is recorded of a *)
(*     GitHub run before its phase; and Chrome runs only between its start *)
(*     and its end (RTInv).                                                *)
(***************************************************************************)
EXTENDS WaitingPages, FiniteSetTheorems, SequenceTheorems, TLAPS

(* A finite set of numbers that is not empty has a largest element.        *)
LEMMA LargestOfFinite ==
  ASSUME NEW S \in SUBSET Nat, IsFiniteSet(S), S # {}
  PROVE  \E r \in S : \A t \in S : t <= r
<1> DEFINE Above(r) == {t \in S : t > r}
           T == {Above(r) : r \in S}
<1>1. IsWellFoundedOn(StrictSubsetOrdering(S), SUBSET S)
  BY FS_StrictSubsetOrderingWellFounded, FS_FiniteSubsetsOfFinite
<1>2. T \subseteq SUBSET S /\ T # {} OBVIOUS
<1> HIDE DEF T
<1>3. PICK x \in T : \A y \in T : ~(<<y, x>> \in StrictSubsetOrdering(S))
  BY <1>1, <1>2, WFMin
<1>4. PICK r \in S : x = Above(r) BY DEF T
<1>5. SUFFICES ASSUME NEW t \in S, ~(t <= r) PROVE FALSE BY <1>4
<1>6. /\ Above(t) \subseteq Above(r) /\ t \in Above(r) /\ t \notin Above(t)
  <2>1. t \in Nat /\ r \in Nat /\ t > r BY <1>5
  <2>2. ASSUME NEW u \in S, u > t PROVE u > r
    <3>1. u \in Nat OBVIOUS
    <3> QED BY <2>1, <2>2, <3>1
  <2>3. ~(t > t) BY <2>1
  <2> QED BY <2>1, <2>2, <2>3
<1>7. <<Above(t), Above(r)>> \in StrictSubsetOrdering(S)
  <2> DEFINE U == Above(t)
             V == Above(r)
  <2>1. U \subseteq V /\ U # V /\ U \in SUBSET S /\ V \in SUBSET S BY <1>6
  <2> HIDE DEF U, V
  <2>2. <<U, V>> \in StrictSubsetOrdering(S) BY <2>1 DEF StrictSubsetOrdering
  <2> QED BY <2>2 DEF U, V
<1>8. Above(t) \in T BY DEF T
<1> QED BY <1>3, <1>4, <1>7, <1>8

-----------------------------------------------------------------------------
(* Following a smoke run. *)

\* The states of the page.
MRState ==
    [gen : Nat, tracking : BOOLEAN, timer : Nat, polling : SUBSET Nat, refreshing : BOOLEAN,
     polls : Nat, known : SUBSET GithubRuns, runs : SUBSET GithubRuns,
     last : GithubRuns \cup {NoRun}, stored : GithubRuns \cup {NoRun},
     opens : Nat, now : Nat, low : BOOLEAN, reset : Nat, secondary : Nat,
     blocked : BOOLEAN, wake : Nat]

\* No generation is ahead of the present one; the chain of the present one is
\* at its timer or at one request while a run is followed, and is nowhere
\* otherwise.
MRInv ==
    /\ mr \in MRState
    /\ \A g \in mr.polling : 0 < g /\ g <= mr.gen
    /\ mr.timer \in {NoTimer, mr.gen}
    /\ IF mr.tracking THEN mr.timer = NoTimer <=> mr.gen \in mr.polling
       ELSE mr.timer = NoTimer /\ mr.gen \notin mr.polling
    /\ mr.tracking => mr.gen > 0

\* What rendering reads and sets.
LEMMA RenderedKeeps ==
  ASSUME NEW s \in MRState
  PROVE  /\ Rendered(s) \in MRState
         /\ Rendered(s).polling = s.polling /\ Rendered(s).timer = s.timer /\ Rendered(s).last = s.last
         /\ Rendered(s).tracking = s.tracking /\ Rendered(s).gen = s.gen
<1> DEFINE a == IF s.low THEN s.reset ELSE Unknown
           ahead == {t \in {a, s.secondary} : t > s.now}
<1>0. a \in Nat /\ s.secondary \in Nat /\ s.now \in Nat BY DEF MRState, Unknown
<1>1. isRefreshBlocked(s) \in BOOLEAN BY DEF isRefreshBlocked, isSecondaryBlocked
<1>2. getRefreshRetryAt(s) \in Nat
  <2>1. CASE ahead = {} BY <2>1 DEF getRefreshRetryAt, Unknown
  <2>2. CASE ahead # {}
    <3>1. \E t \in ahead : \A u \in ahead : u <= t
      <4> HIDE DEF a
      <4> QED BY <1>0, <2>2
    <3>2. (CHOOSE t \in ahead : \A u \in ahead : u <= t) \in ahead BY <3>1
    <3>3. getRefreshRetryAt(s) = CHOOSE t \in ahead : \A u \in ahead : u <= t
      BY <2>2 DEF getRefreshRetryAt
    <3> QED BY <3>2, <3>3, <1>0
  <2> QED BY <2>1, <2>2
<1>3. Unknown \in Nat BY DEF Unknown
<1>4. Rendered(s) = [s EXCEPT !.blocked = isRefreshBlocked(s),
                             !.wake = IF isRefreshBlocked(s) THEN getRefreshRetryAt(s) ELSE Unknown]
  BY DEF Rendered
<1>5. (IF isRefreshBlocked(s) THEN getRefreshRetryAt(s) ELSE Unknown) \in Nat BY <1>2, <1>3
<1> QED BY <1>1, <1>4, <1>5 DEF MRState

LEMMA MRInitially == MRMounted => MRInv
<1> SUFFICES ASSUME MRMounted PROVE MRInv OBVIOUS
<1>1. PICK low \in BOOLEAN, reset \in 0..MaxTime, secondary \in 0..MaxTime, stored \in {NoRun, 1} :
        mr = Rendered([gen |-> 0, tracking |-> FALSE, timer |-> NoTimer, polling |-> {}, refreshing |-> FALSE,
                     polls |-> 0, known |-> {}, runs |-> {1}, last |-> stored,
                     stored |-> stored, opens |-> 0, now |-> 0, low |-> low,
                     reset |-> reset, secondary |-> secondary,
                     blocked |-> FALSE, wake |-> Unknown])
  BY DEF MRMounted
<1> DEFINE s == [gen |-> 0, tracking |-> FALSE, timer |-> NoTimer, polling |-> {}, refreshing |-> FALSE,
                     polls |-> 0, known |-> {}, runs |-> {1}, last |-> stored,
                     stored |-> stored, opens |-> 0, now |-> 0, low |-> low,
                     reset |-> reset, secondary |-> secondary,
                     blocked |-> FALSE, wake |-> Unknown]
<1>2. s \in MRState BY RunsAssumption DEF MRState, NoRun, NoTimer, Unknown
<1>3. s.polling = {} /\ s.timer = NoTimer /\ ~s.tracking /\ s.gen = 0 OBVIOUS
<1>5. mr = Rendered(s) BY <1>1
<1> HIDE DEF s
<1>4. mr \in MRState /\ mr.polling = {} /\ mr.timer = NoTimer /\ ~mr.tracking
  BY <1>2, <1>3, <1>5, RenderedKeeps DEF MRState
<1> QED BY <1>4 DEF MRInv, NoTimer

\* A run that is found is one of those listed that was not known.
LEMMA FoundIsNew ==
  ASSUME NEW runs \in SUBSET GithubRuns, NEW known \in SUBSET GithubRuns
  PROVE  /\ findNewSmokeRun(runs, known) \in GithubRuns \cup {NoRun}
         /\ findNewSmokeRun(runs, known) # NoRun => findNewSmokeRun(runs, known) \in runs \ known
<1>1. CASE runs \subseteq known BY <1>1 DEF findNewSmokeRun
<1>2. CASE ~(runs \subseteq known)
  <2>1. (runs \ known) \in SUBSET Nat /\ runs \ known # {} /\ IsFiniteSet(runs \ known)
    BY <1>2, RunsAssumption, FS_Subset
  <2>2. \E r \in runs \ known : \A t \in runs \ known : t <= r BY <2>1, LargestOfFinite
  <2>3. (CHOOSE r \in runs \ known : \A t \in runs \ known : t <= r) \in runs \ known BY <2>2
  <2> QED BY <1>2, <2>3 DEF findNewSmokeRun
<1> QED BY <1>1, <1>2

\* Leaving the page ends the chain; the result is read back.
LEMMA RemountStops ==
  MRInv /\ RemountRunTracking =>
    mr' \in MRState /\ mr'.polling = {} /\ mr'.timer = NoTimer /\ ~mr'.tracking /\ mr'.last = mr.stored
<1> SUFFICES ASSUME MRInv, RemountRunTracking
             PROVE  /\ mr' \in MRState /\ mr'.polling = {} /\ mr'.timer = NoTimer
                    /\ ~mr'.tracking /\ mr'.last = mr.stored
  OBVIOUS
<1> DEFINE s == [mr EXCEPT !.gen = @ + 1, !.timer = NoTimer, !.tracking = FALSE,
                           !.polling = {}, !.refreshing = FALSE, !.last = mr.stored]
<1>1. mr \in MRState /\ mr.gen + 1 \in Nat /\ NoTimer \in Nat BY DEF MRInv, MRState, NoTimer
<1>2. s \in MRState /\ s.polling = {} /\ s.timer = NoTimer /\ ~s.tracking /\ s.last = mr.stored
  BY <1>1 DEF MRState
<1>3. mr' = Rendered(s) BY DEF RemountRunTracking
<1> HIDE DEF s
<1> QED BY <1>2, <1>3, RenderedKeeps

LEMMA MRStep == MRInv /\ MRNext => MRInv'
<1> SUFFICES ASSUME MRInv, MRNext PROVE MRInv' OBVIOUS
<1>0. NoTimer = 0 /\ NoRun = 0 /\ Unknown = 0 BY DEF NoTimer, NoRun, Unknown
<1>a. /\ mr \in MRState /\ mr.gen \in Nat /\ mr.gen + 1 \in Nat /\ mr.polling \in SUBSET Nat /\ mr.timer \in Nat
      /\ mr.opens + 1 \in Nat /\ mr.polls + 1 \in Nat /\ mr.now + 1 \in Nat
      /\ (mr.polling \cup {mr.timer}) \in SUBSET Nat
      /\ mr.tracking \in BOOLEAN
  BY DEF MRInv, MRState
<1>1. CASE Tick BY <1>1, <1>a DEF Tick, MRInv, MRState
<1>2. CASE LimitTimerFires
  <2>1. isRefreshBlocked(mr) \in BOOLEAN BY DEF isRefreshBlocked, isSecondaryBlocked
  <2> QED BY <2>1, <1>0, <1>2 DEF LimitTimerFires, MRInv, MRState
<1>3. CASE HandleOpen
  <2>1. mr' \in MRState /\ mr'.gen = mr.gen + 1 /\ mr'.timer = mr.gen + 1 /\ mr'.tracking
        /\ mr'.polling = mr.polling
    BY <1>0, <1>a, <1>3 DEF HandleOpen, MRState
  <2> QED BY <2>1, <1>0, <1>a DEF MRInv
<1>4. CASE PollTimerFires
  <2>1. mr' \in MRState /\ mr'.gen = mr.gen /\ mr'.timer = NoTimer /\ mr'.tracking = mr.tracking
        /\ mr'.polling = mr.polling \cup {mr.timer}
    BY <1>0, <1>a, <1>4 DEF PollTimerFires, MRState
  <2> QED BY <2>1, <1>0, <1>a, <1>4 DEF MRInv, PollTimerFires
<1>5. ASSUME NEW g \in mr.polling, NEW runs \in SUBSET GithubRuns, PollAnswered(g, runs) PROVE MRInv'
  <2> DEFINE found == findNewSmokeRun(runs, mr.known)
             answered == [mr EXCEPT !.polling = @ \ {g}, !.runs = runs]
  <2>1. mr.known \in SUBSET GithubRuns BY <1>a DEF MRState
  <2>2. found \in GithubRuns \cup {NoRun} BY <2>1, FoundIsNew
  <2>3. /\ answered \in MRState /\ answered.gen = mr.gen /\ answered.timer = mr.timer
        /\ answered.polling = mr.polling \ {g} /\ answered.tracking = mr.tracking
    BY <1>a DEF MRState
  <2>4. mr' = IF g # mr.gen THEN answered
              ELSE IF found # NoRun THEN Finish([answered EXCEPT !.last = found, !.stored = found])
              ELSE IF mr.polls >= MaxPolls THEN Finish(answered)
              ELSE [answered EXCEPT !.timer = g]
    BY <1>5 DEF PollAnswered
  <2> HIDE DEF found, answered
  <2>5. CASE g # mr.gen
    <3>1. mr' = answered BY <2>4, <2>5
    <3> QED BY <3>1, <2>3, <2>5, <1>a, <1>0 DEF MRInv
  <2>6. ASSUME NEW s \in MRState, s.gen = mr.gen, s.polling = mr.polling \ {g}, g = mr.gen, mr' = Finish(s)
        PROVE  MRInv'
    <3>1. s.gen + 1 \in Nat BY <1>a, <2>6
    <3>2. /\ mr' \in MRState /\ mr'.gen = s.gen + 1 /\ mr'.timer = NoTimer /\ ~mr'.tracking /\ mr'.polling = s.polling
      BY <3>1, <2>6, <1>0 DEF MRState, Finish
    <3> QED BY <3>2, <2>6, <1>0, <1>a DEF MRInv
  <2>7. CASE g = mr.gen /\ mr' = Finish([answered EXCEPT !.last = found, !.stored = found])
    <3> DEFINE s == [answered EXCEPT !.last = found, !.stored = found]
    <3>1. s \in MRState /\ s.gen = answered.gen /\ s.polling = answered.polling BY <2>2, <2>3 DEF MRState
    <3> QED BY <3>1, <2>3, <2>6, <2>7
  <2>8. CASE g = mr.gen /\ mr' = Finish(answered) BY <2>3, <2>6, <2>8
  <2>9. CASE g = mr.gen /\ mr' = [answered EXCEPT !.timer = g]
    <3>1. g \in Nat BY <1>a
    <3>2. /\ mr' \in MRState /\ mr'.gen = mr.gen /\ mr'.timer = g /\ mr'.polling = mr.polling \ {g} /\ mr'.tracking = mr.tracking
      BY <3>1, <2>3, <2>9 DEF MRState
    <3> QED BY <3>1, <3>2, <2>9, <1>0, <1>a DEF MRInv
  <2> QED BY <2>4, <2>5, <2>7, <2>8, <2>9
<1>6. ASSUME NEW g \in mr.polling, PollFailed(g) PROVE MRInv'
  <2> DEFINE answered == [mr EXCEPT !.polling = @ \ {g}]
  <2>3. /\ answered \in MRState /\ answered.gen = mr.gen /\ answered.timer = mr.timer
        /\ answered.polling = mr.polling \ {g} /\ answered.tracking = mr.tracking
    BY <1>a DEF MRState
  <2>4. mr' = IF g = mr.gen THEN Finish(answered) ELSE answered BY <1>6 DEF PollFailed
  <2> HIDE DEF answered
  <2>5. CASE g # mr.gen BY <2>3, <2>4, <2>5, <1>a, <1>0 DEF MRInv
  <2>6. CASE g = mr.gen
    <3>1. answered.gen + 1 \in Nat BY <1>a, <2>3
    <3>2. /\ mr' \in MRState /\ mr'.gen = answered.gen + 1 /\ mr'.timer = NoTimer /\ ~mr'.tracking /\ mr'.polling = answered.polling
      BY <3>1, <2>3, <2>4, <2>6, <1>0 DEF MRState, Finish
    <3> QED BY <3>2, <2>3, <2>6, <1>0, <1>a DEF MRInv
  <2> QED BY <2>5, <2>6
<1>7. CASE handleRefreshHistory BY <1>7, <1>a DEF handleRefreshHistory, MRInv, MRState
<1>8. CASE HistoryRefreshed BY <1>8, <1>a DEF HistoryRefreshed, MRInv, MRState
<1>9. CASE HandleClear BY <1>9, <1>a DEF HandleClear, MRInv, MRState
<1>10. CASE RemountRunTracking BY <1>10, <1>0, RemountStops DEF MRInv
<1> QED BY <1>1, <1>2, <1>3, <1>4, <1>5, <1>6, <1>7, <1>8, <1>9, <1>10 DEF MRNext

LEMMA MRSound == MRInv => MRTypeOK /\ OneLiveChain
<1> SUFFICES ASSUME MRInv PROVE MRTypeOK /\ OneLiveChain OBVIOUS
<1>1. MRTypeOK
  <2>1. mr.gen \in Nat /\ mr.polling \in SUBSET Nat BY DEF MRInv, MRState
  <2>2. mr.polling \subseteq 1..mr.gen BY <2>1 DEF MRInv
  <2>3. mr.timer \in 0..mr.gen BY <2>1 DEF MRInv, NoTimer
  <2>4. /\ mr.runs \in SUBSET GithubRuns /\ mr.last \in GithubRuns \cup {NoRun}
        /\ mr.tracking \in BOOLEAN /\ mr.blocked \in BOOLEAN
    BY DEF MRInv, MRState
  <2> QED BY <2>2, <2>3, <2>4 DEF MRTypeOK
<1>2. Cardinality(mr.polling \intersect {mr.gen}) = IF mr.gen \in mr.polling THEN 1 ELSE 0
  <2>1. CASE mr.gen \in mr.polling
    <3>1. mr.polling \intersect {mr.gen} = {mr.gen} BY <2>1
    <3> QED BY <2>1, <3>1, FS_Singleton
  <2>2. CASE mr.gen \notin mr.polling
    <3>1. mr.polling \intersect {mr.gen} = {} BY <2>2
    <3> QED BY <2>2, <3>1, FS_EmptySet
  <2> QED BY <2>1, <2>2
<1>3. OneLiveChain BY <1>2 DEF OneLiveChain, MRInv, MRState, NoTimer
<1> QED BY <1>1, <1>3

\* The result of a click was not known when it was made.
LEMMA MRResult ==
  MRInv /\ MRNext /\ mr'.last \notin {mr.last, NoRun, mr.stored} => mr.tracking /\ mr'.last \notin mr.known
<1> SUFFICES ASSUME MRInv, MRNext, mr'.last \notin {mr.last, NoRun, mr.stored}
             PROVE  mr.tracking /\ mr'.last \notin mr.known
  OBVIOUS
<1> USE DEF MRState, MRInv, NoTimer, NoRun
<1>1. ~(\/ Tick \/ LimitTimerFires \/ HandleOpen \/ PollTimerFires \/ handleRefreshHistory
        \/ HistoryRefreshed \/ HandleClear)
  BY DEF Tick, LimitTimerFires, HandleOpen, PollTimerFires, handleRefreshHistory, HistoryRefreshed, HandleClear
<1>2. ~RemountRunTracking BY RemountStops
<1>3. ASSUME NEW g \in mr.polling, PollFailed(g) PROVE FALSE BY <1>3 DEF PollFailed, Finish
<1>4. ASSUME NEW g \in mr.polling, NEW runs \in SUBSET GithubRuns, PollAnswered(g, runs)
      PROVE  mr.tracking /\ mr'.last \notin mr.known
  <2> DEFINE found == findNewSmokeRun(runs, mr.known)
  <2>1. found # NoRun => found \in runs \ mr.known BY FoundIsNew
  <2> HIDE DEF found
  <2>2. g = mr.gen /\ found # NoRun BY <1>4 DEF PollAnswered, Finish, found
  <2>3. mr'.last = found BY <1>4, <2>2 DEF PollAnswered, Finish, found
  <2> QED BY <2>1, <2>2, <2>3
<1> QED BY <1>1, <1>2, <1>3, <1>4 DEF MRNext

-----------------------------------------------------------------------------
(* The health of the manager.                                              *)

\* The states of the board.
Container ==
    [status : {"ok", "unavailable"}, runtime : {"running", "exited"},
     health : {"healthy", "unhealthy", "starting"}, revision : Nat]
HealthEntry == [status : {"none", "healthy", "unhealthy"}, active : BOOLEAN, age : 0..AlertCooldown]
HealthEvents == {NoEvent, "unhealthy", "recovered"}
HBState ==
    [actual : [ManagerComponents -> Container], latest : Nat, enabled : BOOLEAN, early : BOOLEAN,
     stored : [ManagerComponents -> HealthEntry], since : [ManagerComponents -> 0..AlertCooldown],
     log : [ManagerComponents -> HealthEvents \X HealthEvents]]

\* The last event of a component is a failure exactly while its entry is
\* active, events alternate, and the entry counts the cooldown from the last
\* alert or from before it.
EntrySound(entry, since, log) ==
    /\ entry.active => entry.status = "unhealthy" /\ log[1] = "unhealthy"
    /\ ~entry.active => log[1] \in {NoEvent, "recovered"}
    /\ log[1] # NoEvent =>
         log[2] = IF log[1] = "recovered" THEN "unhealthy" ELSE IF log[2] = NoEvent THEN NoEvent ELSE "recovered"
    /\ entry.age <= since
HBSound(s) ==
    /\ s \in HBState /\ s.early = FALSE
    /\ \A c \in ManagerComponents : EntrySound(s.stored[c], s.since[c], s.log[c])
HBInv == HBSound(hb)

LEMMA HBInitially == HBMounted => HBInv
<1> SUFFICES ASSUME HBMounted PROVE HBInv OBVIOUS
<1> DEFINE fine == [c \in ManagerComponents |-> [Started(1) EXCEPT !.health = "healthy"]]
           stored == [c \in ManagerComponents |-> NotStored]
           since == [c \in ManagerComponents |-> AlertCooldown]
           log == [c \in ManagerComponents |-> <<NoEvent, NoEvent>>]
<1>1. fine \in [ManagerComponents -> Container] BY DEF Started, Container
<1>2. NotStored \in HealthEntry /\ NotStored.active = FALSE /\ NotStored.age = AlertCooldown
  BY HealthAssumption DEF NotStored, HealthEntry
<1>3. stored \in [ManagerComponents -> HealthEntry] BY <1>2
<1>4. since \in [ManagerComponents -> 0..AlertCooldown] BY HealthAssumption
<1>5. log \in [ManagerComponents -> HealthEvents \X HealthEvents] BY DEF HealthEvents
<1>6. hb = [actual |-> fine, latest |-> 1, enabled |-> TRUE, early |-> FALSE,
            stored |-> stored, since |-> since, log |-> log]
  BY DEF HBMounted
<1>7. \A c \in ManagerComponents : EntrySound(stored[c], since[c], log[c])
  BY <1>2, HealthAssumption DEF EntrySound, NoEvent
<1> HIDE DEF fine, stored, since, log
<1>8. hb \in HBState BY <1>1, <1>3, <1>4, <1>5, <1>6 DEF HBState
<1> QED BY <1>6, <1>7, <1>8 DEF HBInv, HBSound

\* The check of one component: an alert is made only when one is due, and an
\* entry that is due counts the whole cooldown.
LEMMA EntryStep ==
  ASSUME NEW e \in HealthEntry, NEW n \in 0..AlertCooldown, NEW p \in HealthEvents \X HealthEvents,
         EntrySound(e, n, p), NEW health \in {"healthy", "unhealthy"}
  PROVE  LET event == HealthEvent(e, health)
             log == IF event = NoEvent THEN p ELSE <<event, p[1]>>
             since == IF event = "unhealthy" THEN 0 ELSE n
         IN  /\ NextEntry(e, health) \in HealthEntry /\ event \in HealthEvents
             /\ EntrySound(NextEntry(e, health), since, log)
             /\ event = "unhealthy" => n = AlertCooldown
<1> DEFINE next == NextEntry(e, health)
           event == HealthEvent(e, health)
           due == (e.status # health \/ ~e.active) /\ e.age = AlertCooldown
<1>1. /\ e.status \in {"none", "healthy", "unhealthy"} /\ e.active \in BOOLEAN /\ e.age \in 0..AlertCooldown
      /\ p[1] \in HealthEvents /\ p[2] \in HealthEvents /\ <<p[1], p[2]>> = p
  BY DEF HealthEntry
<1>2. CASE health = "healthy"
  <2>1. next = [e EXCEPT !.status = health, !.active = FALSE] BY <1>2 DEF NextEntry
  <2>2. next \in HealthEntry /\ next.active = FALSE /\ next.age = e.age BY <1>2, <2>1 DEF HealthEntry
  <2>3. event = IF e.status = "unhealthy" /\ e.active THEN "recovered" ELSE NoEvent
    BY <1>2 DEF HealthEvent
  <2> HIDE DEF next, event
  <2>4. CASE e.active
    <3>1. event = "recovered" /\ p[1] = "unhealthy" BY <2>3, <2>4 DEF EntrySound
    <3>2. EntrySound(next, n, <<"recovered", p[1]>>) BY <2>2, <3>1 DEF EntrySound, NoEvent
    <3> QED BY <2>2, <3>1, <3>2 DEF HealthEvents, NoEvent, next, event
  <2>5. CASE ~e.active
    <3>1. event = NoEvent BY <2>3, <2>5
    <3>2. EntrySound(next, n, p) BY <2>2, <2>5 DEF EntrySound
    <3> QED BY <2>2, <3>1, <3>2 DEF HealthEvents, NoEvent, next, event
  <2> QED BY <2>4, <2>5, <1>1
<1>3. CASE health = "unhealthy"
  <2> DEFINE active == due \/ (e.active /\ ~(e.status # health))
             age == IF due THEN 0 ELSE e.age
  <2>1. next = [status |-> health, active |-> active, age |-> age] BY <1>3 DEF NextEntry
  <2>2. active \in BOOLEAN /\ age \in 0..AlertCooldown BY <1>1, HealthAssumption
  <2>3. (e.active => e.status = health) /\ (active <=> (due \/ e.active)) /\ (due => ~e.active /\ e.age = AlertCooldown)
    BY <1>3 DEF EntrySound
  <2>4. (due => age = 0) /\ (~due => age = e.age) OBVIOUS
  <2> HIDE DEF active, age, due
  <2>5. next \in HealthEntry /\ next.active = active /\ next.age = age /\ next.status = "unhealthy"
    BY <1>3, <2>1, <2>2 DEF HealthEntry
  <2>6. event = IF next.active /\ ~(e.active /\ e.status = health) THEN "unhealthy" ELSE NoEvent
    BY <1>3 DEF HealthEvent
  <2> HIDE DEF next, event
  <2>7. CASE due
    <3>1. event = "unhealthy" /\ ~e.active /\ e.age = AlertCooldown BY <2>3, <2>5, <2>6, <2>7
    <3>2. n = AlertCooldown BY <3>1, HealthAssumption DEF EntrySound
    <3>3. EntrySound(next, 0, <<"unhealthy", p[1]>>)
      BY <2>3, <2>4, <2>5, <2>7, <3>1 DEF EntrySound, NoEvent
    <3> QED BY <2>5, <3>1, <3>2, <3>3 DEF HealthEvents, NoEvent, next, event
  <2>8. CASE ~due
    <3>1. event = NoEvent /\ (next.active <=> e.active) /\ next.age = e.age BY <2>3, <2>4, <2>5, <2>6, <2>8
    <3>2. EntrySound(next, n, p) BY <2>5, <3>1 DEF EntrySound
    <3> QED BY <2>5, <3>1, <3>2 DEF HealthEvents, NoEvent, next, event
  <2> QED BY <2>7, <2>8
<1> QED BY <1>2, <1>3

\* A check after some time.
LEMMA CheckedSound == ASSUME NEW s, HBSound(s) PROVE HBSound(Checked(s))
<1> DEFINE known == {c \in ManagerComponents : s.actual[c].status = "ok" /\ s.actual[c].health \in {"healthy", "unhealthy"}}
           Event(c) == IF c \in known THEN HealthEvent(s.stored[c], s.actual[c].health) ELSE NoEvent
           Entry(c) == IF c \in known THEN NextEntry(s.stored[c], s.actual[c].health) ELSE s.stored[c]
           Log(c) == IF Event(c) = NoEvent THEN s.log[c] ELSE <<Event(c), s.log[c][1]>>
           Since(c) == IF Event(c) = "unhealthy" THEN 0 ELSE s.since[c]
           stored == [c \in ManagerComponents |-> Entry(c)]
           log == [c \in ManagerComponents |-> Log(c)]
           since == [c \in ManagerComponents |-> Since(c)]
           early == s.early \/ \E c \in ManagerComponents : Event(c) = "unhealthy" /\ s.since[c] < AlertCooldown
<1>1. Checked(s) = [s EXCEPT !.stored = stored, !.log = log, !.early = early, !.since = since] BY DEF Checked
<1>2. ASSUME NEW c \in ManagerComponents
      PROVE  /\ Entry(c) \in HealthEntry /\ Log(c) \in HealthEvents \X HealthEvents /\ Since(c) \in 0..AlertCooldown
             /\ EntrySound(Entry(c), Since(c), Log(c))
             /\ Event(c) = "unhealthy" => s.since[c] = AlertCooldown
  <2>1. /\ s.stored[c] \in HealthEntry /\ s.since[c] \in 0..AlertCooldown
        /\ s.log[c] \in HealthEvents \X HealthEvents /\ EntrySound(s.stored[c], s.since[c], s.log[c])
    BY DEF HBSound, HBState
  <2>2. CASE c \in known
    <3>1. s.actual[c].health \in {"healthy", "unhealthy"} BY <2>2
    <3>2. Event(c) = HealthEvent(s.stored[c], s.actual[c].health) /\ Entry(c) = NextEntry(s.stored[c], s.actual[c].health)
      BY <2>2
    <3> HIDE DEF known
    <3>3. /\ Entry(c) \in HealthEntry /\ Event(c) \in HealthEvents
          /\ EntrySound(Entry(c), Since(c), Log(c))
          /\ Event(c) = "unhealthy" => s.since[c] = AlertCooldown
      <4> DEFINE e == s.stored[c]
                 h == s.actual[c].health
                 event == HealthEvent(e, h)
                 l == IF event = NoEvent THEN s.log[c] ELSE <<event, s.log[c][1]>>
                 n == IF event = "unhealthy" THEN 0 ELSE s.since[c]
      <4>1. /\ NextEntry(e, h) \in HealthEntry /\ event \in HealthEvents
            /\ EntrySound(NextEntry(e, h), n, l)
            /\ event = "unhealthy" => s.since[c] = AlertCooldown
        BY <2>1, <3>1, EntryStep
      <4>2. Event(c) = event /\ Entry(c) = NextEntry(e, h) BY <3>2
      <4> HIDE DEF Event, Entry, event
      <4>3. Since(c) = n /\ Log(c) = l BY <4>2
      <4> HIDE DEF n, l, Since, Log
      <4> QED BY <4>1, <4>2, <4>3
    <3> HIDE DEF Event, Entry
    <3> QED BY <2>1, <3>3, HealthAssumption
  <2>3. CASE c \notin known BY <2>1, <2>3 DEF NoEvent
  <2> QED BY <2>2, <2>3
<1>3. /\ stored \in [ManagerComponents -> HealthEntry] /\ log \in [ManagerComponents -> HealthEvents \X HealthEvents]
      /\ since \in [ManagerComponents -> 0..AlertCooldown]
  BY <1>2
<1>4. \A c \in ManagerComponents : EntrySound(stored[c], since[c], log[c]) BY <1>2
<1>5. early = FALSE
  <2>1. ASSUME NEW c \in ManagerComponents PROVE ~(Event(c) = "unhealthy" /\ s.since[c] < AlertCooldown)
    <3>1. Event(c) = "unhealthy" => s.since[c] = AlertCooldown BY <1>2
    <3> HIDE DEF Event
    <3> QED BY <3>1, HealthAssumption
  <2>2. s.early = FALSE BY DEF HBSound
  <2> QED BY <2>1, <2>2
<1> HIDE DEF stored, log, since, early
<1>6. /\ Checked(s) \in HBState /\ Checked(s).early = FALSE /\ Checked(s).stored = stored
      /\ Checked(s).log = log /\ Checked(s).since = since
  <2>1. s \in HBState BY DEF HBSound
  <2> QED BY <2>1, <1>1, <1>3, <1>5 DEF HBState
<1> QED BY <1>4, <1>6 DEF HBSound

LEMMA CheckDisabledSound == ASSUME NEW s, HBSound(s) PROVE HBSound(CheckDisabled(s))
<1> DEFINE stored == [c \in ManagerComponents |-> NotStored]
           since == [c \in ManagerComponents |-> AlertCooldown]
           log == [c \in ManagerComponents |-> <<NoEvent, NoEvent>>]
<1>1. NotStored \in HealthEntry /\ NotStored.active = FALSE /\ NotStored.age = AlertCooldown
  BY HealthAssumption DEF NotStored, HealthEntry
<1>2. stored \in [ManagerComponents -> HealthEntry] /\ since \in [ManagerComponents -> 0..AlertCooldown]
  BY <1>1, HealthAssumption
<1>3. log \in [ManagerComponents -> HealthEvents \X HealthEvents] BY DEF HealthEvents
<1>4. \A c \in ManagerComponents : EntrySound(stored[c], since[c], log[c])
  BY <1>1, HealthAssumption DEF EntrySound, NoEvent
<1>5. CheckDisabled(s) = [s EXCEPT !.stored = stored, !.log = log, !.since = since] BY DEF CheckDisabled
<1> HIDE DEF stored, log, since
<1>6. s \in HBState /\ s.early = FALSE BY DEF HBSound
<1>7. /\ CheckDisabled(s) \in HBState /\ CheckDisabled(s).early = FALSE /\ CheckDisabled(s).stored = stored
      /\ CheckDisabled(s).log = log /\ CheckDisabled(s).since = since
  BY <1>2, <1>3, <1>5, <1>6 DEF HBState
<1> QED BY <1>4, <1>7 DEF HBSound

LEMMA HBStep == HBInv /\ HBNext => HBInv'
<1> SUFFICES ASSUME HBInv, HBNext PROVE HBInv' OBVIOUS
<1>a. hb \in HBState /\ hb.actual \in [ManagerComponents -> Container] /\ hb.enabled \in BOOLEAN BY DEF HBInv, HBSound, HBState
<1>b. ASSUME hb' \in HBState, hb'.early = hb.early, hb'.stored = hb.stored, hb'.since = hb.since, hb'.log = hb.log
      PROVE  HBInv'
  BY <1>b DEF HBInv, HBSound
<1>1. CASE CheckManagerHealth
  <2> DEFINE Age(e) == IF e.age < AlertCooldown THEN e.age + 1 ELSE e.age
             stored == [c \in ManagerComponents |->
                          [hb.stored[c] EXCEPT !.age = IF @ < AlertCooldown THEN @ + 1 ELSE @]]
             since == [c \in ManagerComponents |-> IF hb.since[c] < AlertCooldown
                                                   THEN hb.since[c] + 1 ELSE hb.since[c]]
             older == [hb EXCEPT !.stored = stored, !.since = since]
  <2>1. ASSUME NEW c \in ManagerComponents
        PROVE  /\ stored[c] \in HealthEntry /\ since[c] \in 0..AlertCooldown
               /\ EntrySound(stored[c], since[c], hb.log[c])
    <3>1. /\ hb.stored[c] \in HealthEntry /\ hb.since[c] \in 0..AlertCooldown
          /\ EntrySound(hb.stored[c], hb.since[c], hb.log[c])
      BY DEF HBInv, HBSound, HBState
    <3>2. hb.stored[c].age \in 0..AlertCooldown BY <3>1 DEF HealthEntry
    <3>3. stored[c] = [hb.stored[c] EXCEPT !.age = Age(hb.stored[c])] OBVIOUS
    <3>4. since[c] = IF hb.since[c] < AlertCooldown THEN hb.since[c] + 1 ELSE hb.since[c] OBVIOUS
    <3>5. Age(hb.stored[c]) \in 0..AlertCooldown /\ since[c] \in 0..AlertCooldown /\ Age(hb.stored[c]) <= since[c]
      BY <3>1, <3>2, <3>4, HealthAssumption DEF EntrySound
    <3> HIDE DEF Age, stored, since
    <3>6. /\ stored[c] \in HealthEntry /\ stored[c].age = Age(hb.stored[c])
          /\ stored[c].active = hb.stored[c].active /\ stored[c].status = hb.stored[c].status
      BY <3>1, <3>3, <3>5 DEF HealthEntry
    <3> QED BY <3>1, <3>5, <3>6 DEF EntrySound
  <2>2. stored \in [ManagerComponents -> HealthEntry] /\ since \in [ManagerComponents -> 0..AlertCooldown] BY <2>1
  <2>3. hb' = IF hb.enabled THEN Checked(older) ELSE CheckDisabled(older) BY <1>1 DEF CheckManagerHealth
  <2> HIDE DEF stored, since
  <2>4. /\ older \in HBState /\ older.early = hb.early /\ older.log = hb.log /\ older.stored = stored /\ older.since = since
    BY <1>a, <2>2 DEF HBState
  <2>5. hb.early = FALSE BY DEF HBInv, HBSound
  <2> HIDE DEF older
  <2>6. HBSound(older) BY <2>1, <2>4, <2>5 DEF HBSound
  <2> QED BY <2>3, <2>6, CheckedSound, CheckDisabledSound DEF HBInv
<1>2. CASE SwitchMonitoring BY <1>2, <1>a, <1>b DEF SwitchMonitoring, HBState
<1>3. CASE ReleaseFetched
  <2>1. PICK latest \in 0..LastRevision : hb' = [hb EXCEPT !.latest = latest] BY <1>3 DEF ReleaseFetched
  <2>2. latest \in Nat OBVIOUS
  <2> QED BY <2>1, <2>2, <1>a, <1>b DEF HBState
<1>4. ASSUME NEW c \in ManagerComponents, NEW x \in Container, hb' = [hb EXCEPT !.actual[c] = x] PROVE HBInv'
  <2>1. [hb.actual EXCEPT ![c] = x] \in [ManagerComponents -> Container] BY <1>a
  <2>2. hb' = [hb EXCEPT !.actual = [hb.actual EXCEPT ![c] = x]] BY <1>4, <1>a DEF HBState
  <2>3. /\ hb' \in HBState /\ hb'.early = hb.early /\ hb'.stored = hb.stored /\ hb'.since = hb.since /\ hb'.log = hb.log
    BY <1>a, <2>1, <2>2 DEF HBState
  <2> QED BY <2>3, <1>b
<1>5. ASSUME NEW c \in Ailing, ContainerChanges(c) PROVE HBInv'
  <2>1. c \in ManagerComponents BY HealthAssumption
  <2>2. PICK health \in {"healthy", "unhealthy"}, runtime \in {"running", "exited"}, status \in {"ok", "unavailable"} :
          hb' = [hb EXCEPT !.actual[c] = [@ EXCEPT !.health = health, !.runtime = runtime, !.status = status]]
    BY <1>5 DEF ContainerChanges
  <2> DEFINE x == [hb.actual[c] EXCEPT !.health = health, !.runtime = runtime, !.status = status]
  <2>3. hb.actual[c] \in Container BY <2>1, <1>a
  <2>4. x \in Container BY <2>3 DEF Container
  <2>5. hb' = [hb EXCEPT !.actual[c] = x] BY <2>2
  <2> QED BY <2>1, <2>4, <2>5, <1>4
<1>6. ASSUME NEW c \in ManagerComponents, Redeployed(c) PROVE HBInv'
  <2>1. hb.actual[c].revision + 1 \in Nat BY <1>a DEF Container
  <2>2. Started(hb.actual[c].revision + 1) \in Container BY <2>1 DEF Started, Container
  <2> QED BY <1>4, <1>6, <2>2 DEF Redeployed
<1> QED BY <1>1, <1>2, <1>3, <1>5, <1>6 DEF HBNext

\* What is drawn follows from the containers alone.
LEMMA BoardDrawn ==
  ASSUME hb.actual \in [ManagerComponents -> Container] PROVE BannerAgreesWithRows /\ GreenMeansOneRevision
<1> DEFINE rows == ManagerDeploymentCard(hb).rows
<1>1. \A c \in ManagerComponents : rows[c] = ComponentRow(hb, c) BY DEF ManagerDeploymentCard
<1>2. ASSUME NEW c \in ManagerComponents
      PROVE  /\ c \in UnhealthyComponents(hb) <=> rows[c].docker \in {"lookup failed", "stopped", "unhealthy"}
             /\ rows[c].failing => c \in UnhealthyComponents(hb)
  <2>1. hb.actual[c] \in Container OBVIOUS
  <2>2. c \in UnhealthyComponents(hb) <=> isUnhealthy(hb.actual[c]) BY DEF UnhealthyComponents
  <2>3. /\ rows[c].docker = getDockerStatus(hb.actual[c])
        /\ rows[c].failing <=> (hb.actual[c].status = "ok" /\ hb.actual[c].health = "unhealthy")
    <3>1. rows[c] = ComponentRow(hb, c) BY <1>1
    <3> HIDE DEF rows
    <3>2. ComponentRow(hb, c).docker = getDockerStatus(hb.actual[c]) BY DEF ComponentRow
    <3>3. ComponentRow(hb, c).failing = (hb.actual[c].status = "ok" /\ hb.actual[c].health = "unhealthy")
      BY DEF ComponentRow
    <3> QED BY <3>1, <3>2, <3>3
  <2> HIDE DEF rows
  <2>4. isUnhealthy(hb.actual[c]) <=> getDockerStatus(hb.actual[c]) \in {"lookup failed", "stopped", "unhealthy"}
    BY <2>1 DEF isUnhealthy, getDockerStatus, Container
  <2> QED BY <2>2, <2>3, <2>4 DEF isUnhealthy
<1>3. ManagerDeploymentCard(hb).tone # "amber" => ~hasMismatch(hb)
  BY DEF ManagerDeploymentCard, getReleaseTone
<1>4. ~hasMismatch(hb) => \A c, e \in ManagerComponents :
         hb.actual[c].status = "ok" /\ hb.actual[e].status = "ok" => hb.actual[c].revision = hb.actual[e].revision
  BY DEF hasMismatch
<1>5. \A c \in ManagerComponents : ~rows[c].mismatch => ~hasMismatch(hb) \/ hb.actual[c].status # "ok"
  <2> SUFFICES ASSUME NEW c \in ManagerComponents, ~rows[c].mismatch, hasMismatch(hb), hb.actual[c].status = "ok"
               PROVE  FALSE
    OBVIOUS
  <2>1. rows[c] = ComponentRow(hb, c) BY <1>1
  <2> HIDE DEF rows
  <2>2. ComponentRow(hb, c).mismatch = (hasMismatch(hb) /\ hb.actual[c].status = "ok") BY DEF ComponentRow
  <2> QED BY <2>1, <2>2
<1>6. \A c, e, x \in ManagerComponents : c = e \/ x = c \/ x = e BY DEF ManagerComponents
<1>7. GreenMeansOneRevision
  <2> SUFFICES ASSUME NEW c \in ManagerComponents, NEW e \in ManagerComponents,
                      hb.actual[c].status = "ok", hb.actual[e].status = "ok",
                      ManagerDeploymentCard(hb).tone # "amber" \/ \E x \in ManagerComponents : ~rows[x].mismatch
               PROVE  hb.actual[c].revision = hb.actual[e].revision
    BY DEF GreenMeansOneRevision
  <2> QED BY <1>3, <1>4, <1>5, <1>6
<1> QED BY <1>2, <1>7 DEF BannerAgreesWithRows

LEMMA HBHolds ==
  HBInv => HBTypeOK /\ RecoveryFollowsFailure /\ AlertsApart /\ BannerAgreesWithRows /\ GreenMeansOneRevision
<1> SUFFICES ASSUME HBInv
             PROVE  HBTypeOK /\ RecoveryFollowsFailure /\ AlertsApart /\ BannerAgreesWithRows /\ GreenMeansOneRevision
  OBVIOUS
<1>1. /\ \A c \in ManagerComponents : EntrySound(hb.stored[c], hb.since[c], hb.log[c]) /\ hb.stored[c] \in HealthEntry
      /\ hb.early = FALSE /\ hb.actual \in [ManagerComponents -> Container]
  BY DEF HBInv, HBSound, HBState
<1>2. HBTypeOK BY <1>1 DEF HBTypeOK, EntrySound, HealthEntry
<1>3. RecoveryFollowsFailure BY <1>1 DEF RecoveryFollowsFailure, EntrySound
<1>4. AlertsApart BY <1>1 DEF AlertsApart
<1> QED BY <1>1, <1>2, <1>3, <1>4, BoardDrawn

-----------------------------------------------------------------------------
(* The session.                                                            *)

\* The states of the tab.
SSStore == [auth : BOOLEAN, initialized : BOOLEAN]
SSState ==
    [session : BOOLEAN, page : {"root", "login", "dashboard"}, store : SSStore, stored : SSStore,
     me : {"none", "sent", "ok", "refused", "lost"}, login : {"none", "sent", "ok"},
     api : {"none", "sent", "refused"},
     out : {"none", "logout", "revoke", "logout_401", "revoke_401", "done"},
     visits : Nat, leftBehind : BOOLEAN]

\* After a confirmed sign-out there is no session, no stored answer and no
\* answer on its way that would say there is one.
Left(s) ==
    /\ ~s.session /\ ~s.store.auth /\ ~s.stored.auth
    /\ s.me # "ok" /\ s.login # "ok" /\ s.page = "login"
SSSound(s) ==
    /\ s \in SSState
    /\ (s.store.auth => s.store.initialized) /\ (s.stored.auth => s.stored.initialized)
    /\ s.leftBehind => Left(s)
SSInv == SSSound(ss)

\* The effects change the page and ask the server, according to the store.
LEMMA EffectsKeep ==
  ASSUME NEW s \in SSState
  PROVE  /\ Effects(s) \in SSState
         /\ Effects(s).session = s.session /\ Effects(s).store = s.store /\ Effects(s).stored = s.stored
         /\ Effects(s).login = s.login /\ Effects(s).leftBehind = s.leftBehind
         /\ Effects(s).me = s.me \/ Effects(s).me = "sent"
         /\ Effects(s).page = IF ~s.store.initialized THEN s.page
                              ELSE IF s.store.auth THEN "dashboard" ELSE "login"
<1>1. s.store.initialized \in BOOLEAN /\ s.store.auth \in BOOLEAN BY DEF SSState, SSStore
<1>2. CASE ~s.store.initialized
  <2>1. Effects(s) = [s EXCEPT !.me = IF @ = "none" THEN "sent" ELSE @] BY <1>2 DEF Effects
  <2> QED BY <2>1, <1>2 DEF SSState
<1>3. CASE s.store.initialized /\ s.store.auth
  <2>1. Effects(s) = IF s.page # "dashboard" THEN [s EXCEPT !.page = "dashboard"] ELSE s BY <1>3 DEF Effects
  <2> QED BY <2>1, <1>3 DEF SSState
<1>4. CASE s.store.initialized /\ ~s.store.auth
  <2>1. Effects(s) = IF s.page # "login" THEN [s EXCEPT !.page = "login"] ELSE s BY <1>4 DEF Effects
  <2> QED BY <2>1, <1>4 DEF SSState
<1> QED BY <1>1, <1>2, <1>3, <1>4

\* A store that says nobody is signed in is sound whatever was before.
LEMMA SetStoreSound ==
  ASSUME NEW s \in SSState, NEW auth \in BOOLEAN,
         s.leftBehind => ~auth /\ ~s.session /\ s.me # "ok" /\ s.login # "ok"
  PROVE  SSSound(SetStore(s, auth))
<1> DEFINE t == [s EXCEPT !.store = Initialised(auth), !.stored = Initialised(auth)]
<1>1. Initialised(auth) \in SSStore /\ Initialised(auth).auth = auth /\ Initialised(auth).initialized
  BY DEF Initialised, SSStore
<1>2. /\ t \in SSState /\ t.store = Initialised(auth) /\ t.stored = Initialised(auth)
      /\ t.session = s.session /\ t.me = s.me /\ t.login = s.login /\ t.leftBehind = s.leftBehind
  BY <1>1 DEF SSState
<1>3. SetStore(s, auth) = Effects(t) BY DEF SetStore
<1> HIDE DEF t
<1> QED BY <1>1, <1>2, <1>3, EffectsKeep DEF SSSound, Left

\* A page that is loaded anew reads what is stored.
LEMMA LoadedSound ==
  ASSUME NEW s \in SSState, NEW page \in {"root", "login", "dashboard"}, s.stored.auth => s.stored.initialized,
         s.leftBehind => ~s.stored.auth /\ ~s.session /\ page = "login"
  PROVE  SSSound(Loaded(s, page))
<1> DEFINE t == [s EXCEPT !.page = page, !.store = s.stored, !.me = "none", !.login = "none",
                          !.api = "none", !.out = "none"]
<1>1. s.stored \in SSStore BY DEF SSState
<1>2. /\ t \in SSState /\ t.store = s.stored /\ t.stored = s.stored /\ t.page = page
      /\ t.session = s.session /\ t.me = "none" /\ t.login = "none" /\ t.leftBehind = s.leftBehind
  BY <1>1 DEF SSState
<1>3. Loaded(s, page) = Effects(t) BY DEF Loaded
<1> HIDE DEF t
<1> QED BY <1>1, <1>2, <1>3, EffectsKeep DEF SSSound, Left

LEMMA SSInitially == SSMounted => SSInv
<1> SUFFICES ASSUME SSMounted PROVE SSInv OBVIOUS
<1>1. PICK session \in BOOLEAN, persisted \in BOOLEAN, page \in {"root", "login", "dashboard"} :
        ss = Loaded([session |-> session, page |-> page, store |-> SignedOut,
                   stored |-> IF persisted THEN Initialised(TRUE) ELSE NothingStored,
                   me |-> "none", login |-> "none", api |-> "none", out |-> "none",
                   visits |-> 0, leftBehind |-> FALSE], page)
  BY DEF SSMounted
<1> DEFINE stored == IF persisted THEN Initialised(TRUE) ELSE NothingStored
           s == [session |-> session, page |-> page, store |-> SignedOut, stored |-> stored,
                 me |-> "none", login |-> "none", api |-> "none", out |-> "none",
                 visits |-> 0, leftBehind |-> FALSE]
<1>2. SignedOut \in SSStore /\ stored \in SSStore /\ (stored.auth => stored.initialized)
  BY DEF SignedOut, NothingStored, Initialised, SSStore
<1>3. ss = Loaded(s, page) BY <1>1
<1> HIDE DEF stored
<1>4. s \in SSState BY <1>2 DEF SSState
<1>5. s.stored = stored /\ s.leftBehind = FALSE OBVIOUS
<1> HIDE DEF s
<1>6. SSSound(Loaded(s, page)) BY <1>2, <1>4, <1>5, LoadedSound
<1> QED BY <1>3, <1>6 DEF SSInv

\* What an answer 401 leaves.
LEMMA UnauthorizedKeeps ==
  ASSUME NEW s \in SSState
  PROVE  /\ Unauthorized(s) \in SSState /\ Unauthorized(s).session = s.session
         /\ ~Unauthorized(s).stored.auth /\ Unauthorized(s).store = s.store
         /\ Unauthorized(s).page = s.page /\ Unauthorized(s).leftBehind = s.leftBehind
         /\ Unauthorized(s).me = s.me /\ Unauthorized(s).login = s.login
<1>1. NothingStored = [auth |-> FALSE, initialized |-> FALSE] BY DEF NothingStored, SignedOut
<1>2. NothingStored \in SSStore /\ NothingStored.auth = FALSE BY <1>1 DEF SSStore
<1>3. Unauthorized(s) = [s EXCEPT !.stored = NothingStored] BY DEF Unauthorized
<1> QED BY <1>2, <1>3 DEF SSState

LEMMA SSStep == SSInv /\ SSNext => SSInv'
<1> SUFFICES ASSUME SSInv, SSNext PROVE SSInv' OBVIOUS
<1>a. /\ ss \in SSState /\ ss.visits + 1 \in Nat /\ ss.page \in {"root", "login", "dashboard"}
      /\ ss.session \in BOOLEAN /\ ss.leftBehind \in BOOLEAN
      /\ ss.store \in SSStore /\ ss.stored \in SSStore
  BY DEF SSInv, SSSound, SSState
<1>b. /\ (ss.store.auth => ss.store.initialized) /\ (ss.stored.auth => ss.stored.initialized)
      /\ ss.leftBehind => Left(ss)
  BY DEF SSInv, SSSound
<1>1. CASE ReloadPage
  <2> DEFINE s == [ss EXCEPT !.visits = @ + 1]
  <2>1. /\ s \in SSState /\ s.stored = ss.stored /\ s.session = ss.session /\ s.leftBehind = ss.leftBehind
    BY <1>a DEF SSState
  <2>2. ss' = Loaded(s, ss.page) BY <1>1 DEF ReloadPage
  <2> HIDE DEF s
  <2> QED BY <2>1, <2>2, <1>a, <1>b, LoadedSound DEF SSInv, Left
<1>2. CASE MeProcessed BY <1>2, <1>a, <1>b DEF MeProcessed, SSInv, SSSound, Left, SSState
<1>3. CASE MeLost BY <1>3, <1>a, <1>b DEF MeLost, SSInv, SSSound, Left, SSState
<1>4. CASE MeAnswered
  <2> DEFINE s == [ss EXCEPT !.me = "none"]
  <2>1. /\ s \in SSState /\ s.session = ss.session /\ s.leftBehind = ss.leftBehind /\ s.me = "none" /\ s.login = ss.login
    BY <1>a DEF SSState
  <2>2. /\ ss.me \in {"ok", "refused", "lost"}
        /\ ss' = CASE ss.me = "ok" -> SetStore(s, TRUE)
                   [] ss.me = "refused" -> SetStore(Unauthorized(s), FALSE)
                   [] ss.me = "lost" -> SetStore(s, FALSE)
    BY <1>4 DEF MeAnswered
  <2> HIDE DEF s
  <2>3. CASE ss.me = "ok"
    <3>1. ss' = SetStore(s, TRUE) BY <2>2, <2>3
    <3> QED BY <3>1, <2>1, <2>3, <1>b, SetStoreSound DEF SSInv, Left
  <2>4. CASE ss.me = "refused"
    <3>1. ss' = SetStore(Unauthorized(s), FALSE) BY <2>2, <2>4
    <3> QED BY <3>1, <2>1, <2>4, <1>b, SetStoreSound, UnauthorizedKeeps DEF SSInv, Left
  <2>5. CASE ss.me = "lost"
    <3>1. ss' = SetStore(s, FALSE) BY <2>2, <2>5
    <3> QED BY <3>1, <2>1, <2>5, <1>b, SetStoreSound DEF SSInv, Left
  <2> QED BY <2>2, <2>3, <2>4, <2>5
<1>5. CASE SubmitLogin BY <1>5, <1>a, <1>b DEF SubmitLogin, SSInv, SSSound, Left, SSState
<1>6. CASE LoginAccepted BY <1>6, <1>a, <1>b DEF LoginAccepted, SSInv, SSSound, Left, SSState
<1>7. CASE LoginRefused
  <2> DEFINE s == Unauthorized(ss)
  <2>1. /\ s \in SSState /\ s.session = ss.session /\ ~s.stored.auth /\ s.store = ss.store
        /\ s.page = ss.page /\ s.leftBehind = ss.leftBehind /\ s.me = ss.me
    BY <1>a, UnauthorizedKeeps
  <2>2. ss' = [s EXCEPT !.login = "none"] BY <1>7 DEF LoginRefused
  <2> HIDE DEF s
  <2>3. /\ ss' \in SSState /\ ss'.session = s.session /\ ss'.stored = s.stored /\ ss'.store = s.store
        /\ ss'.page = s.page /\ ss'.leftBehind = s.leftBehind /\ ss'.me = s.me /\ ss'.login = "none"
    BY <2>1, <2>2 DEF SSState
  <2> QED BY <2>1, <2>3, <1>b DEF SSInv, SSSound, Left
<1>8. CASE LoginAnswered
  <2> DEFINE s == [ss EXCEPT !.login = "none"]
  <2>1. s \in SSState /\ s.leftBehind = ss.leftBehind BY <1>a DEF SSState
  <2>2. ss.login = "ok" /\ ss' = SetStore(s, TRUE) BY <1>8 DEF LoginAnswered
  <2> HIDE DEF s
  <2> QED BY <2>1, <2>2, <1>b, SetStoreSound DEF SSInv, Left
<1>9. CASE CallApi BY <1>9, <1>a, <1>b DEF CallApi, SSInv, SSSound, Left, SSState
<1>10. CASE ApiProcessed BY <1>10, <1>a, <1>b DEF ApiProcessed, SSInv, SSSound, Left, SSState
<1>11. CASE ApiAnswered
  <2> DEFINE s == [ss EXCEPT !.api = "none"]
  <2>1. s \in SSState /\ s.leftBehind = ss.leftBehind /\ s.session = ss.session BY <1>a DEF SSState
  <2>2. ss' = Loaded(Unauthorized(s), "login") BY <1>11 DEF ApiAnswered
  <2> HIDE DEF s
  <2> QED BY <2>1, <2>2, <1>b, LoadedSound, UnauthorizedKeeps DEF SSInv, Left
<1>12. CASE handleLogout \/ handleRevokeSession
  BY <1>12, <1>a, <1>b DEF handleLogout, handleRevokeSession, StartSignOut, SSInv, SSSound, Left, SSState
<1>13. CASE SignOutProcessed BY <1>13, <1>a, <1>b DEF SignOutProcessed, SSInv, SSSound, Left, SSState
<1>14. CASE SignOutDone
  <2> DEFINE left == ~ss.session /\ ss.me = "none" /\ ss.login = "none"
             s == [ss EXCEPT !.out = "none", !.leftBehind = left]
  <2>1. left \in BOOLEAN OBVIOUS
  <2>2. ss' = SetStore(s, FALSE) BY <1>14 DEF SignOutDone, StoreCleared
  <2>3. left => ~ss.session /\ ss.me = "none" /\ ss.login = "none" OBVIOUS
  <2> HIDE DEF left
  <2>4. s \in SSState /\ s.leftBehind = left /\ s.session = ss.session /\ s.me = ss.me /\ s.login = ss.login
    BY <1>a, <2>1 DEF SSState
  <2> HIDE DEF s
  <2> QED BY <2>2, <2>3, <2>4, SetStoreSound DEF SSInv
<1>15. CASE SignOutFails
  <2> DEFINE s == [ss EXCEPT !.out = "none"]
  <2>1. /\ s \in SSState /\ s.leftBehind = ss.leftBehind /\ s.session = ss.session /\ s.me = ss.me
        /\ s.login = ss.login /\ s.store = ss.store /\ s.stored = ss.stored /\ s.page = ss.page
    BY <1>a DEF SSState
  <2>2. ss' = IF ss.out = "logout" THEN SetStore(s, FALSE) ELSE s BY <1>15 DEF SignOutFails, StoreCleared
  <2> HIDE DEF s
  <2>3. SSSound(s) BY <2>1, <1>b DEF SSSound, Left
  <2> QED BY <2>1, <2>2, <2>3, <1>b, SetStoreSound DEF SSInv, Left
<1>16. CASE SessionEnds BY <1>16, <1>a, <1>b DEF SessionEnds, SSInv, SSSound, Left, SSState
<1>17. ASSUME NEW auth \in BOOLEAN, OtherTabSigns(auth) PROVE SSInv'
  <2>1. Initialised(auth) \in SSStore /\ Initialised(auth).initialized BY DEF Initialised, SSStore
  <2>2. /\ ss' \in SSState /\ ss'.store = ss.store /\ ss'.stored = Initialised(auth) /\ ~ss'.leftBehind
    BY <1>17, <1>a, <2>1 DEF OtherTabSigns, SSState
  <2> QED BY <2>1, <2>2, <1>b DEF SSInv, SSSound
<1>18. CASE LoginLost BY <1>18, <1>a, <1>b DEF LoginLost, SSInv, SSSound, Left, SSState
<1>19. CASE SignOutRefused BY <1>19, <1>a, <1>b DEF SignOutRefused, SSInv, SSSound, Left, SSState
<1>20. CASE SignOutUnauthorized
  <2> DEFINE t == [ss EXCEPT !.out = "none"]
             s == Unauthorized(t)
  <2>1. t \in SSState /\ t.leftBehind = ss.leftBehind /\ t.session = ss.session
    BY <1>a DEF SSState
  <2>2. ss' = Loaded(IF ss.out = "logout_401" THEN SetStore(s, FALSE) ELSE s, "login")
    BY <1>20 DEF SignOutUnauthorized, StoreCleared
  <2>3. /\ ss.leftBehind => ss.me # "ok" /\ ss.login # "ok"
        /\ t.me = ss.me /\ t.login = ss.login
    <3>1. t.me = ss.me /\ t.login = ss.login BY <1>a DEF SSState
    <3>2. ss.leftBehind => ss.me # "ok" /\ ss.login # "ok" BY <1>b DEF Left
    <3> QED BY <3>1, <3>2
  <2> HIDE DEF t
  <2>4. /\ s \in SSState /\ s.leftBehind = ss.leftBehind /\ s.session = ss.session
        /\ ~s.stored.auth /\ s.me = ss.me /\ s.login = ss.login
    BY <2>1, <2>3, UnauthorizedKeeps
  <2> HIDE DEF s
  <2>5. s.leftBehind => ~s.session BY <2>4, <1>b DEF Left
  <2>6. SSSound(Loaded(s, "login")) BY <2>4, <2>5, LoadedSound
  <2>7. SSSound(SetStore(s, FALSE)) BY <2>3, <2>4, <2>5, SetStoreSound
  <2>8. SSSound(Loaded(SetStore(s, FALSE), "login"))
    BY <2>7, LoadedSound DEF SSSound, Left
  <2>9. ss' = Loaded(SetStore(s, FALSE), "login") \/ ss' = Loaded(s, "login") BY <2>2, Zenon
  <2>10. SSSound(ss') BY <2>6, <2>8, <2>9, Zenon
  <2> QED BY <2>10 DEF SSInv
<1> QED BY <1>1, <1>2, <1>3, <1>4, <1>5, <1>6, <1>7, <1>8, <1>9, <1>10, <1>11, <1>12, <1>13, <1>14, <1>15,
           <1>16, <1>17, <1>18, <1>19, <1>20 DEF SSNext

LEMMA SSHolds == SSInv => SSTypeOK /\ SignedOutStaysOut
  BY DEF SSInv, SSSound, SSState, Left, SSTypeOK, SignedOutStaysOut

-----------------------------------------------------------------------------
(* The challenge of the login page.                                        *)

\* The states of the page.
LCState ==
    [policy : Protections, protection : Protections, first : Protections \cup {"none", "sent"},
     again : Protections \cup {"none", "sent"}, ready : BOOLEAN, widget : BOOLEAN, everDrawn : BOOLEAN,
     token : {"none", "fresh", "spent"}, login : {"none", "bare", "fresh", "spent", "in", "asking"},
     error : BOOLEAN]

\* A token is only there with its widget, and one that was sent is gone
\* before the button comes back.
LCSound(s) ==
    /\ s \in LCState
    /\ ~s.widget => s.token = "none"
    /\ s.login \in {"none", "asking"} => s.token # "spent"
    /\ s.login # "spent"
    /\ s.again # "none" <=> s.login = "asking"
LCInv == LCSound(lc)

LEMMA TurnstileEffectsSound ==
  ASSUME NEW s, LCSound(s) PROVE LCSound(TurnstileEffects(s))
<1>1. CASE s.protection = "required" /\ s.ready
  <2>1. TurnstileEffects(s) = [s EXCEPT !.widget = TRUE, !.everDrawn = TRUE] BY <1>1 DEF TurnstileEffects
  <2> QED BY <2>1 DEF LCSound, LCState
<1>2. CASE s.protection = "required" /\ ~s.ready BY <1>2 DEF TurnstileEffects
<1>3. CASE s.protection # "required"
  <2>1. TurnstileEffects(s) = [s EXCEPT !.widget = FALSE, !.token = "none"] BY <1>3 DEF TurnstileEffects
  <2> QED BY <2>1 DEF LCSound, LCState
<1> QED BY <1>1, <1>2, <1>3

LEMMA LCInitially == LCMounted => LCInv
  BY DEF LCMounted, LCInv, LCSound, LCState, Protections

LEMMA LCStep == LCInv /\ LCNext => LCInv'
<1> SUFFICES ASSUME LCInv, LCNext PROVE LCInv' OBVIOUS
<1>a. lc \in LCState BY DEF LCInv, LCSound
<1> USE DEF LCInv
<1>p. Protections = {"off", "idle", "required"} BY DEF Protections
<1>1. CASE PolicyChanges BY <1>1, <1>a, <1>p DEF PolicyChanges, LCSound, LCState
<1>2. CASE FirstProcessed BY <1>2, <1>a DEF FirstProcessed, LCSound, LCState
<1>3. CASE FirstAnswered
  <2>1. LCSound([lc EXCEPT !.first = "none", !.protection = lc.first]) BY <1>3, <1>a DEF FirstAnswered, LCSound, LCState
  <2> QED BY <1>3, <2>1, TurnstileEffectsSound DEF FirstAnswered
<1>4. CASE FirstLost
  <2>1. LCSound([lc EXCEPT !.first = "none", !.protection = "off"]) BY <1>4, <1>a, <1>p DEF LCSound, LCState
  <2> QED BY <1>4, <2>1, TurnstileEffectsSound DEF FirstLost
<1>5. CASE ScriptLoaded
  <2>1. LCSound([lc EXCEPT !.ready = TRUE]) BY <1>5, <1>a DEF LCSound, LCState
  <2> QED BY <1>5, <2>1, TurnstileEffectsSound DEF ScriptLoaded
<1>6. CASE TokenGiven BY <1>6, <1>a DEF TokenGiven, LCSound, LCState
<1>7. CASE TokenExpires BY <1>7, <1>a DEF TokenExpires, LCSound, LCState
<1>8. CASE SubmitWithoutToken BY <1>8, <1>a DEF SubmitWithoutToken, LCSound, LCState
<1>9. CASE SubmitCredentials BY <1>9, <1>a DEF SubmitCredentials, LCSound, LCState
<1>10. CASE LoginSucceeds BY <1>10, <1>a DEF LoginSucceeds, SignInSent, LCSound, LCState
<1>11. CASE LoginFails
  <2> DEFINE s == resetChallenge(lc)
  <2>1. s \in LCState /\ s.widget = lc.widget /\ s.token = "none"
    BY <1>a DEF resetChallenge, LCState, LCSound
  <2>2. SignInSent /\ lc' = [s EXCEPT !.login = "asking", !.again = "sent"] BY <1>11 DEF LoginFails
  <2> HIDE DEF s
  <2> QED BY <2>1, <2>2 DEF LCSound, LCState
<1>12. CASE AgainProcessed BY <1>12, <1>a, <1>p DEF AgainProcessed, LCSound, LCState
<1>13. CASE AgainAnswered
  <2>1. LCSound([lc EXCEPT !.again = "none", !.protection = lc.again, !.login = "none", !.error = TRUE])
    BY <1>13, <1>a, <1>p DEF AgainAnswered, LCSound, LCState
  <2> QED BY <1>13, <2>1, TurnstileEffectsSound DEF AgainAnswered
<1>14. CASE AgainLost BY <1>14, <1>a DEF AgainLost, LCSound, LCState
<1> QED BY <1>1, <1>2, <1>3, <1>4, <1>5, <1>6, <1>7, <1>8, <1>9, <1>10, <1>11, <1>12, <1>13, <1>14 DEF LCNext

LEMMA LCHolds == LCInv => LCTypeOK /\ TokenSentOnce
  BY DEF LCInv, LCSound, LCState, LCTypeOK, TokenSentOnce

-----------------------------------------------------------------------------
(* The diagnosis after a save.                                             *)

\* The states of the pages.
Notice == {NoNotice} \cup [id : Nat, at : Nat, error : BOOLEAN]
SaveWork ==
    [phase : {"delay", "ask", "answer"}, active : BOOLEAN, attempt : 1..MaxAttempts, last : Nat, at : Nat]
ConnectWork == [phase : {"ask", "answer"}, notice : Nat, at : Nat, detached : BOOLEAN]
DGState ==
    [page : {"form", "list"}, log : Seq(Results), cached : Nat, saves : Nat, snapshot : Notice, pending : Notice,
     seen : SUBSET Nat, local : Notice, banner : Notice, connectionError : BOOLEAN,
     save : {NoWork} \cup SaveWork, connect : {NoWork} \cup ConnectWork]

\* Positions are within the log, and the form shows nothing of the list.
LogSound(s) ==
    /\ s.cached <= Len(s.log)
    /\ s.save # NoWork => s.save.at <= Len(s.log)
    /\ s.page = "form" => /\ s.banner = NoNotice /\ s.local = NoNotice
                          /\ s.connect # NoWork => s.connect.detached
\* A notice in the storage has not been shown, nor has that of the save under
\* way, which is not in the storage yet.
NoticeSound(s) ==
    /\ \A i \in s.seen : i <= s.saves
    /\ s.save # NoWork => s.saves > 0 /\ s.saves \notin s.seen /\ s.pending.id # s.saves
    /\ s.pending # NoNotice => s.pending.id \notin s.seen /\ s.pending.id <= s.saves
DGSound(s) == s \in DGState /\ LogSound(s) /\ NoticeSound(s)
DGInv == DGSound(dg)

LEMMA NoticeIds == \A n \in Notice : n.id \in Nat /\ n.id >= 0
  BY DEF Notice, NoNotice

LEMMA DGInitially == DGMounted => DGInv
<1> SUFFICES ASSUME DGMounted PROVE DGInv OBVIOUS
<1>1. NoNotice \in Notice BY DEF Notice
<1>2. << >> \in Seq(Results) /\ Len(<< >>) = 0 OBVIOUS
<1>3. dg \in DGState BY <1>1, <1>2 DEF DGMounted, DGState
<1>4. /\ dg.cached = 0 /\ dg.log = << >> /\ dg.save = NoWork /\ dg.connect = NoWork /\ dg.banner = NoNotice
      /\ dg.local = NoNotice /\ dg.pending = NoNotice /\ dg.seen = {}
  BY DEF DGMounted
<1> QED BY <1>2, <1>3, <1>4 DEF DGInv, DGSound, LogSound, NoticeSound

\* Opening the list shows what is pending.
LEMMA ListOpenedSound ==
  ASSUME NEW s \in DGState, s.cached <= Len(s.log), s.save # NoWork => s.save.at <= Len(s.log), NoticeSound(s)
  PROVE  DGSound(ListOpened(s)) /\ ListOpened(s).banner = s.pending
<1> DEFINE seen == s.seen \cup {s.pending.id}
           t == [s EXCEPT !.page = "list", !.banner = s.pending, !.local = s.snapshot,
                          !.pending = NoNotice, !.seen = seen, !.connectionError = FALSE]
<1>1. s.pending \in Notice /\ s.snapshot \in Notice /\ NoNotice \in Notice /\ s.seen \in SUBSET Nat /\ s.saves \in Nat
  BY DEF DGState, Notice
<1>2. s.pending.id \in Nat BY <1>1, NoticeIds
<1>3. seen \in SUBSET Nat BY <1>1, <1>2
<1>4. ListOpened(s) = t BY DEF ListOpened, consumeNotice
<1>5. NoNotice.id = 0 BY DEF NoNotice
<1>6. s.pending.id <= s.saves BY <1>1, <1>5 DEF NoticeSound
<1>7. s.save # NoWork => s.saves \notin seen /\ s.saves > 0 BY DEF NoticeSound
<1>8. \A i \in seen : i <= s.saves BY <1>6 DEF NoticeSound
<1> HIDE DEF seen
<1>9. /\ t \in DGState /\ t.page = "list" /\ t.cached = s.cached /\ t.log = s.log /\ t.save = s.save
      /\ t.pending = NoNotice /\ t.seen = seen /\ t.saves = s.saves /\ t.banner = s.pending
  BY <1>1, <1>3 DEF DGState
<1> HIDE DEF t
<1> QED BY <1>1, <1>4, <1>5, <1>7, <1>8, <1>9 DEF DGSound, LogSound, NoticeSound

\* The notice of a save that has ended.
LEMMA NoticeStored ==
  ASSUME NEW s, DGSound(s), s.save # NoWork, NEW at \in Nat, NEW error \in BOOLEAN
  PROVE  LET t == storeServiceSaveDiagnosisNotice(s, buildNotice(s.saves, at, error))
         IN  DGSound(t) /\ (s.page = "form" => t.banner.id \notin s.seen)
<1> DEFINE n == buildNotice(s.saves, at, error)
           u == [s EXCEPT !.pending = n, !.snapshot = n, !.save = NoWork]
           t == storeServiceSaveDiagnosisNotice(s, n)
<1>1. s \in DGState /\ s.saves \in Nat /\ s.page \in {"form", "list"} BY DEF DGSound, DGState
<1>2. n \in Notice /\ n.id = s.saves BY <1>1 DEF buildNotice, Notice
<1>3. t = IF s.page = "list" THEN u ELSE ListOpened(u) BY DEF storeServiceSaveDiagnosisNotice
<1> HIDE DEF n
<1>4. /\ u \in DGState /\ u.page = s.page /\ u.cached = s.cached /\ u.log = s.log /\ u.save = NoWork
      /\ u.pending = n /\ u.seen = s.seen /\ u.saves = s.saves /\ u.banner = s.banner /\ u.local = s.local
      /\ u.connect = s.connect
  BY <1>1, <1>2 DEF DGState
<1> HIDE DEF u, t
<1>5. NoticeSound(u) /\ u.cached <= Len(u.log) BY <1>1, <1>2, <1>4 DEF DGSound, NoticeSound, LogSound
<1>6. LogSound(u) BY <1>4 DEF DGSound, LogSound
<1>7. DGSound(ListOpened(u)) /\ ListOpened(u).banner = n BY <1>4, <1>5, ListOpenedSound
<1>8. s.saves \notin s.seen BY DEF DGSound, NoticeSound
<1>9. DGSound(t) /\ (s.page = "form" => t.banner.id \notin s.seen)
  BY <1>1, <1>2, <1>3, <1>4, <1>5, <1>6, <1>7, <1>8 DEF DGSound
<1> QED BY <1>9 DEF t, n

\* A diagnosis is appended.
LEMMA RecordedKeeps ==
  ASSUME NEW s, DGSound(s), NEW result \in Results
  PROVE  /\ DGSound(Recorded(s, result)) /\ Len(Recorded(s, result).log) = Len(s.log) + 1
         /\ Recorded(s, result).save = s.save /\ Recorded(s, result).connect = s.connect
         /\ Recorded(s, result).page = s.page /\ Len(s.log) \in Nat
<1> DEFINE log == Append(s.log, result)
           t == [s EXCEPT !.log = log]
<1>1. s \in DGState /\ s.log \in Seq(Results) /\ s.cached \in Nat BY DEF DGSound, DGState
<1>2. log \in Seq(Results) /\ Len(log) = Len(s.log) + 1 /\ Len(s.log) \in Nat BY <1>1
<1>3. Recorded(s, result) = t BY DEF Recorded
<1> HIDE DEF log
<1>4. /\ t \in DGState /\ t.page = s.page /\ t.cached = s.cached /\ t.log = log /\ t.save = s.save
      /\ t.pending = s.pending /\ t.seen = s.seen /\ t.saves = s.saves /\ t.banner = s.banner /\ t.local = s.local
      /\ t.connect = s.connect
  BY <1>1, <1>2 DEF DGState
<1> HIDE DEF t
<1>5. s.save # NoWork => s.save.at \in Nat BY <1>1 DEF DGState, SaveWork
<1> QED BY <1>1, <1>2, <1>3, <1>4, <1>5 DEF DGSound, LogSound, NoticeSound

\* The work of the save moves on.
LEMMA SaveMoves ==
  ASSUME NEW s, DGSound(s), s.save # NoWork, NEW w \in SaveWork, w.at <= Len(s.log)
  PROVE  DGSound([s EXCEPT !.save = w])
<1> DEFINE t == [s EXCEPT !.save = w]
<1>1. /\ t \in DGState /\ t.page = s.page /\ t.cached = s.cached /\ t.log = s.log /\ t.save = w
      /\ t.pending = s.pending /\ t.seen = s.seen /\ t.saves = s.saves /\ t.banner = s.banner /\ t.local = s.local
      /\ t.connect = s.connect
  BY DEF DGSound, DGState
<1> HIDE DEF t
<1>2. DGSound(t) BY <1>1 DEF DGSound, LogSound, NoticeSound
<1> QED BY <1>2 DEF t

LEMMA DGStep == DGInv /\ DGNext => DGInv'
<1> SUFFICES ASSUME DGInv, DGNext PROVE DGInv' OBVIOUS
<1>a. /\ dg \in DGState /\ dg.page \in {"form", "list"} /\ dg.log \in Seq(Results) /\ Len(dg.log) \in Nat
      /\ dg.cached \in Nat /\ dg.saves \in Nat /\ dg.saves + 1 \in Nat /\ dg.seen \in SUBSET Nat
      /\ dg.save \in {NoWork} \cup SaveWork /\ dg.connect \in {NoWork} \cup ConnectWork
      /\ dg.banner \in Notice /\ dg.pending \in Notice /\ dg.snapshot \in Notice /\ dg.local \in Notice /\ NoNotice \in Notice
  BY DEF DGInv, DGSound, DGState, Notice
<1>b. DGSound(dg) /\ LogSound(dg) /\ NoticeSound(dg) BY DEF DGInv, DGSound
<1>w. NoWork.phase = "none" BY DEF NoWork
<1>s. ASSUME dg.save.phase \in {"delay", "ask", "answer"}
      PROVE  /\ dg.save # NoWork /\ dg.save \in SaveWork /\ dg.save.at \in Nat /\ dg.save.last \in Nat
             /\ dg.save.attempt \in 1..MaxAttempts /\ dg.save.at <= Len(dg.log)
  BY <1>s, <1>a, <1>b, <1>w DEF SaveWork, LogSound
<1>c. ASSUME dg.connect.phase \in {"ask", "answer"}
      PROVE  /\ dg.connect # NoWork /\ dg.connect \in ConnectWork /\ dg.connect.notice \in Nat /\ dg.connect.at \in Nat
             /\ dg.connect.detached \in BOOLEAN
  BY <1>c, <1>a, <1>w DEF ConnectWork
<1>1. CASE OpenForm
  <2> DEFINE connect == IF dg.connect.phase = "none" THEN dg.connect ELSE [dg.connect EXCEPT !.detached = TRUE]
  <2>1. connect \in {NoWork} \cup ConnectWork /\ (connect # NoWork => connect.detached)
    <3>1. CASE dg.connect = NoWork BY <3>1, <1>w
    <3>2. CASE dg.connect \in ConnectWork
      <4>1. dg.connect.phase # "none" BY <3>2 DEF ConnectWork
      <4> QED BY <3>2, <4>1 DEF ConnectWork
    <3> QED BY <3>1, <3>2, <1>a
  <2>2. dg' = [dg EXCEPT !.page = "form", !.banner = NoNotice, !.local = NoNotice,
                         !.connectionError = FALSE, !.connect = connect]
    BY <1>1 DEF OpenForm
  <2> HIDE DEF connect
  <2>3. /\ dg' \in DGState /\ dg'.cached = dg.cached /\ dg'.log = dg.log /\ dg'.save = dg.save
        /\ dg'.pending = dg.pending /\ dg'.seen = dg.seen /\ dg'.saves = dg.saves /\ dg'.banner = NoNotice
        /\ dg'.local = NoNotice /\ dg'.connect = connect
    BY <2>1, <2>2, <1>a DEF DGState
  <2> QED BY <2>1, <2>3, <1>b DEF DGInv, DGSound, LogSound, NoticeSound
<1>2. CASE LeaveForm BY <1>2, <1>a, <1>b, ListOpenedSound DEF LeaveForm, DGInv, LogSound
<1>3. CASE CloseBanner
  <2>1. /\ dg' \in DGState /\ dg'.cached = dg.cached /\ dg'.log = dg.log /\ dg'.save = dg.save
        /\ dg'.pending = dg.pending /\ dg'.seen = dg.seen /\ dg'.saves = dg.saves /\ dg'.page = "list"
    BY <1>3, <1>a DEF DGState, CloseBanner
  <2> QED BY <2>1, <1>b DEF DGInv, DGSound, LogSound, NoticeSound
<1>4. ASSUME NEW active \in BOOLEAN, SaveService(active) PROVE DGInv'
  <2> DEFINE w == [phase |-> IF active THEN "delay" ELSE "ask", active |-> active, attempt |-> 1, last |-> 0, at |-> 0]
  <2>1. w \in SaveWork /\ w.at = 0 BY DEF SaveWork, MaxAttempts
  <2>2. dg' = [dg EXCEPT !.saves = @ + 1, !.save = w] /\ dg.page = "form" BY <1>4 DEF SaveService
  <2> HIDE DEF w
  <2>3. /\ dg' \in DGState /\ dg'.cached = dg.cached /\ dg'.log = dg.log /\ dg'.save = w /\ dg'.page = dg.page
        /\ dg'.pending = dg.pending /\ dg'.seen = dg.seen /\ dg'.saves = dg.saves + 1 /\ dg'.banner = dg.banner
        /\ dg'.local = dg.local /\ dg'.connect = dg.connect
    BY <2>1, <2>2, <1>a DEF DGState
  <2>4. LogSound(dg') BY <2>1, <2>3, <1>a, <1>b DEF LogSound
  <2>5. dg.pending.id <= dg.saves /\ dg.pending.id \in Nat
    <3>1. NoNotice.id = 0 BY DEF NoNotice
    <3> QED BY <3>1, <1>a, <1>b, NoticeIds DEF NoticeSound
  <2>6. NoticeSound(dg') BY <2>3, <2>5, <1>a, <1>b DEF NoticeSound
  <2> QED BY <2>3, <2>4, <2>6 DEF DGInv, DGSound
<1>5. CASE DelayOver
  <2> DEFINE w == [dg.save EXCEPT !.phase = "ask"]
  <2>1. dg.save.phase = "delay" /\ dg' = [dg EXCEPT !.save = w] BY <1>5, <1>a DEF DelayOver, DGState
  <2>2. w \in SaveWork /\ w.at = dg.save.at BY <2>1, <1>s DEF SaveWork
  <2> HIDE DEF w
  <2> QED BY <2>1, <2>2, <1>s, <1>b, SaveMoves DEF DGInv
<1>6. CASE SaveAnswered
  <2>1. dg.save.phase = "answer" BY <1>6 DEF SaveAnswered
  <2>2. CASE dg.save.active /\ shouldRetryDiagnosis(dg.save)
    <3> DEFINE w == [dg.save EXCEPT !.phase = "delay", !.attempt = @ + 1, !.last = dg.save.at]
    <3>1. dg' = [dg EXCEPT !.save = [dg.save EXCEPT !.phase = "delay", !.attempt = dg.save.attempt + 1, !.last = dg.save.at]]
      BY <1>6, <2>2, Zenon DEF SaveAnswered
    <3>2. dg.save.attempt + 1 \in 1..MaxAttempts
      <4>1. dg.save.attempt \in 1..MaxAttempts /\ dg.save.attempt < MaxAttempts
        BY <2>1, <2>2, <1>s DEF shouldRetryDiagnosis
      <4> QED BY <4>1 DEF MaxAttempts
    <3>3. w \in SaveWork /\ w.at = dg.save.at BY <2>1, <3>2, <1>s DEF SaveWork
    <3>4. dg' = [dg EXCEPT !.save = w] BY <3>1
    <3> HIDE DEF w
    <3> QED BY <2>1, <3>3, <3>4, <1>s, <1>b, SaveMoves DEF DGInv
  <2>3. CASE ~(dg.save.active /\ shouldRetryDiagnosis(dg.save))
    <3>1. dg' = storeServiceSaveDiagnosisNotice(dg, buildNotice(dg.saves, dg.save.at, FALSE))
      BY <1>6, <2>3 DEF SaveAnswered
    <3> QED BY <2>1, <3>1, <1>s, <1>b, NoticeStored DEF DGInv
  <2> QED BY <2>2, <2>3
<1>7. CASE SaveDiagnosisFails
  <2>1. dg.save.phase \in {"ask", "answer"}
        /\ dg' = storeServiceSaveDiagnosisNotice(dg, buildNotice(dg.saves, dg.save.last, TRUE))
    BY <1>7 DEF SaveDiagnosisFails
  <2> QED BY <2>1, <1>s, <1>b, NoticeStored DEF DGInv
<1>8. ASSUME NEW result \in Results, DiagnosisRecorded(result) PROVE DGInv'
  <2> DEFINE s == Recorded(dg, result)
             w == [dg.save EXCEPT !.phase = "answer", !.at = Len(dg.log) + 1]
  <2>1. /\ DGSound(s) /\ Len(s.log) = Len(dg.log) + 1 /\ s.save = dg.save BY <1>b, RecordedKeeps
  <2>2. dg.save.phase = "ask" /\ dg' = [s EXCEPT !.save.phase = "answer", !.save.at = Len(dg.log) + 1]
    BY <1>8 DEF DiagnosisRecorded
  <2>3. w \in SaveWork /\ w.at = Len(dg.log) + 1
    <3>1. dg.save \in SaveWork /\ Len(dg.log) + 1 \in Nat BY <2>2, <1>s, <1>a
    <3> QED BY <3>1 DEF SaveWork
  <2> HIDE DEF s
  <2>4. dg' = [s EXCEPT !.save = w]
    <3>1. s \in DGState BY <2>1 DEF DGSound
    <3> QED BY <3>1, <2>1, <2>2 DEF DGState
  <2> HIDE DEF w
  <2>5. w.at <= Len(s.log) BY <2>1, <2>3, <1>a
  <2>6. s.save # NoWork BY <2>1, <2>2, <1>s
  <2> QED BY <2>1, <2>3, <2>4, <2>5, <2>6, SaveMoves DEF DGInv
<1>9. ASSUME NEW s, DGSound(s), NEW w \in ConnectWork, s.page = "form" => w.detached, dg' = [s EXCEPT !.connect = w]
      PROVE  DGInv'
  <2>1. /\ dg' \in DGState /\ dg'.page = s.page /\ dg'.cached = s.cached /\ dg'.log = s.log /\ dg'.save = s.save
        /\ dg'.pending = s.pending /\ dg'.seen = s.seen /\ dg'.saves = s.saves /\ dg'.banner = s.banner
        /\ dg'.local = s.local /\ dg'.connect = w
    BY <1>9 DEF DGSound, DGState
  <2> QED BY <2>1, <1>9 DEF DGInv, DGSound, LogSound, NoticeSound
<1>10. ASSUME NEW result \in Results, ConnectRecorded(result) PROVE DGInv'
  <2> DEFINE s == Recorded(dg, result)
             w == [dg.connect EXCEPT !.phase = "answer", !.at = Len(dg.log) + 1]
  <2>1. /\ DGSound(s) /\ s.connect = dg.connect /\ s.page = dg.page BY <1>b, RecordedKeeps
  <2>2. dg.connect.phase = "ask" /\ dg' = [s EXCEPT !.connect.phase = "answer", !.connect.at = Len(dg.log) + 1]
    BY <1>10 DEF ConnectRecorded
  <2>3. w \in ConnectWork /\ w.detached = dg.connect.detached
    <3>1. dg.connect \in ConnectWork /\ Len(dg.log) + 1 \in Nat BY <2>2, <1>c, <1>a
    <3> QED BY <3>1 DEF ConnectWork
  <2> HIDE DEF s
  <2>4. dg' = [s EXCEPT !.connect = w]
    <3>1. s \in DGState BY <2>1 DEF DGSound
    <3> QED BY <3>1, <2>1, <2>2 DEF DGState
  <2> HIDE DEF w
  <2>5. s.page = "form" => w.detached BY <2>1, <2>2, <2>3, <1>b, <1>c DEF LogSound
  <2> QED BY <2>1, <2>3, <2>4, <2>5, <1>9
<1>11. ASSUME NEW result \in Results, DiagnoseElsewhere(result) PROVE DGInv'
  BY <1>11, <1>b, RecordedKeeps DEF DiagnoseElsewhere, DGInv
<1>12. CASE handleConnectNetwork
  <2> DEFINE w == [phase |-> "ask", notice |-> dg.banner.id, at |-> 0, detached |-> FALSE]
  <2>1. w \in ConnectWork BY <1>a, NoticeIds DEF ConnectWork
  <2>2. dg' = [dg EXCEPT !.connect = w] /\ dg.page = "list" BY <1>12 DEF handleConnectNetwork, canConnectNetwork
  <2> HIDE DEF w
  <2> QED BY <2>1, <2>2, <1>b, <1>9
<1>13. CASE ConnectAnswered
  <2> DEFINE next == buildNotice(dg.connect.notice, dg.connect.at, FALSE)
             stored == [dg EXCEPT !.snapshot = next, !.connect = NoWork]
  <2>1. dg.connect.phase = "answer" BY <1>13 DEF ConnectAnswered
  <2>2. next \in Notice BY <2>1, <1>c DEF buildNotice, Notice
  <2>3. dg' = IF dg.connect.detached THEN stored ELSE [stored EXCEPT !.banner = next, !.local = next]
    BY <1>13 DEF ConnectAnswered
  <2> HIDE DEF next
  <2>4. /\ stored \in DGState /\ stored.page = dg.page /\ stored.cached = dg.cached /\ stored.log = dg.log
        /\ stored.save = dg.save /\ stored.pending = dg.pending /\ stored.seen = dg.seen /\ stored.saves = dg.saves
        /\ stored.banner = dg.banner /\ stored.local = dg.local /\ stored.connect = NoWork
    BY <2>2, <1>a DEF DGState
  <2> HIDE DEF stored
  <2>5. DGSound(stored) BY <2>4, <1>b DEF DGSound, LogSound, NoticeSound
  <2>6. CASE ~dg.connect.detached
    <3>1. dg.page = "list" BY <2>1, <2>6, <1>a, <1>b, <1>c DEF LogSound
    <3>2. /\ dg' \in DGState /\ dg'.page = "list" /\ dg'.cached = dg.cached /\ dg'.log = dg.log
          /\ dg'.save = dg.save /\ dg'.pending = dg.pending /\ dg'.seen = dg.seen /\ dg'.saves = dg.saves
      BY <2>2, <2>3, <2>4, <2>6, <3>1 DEF DGState
    <3> QED BY <3>2, <1>b DEF DGInv, DGSound, LogSound, NoticeSound
  <2> QED BY <2>3, <2>5, <2>6 DEF DGInv
<1>14. CASE ConnectFails
  <2> DEFINE failed == ~dg.connect.detached /\ dg.banner # NoNotice
  <2>1. failed \in BOOLEAN OBVIOUS
  <2>2. dg' = [dg EXCEPT !.connect = NoWork, !.connectionError = failed] BY <1>14 DEF ConnectFails
  <2> HIDE DEF failed
  <2>3. /\ dg' \in DGState /\ dg'.page = dg.page /\ dg'.cached = dg.cached /\ dg'.log = dg.log /\ dg'.save = dg.save
        /\ dg'.pending = dg.pending /\ dg'.seen = dg.seen /\ dg'.saves = dg.saves /\ dg'.banner = dg.banner
        /\ dg'.local = dg.local /\ dg'.connect = NoWork
    BY <2>1, <2>2, <1>a DEF DGState
  <2> QED BY <2>3, <1>b DEF DGInv, DGSound, LogSound, NoticeSound
<1>15. CASE AuditRefetched
  <2>1. /\ dg' \in DGState /\ dg'.page = dg.page /\ dg'.cached = Len(dg.log) /\ dg'.log = dg.log /\ dg'.save = dg.save
        /\ dg'.pending = dg.pending /\ dg'.seen = dg.seen /\ dg'.saves = dg.saves /\ dg'.banner = dg.banner
        /\ dg'.local = dg.local /\ dg'.connect = dg.connect
    BY <1>15, <1>a DEF AuditRefetched, DGState
  <2> QED BY <2>1, <1>a, <1>b DEF DGInv, DGSound, LogSound, NoticeSound
<1> QED BY <1>1, <1>2, <1>3, <1>4, <1>5, <1>6, <1>7, <1>8, <1>10, <1>11, <1>12, <1>13, <1>14, <1>15 DEF DGNext

\* The banner that opens with the list has not been seen.
LEMMA DGNotice ==
  DGInv /\ DGNext /\ dg.page = "form" /\ dg'.page = "list" /\ dg'.banner # NoNotice => dg'.banner.id \notin dg.seen
<1> SUFFICES ASSUME DGInv, DGNext, dg.page = "form", dg'.page = "list", dg'.banner # NoNotice
             PROVE  dg'.banner.id \notin dg.seen
  OBVIOUS
<1>a. dg \in DGState /\ DGSound(dg) /\ LogSound(dg) /\ NoticeSound(dg) BY DEF DGInv, DGSound
<1>b. dg.save \in {NoWork} \cup SaveWork /\ NoWork.phase = "none" BY <1>a DEF DGState, NoWork
<1>1. CASE LeaveForm
  <2>1. dg' = ListOpened(dg) BY <1>1 DEF LeaveForm
  <2>2. dg'.banner = dg.pending BY <1>a, <2>1, ListOpenedSound DEF LogSound
  <2> QED BY <2>2, <1>a DEF NoticeSound
<1>2. ASSUME NEW at \in Nat, NEW error \in BOOLEAN, dg.save # NoWork,
             dg' = storeServiceSaveDiagnosisNotice(dg, buildNotice(dg.saves, at, error))
      PROVE  dg'.banner.id \notin dg.seen
  BY <1>2, <1>a, NoticeStored
<1>3. CASE SaveAnswered
  <2>1. dg.save.phase = "answer" BY <1>3 DEF SaveAnswered
  <2>2. dg.save \in SaveWork /\ dg.save # NoWork /\ dg.save.at \in Nat BY <2>1, <1>b DEF SaveWork
  <2>3. CASE dg.save.active /\ shouldRetryDiagnosis(dg.save)
    <3>1. dg'.page = dg.page BY <1>3, <2>3, <1>a DEF SaveAnswered, DGState
    <3> QED BY <3>1
  <2>4. CASE ~(dg.save.active /\ shouldRetryDiagnosis(dg.save))
    <3>1. dg' = storeServiceSaveDiagnosisNotice(dg, buildNotice(dg.saves, dg.save.at, FALSE))
      BY <1>3, <2>4 DEF SaveAnswered
    <3> QED BY <2>2, <3>1, <1>2
  <2> QED BY <2>3, <2>4
<1>4. CASE SaveDiagnosisFails
  <2>1. dg.save.phase \in {"ask", "answer"}
        /\ dg' = storeServiceSaveDiagnosisNotice(dg, buildNotice(dg.saves, dg.save.last, TRUE))
    BY <1>4 DEF SaveDiagnosisFails
  <2>2. dg.save # NoWork /\ dg.save.last \in Nat BY <2>1, <1>b DEF SaveWork
  <2> QED BY <2>1, <2>2, <1>2
<1>5. ASSUME dg'.page = dg.page PROVE FALSE BY <1>5
<1>6. ~(\/ OpenForm \/ CloseBanner \/ (\E active \in BOOLEAN : SaveService(active)) \/ DelayOver
        \/ (\E result \in Results : DiagnosisRecorded(result) \/ ConnectRecorded(result) \/ DiagnoseElsewhere(result))
        \/ handleConnectNetwork \/ ConnectAnswered \/ ConnectFails \/ AuditRefetched)
  BY <1>a, <1>5 DEF OpenForm, CloseBanner, SaveService, DelayOver, DiagnosisRecorded, ConnectRecorded, DiagnoseElsewhere,
       Recorded, handleConnectNetwork, canConnectNetwork, ConnectAnswered, ConnectFails, AuditRefetched, DGState
<1> QED BY <1>1, <1>3, <1>4, <1>6 DEF DGNext

\* The three newest of a history.
LEMMA FirstThreeIs ==
  ASSUME NEW h \in Seq(Nat)
  PROVE  LET n == IF Len(h) < 3 THEN Len(h) ELSE 3
         IN  FirstThree(h) \in Seq(Nat) /\ Len(FirstThree(h)) = n /\ \A i \in 1..n : FirstThree(h)[i] = h[i]
<1> DEFINE n == IF Len(h) < 3 THEN Len(h) ELSE 3
<1>1. n \in Nat /\ n <= Len(h) /\ Len(h) \in Nat OBVIOUS
<1>2. FirstThree(h) = SubSeq(h, 1, n) BY DEF FirstThree
<1>3. \A i \in 1..n : h[i] \in Nat BY <1>1
<1> HIDE DEF n
<1>4. /\ SubSeq(h, 1, n) \in Seq(Nat) /\ Len(SubSeq(h, 1, n)) = IF 1 <= n THEN n - 1 + 1 ELSE 0
      /\ \A i \in 1..(n - 1 + 1) : SubSeq(h, 1, n)[i] = h[1 + i - 1]
  BY <1>1, <1>3, SubSeqProperties
<1>5. Len(SubSeq(h, 1, n)) = n BY <1>1, <1>4
<1>6. \A i \in 1..n : SubSeq(h, 1, n)[i] = h[i] BY <1>1, <1>4
<1> QED BY <1>2, <1>4, <1>5, <1>6 DEF n

LEMMA DGHolds == DGInv => DGTypeOK /\ HistorySound
<1> SUFFICES ASSUME DGInv PROVE DGTypeOK /\ HistorySound OBVIOUS
<1>1. /\ dg \in DGState /\ dg.cached \in Nat /\ Len(dg.log) \in Nat /\ dg.local \in Notice
      /\ dg.cached <= Len(dg.log) /\ dg.page \in {"form", "list"} /\ dg.save \in {NoWork} \cup SaveWork
  BY DEF DGInv, DGSound, DGState, LogSound
<1>2. DGTypeOK
  <2>1. dg.save # NoWork => dg.save.attempt \in 1..MaxAttempts /\ dg.save.at \in Nat /\ dg.save.at <= Len(dg.log)
    BY <1>1 DEF DGInv, DGSound, LogSound, SaveWork
  <2>2. dg.page = "form" => dg.banner = NoNotice /\ dg.local = NoNotice BY DEF DGInv, DGSound, LogSound
  <2> QED BY <1>1, <2>1, <2>2 DEF DGTypeOK
<1>3. HistorySound
  <2> SUFFICES ASSUME dg.local # NoNotice /\ dg.local.at # 0 => dg.local.at >= dg.cached
               PROVE  /\ Len(mergeDiagnosisHistories) <= 3
                      /\ \A i \in 1..(Len(mergeDiagnosisHistories) - 1) :
                           mergeDiagnosisHistories[i] > mergeDiagnosisHistories[i + 1]
    BY DEF HistorySound
  <2> DEFINE h == [i \in 1..dg.cached |-> dg.cached + 1 - i]
             s == ServerHistory
             n == IF dg.cached < 3 THEN dg.cached ELSE 3
  <2>1. h \in Seq(Nat) /\ Len(h) = dg.cached /\ \A i \in 1..dg.cached : h[i] = dg.cached + 1 - i
    <3>1. \A i \in 1..dg.cached : dg.cached + 1 - i \in Nat BY <1>1
    <3> QED BY <1>1, <3>1
  <2>2. s = FirstThree(h) BY DEF ServerHistory
  <2> HIDE DEF h, s
  <2>3. s \in Seq(Nat) /\ Len(s) = n /\ \A i \in 1..n : s[i] = h[i] BY <2>1, <2>2, FirstThreeIs
  <2>4. \A i \in 1..n : s[i] = dg.cached + 1 - i BY <1>1, <2>1, <2>3
  <2>5. n \in 0..3 /\ n <= dg.cached BY <1>1
  <2>6. Len(s) <= 3 /\ \A i \in 1..(Len(s) - 1) : s[i] > s[i + 1]
    <3> HIDE DEF n
    <3>1. ASSUME NEW i \in 1..(n - 1) PROVE s[i] > s[i + 1]
      <4>1. i \in 1..n /\ i + 1 \in 1..n BY <2>5
      <4>2. s[i] = dg.cached + 1 - i /\ s[i + 1] = dg.cached + 1 - (i + 1) BY <2>4, <4>1
      <4> QED BY <1>1, <4>1, <4>2
    <3> QED BY <2>3, <2>5, <3>1
  <2>7. CASE dg.local = NoNotice \/ dg.local.at = 0
    BY <2>6, <2>7 DEF mergeDiagnosisHistories, s
  <2>8. CASE ~(dg.local = NoNotice \/ dg.local.at = 0)
    <3> DEFINE at == dg.local.at
               o == <<at>>
               c == o \o s
               f == FirstThree(c)
    <3>1. at \in Nat /\ at >= dg.cached BY <1>1, <2>8 DEF Notice
    <3>2. mergeDiagnosisHistories = IF s # << >> /\ s[1] = at THEN s ELSE f
      BY <2>8 DEF mergeDiagnosisHistories, WithLocal, s
    <3> HIDE DEF at
    <3>3. CASE s # << >> /\ s[1] = at BY <2>6, <3>2, <3>3
    <3>4. CASE ~(s # << >> /\ s[1] = at)
      <4>1. n > 0 => s[1] = dg.cached /\ s # << >> BY <1>1, <2>3, <2>4
      <4>2. n > 0 => at > dg.cached BY <1>1, <3>1, <3>4, <4>1
      <4>3. o \in Seq(Nat) /\ Len(o) = 1 /\ o[1] = at BY <3>1
      <4> HIDE DEF o, n
      <4>4. /\ c \in Seq(Nat) /\ Len(c) = 1 + n
            /\ \A i \in 1..(1 + n) : c[i] = IF i <= 1 THEN o[i] ELSE s[i - 1]
        <5>1. /\ o \o s \in Seq(Nat) /\ Len(o \o s) = Len(o) + Len(s)
              /\ \A i \in 1..(Len(o) + Len(s)) : (o \o s)[i] = IF i <= Len(o) THEN o[i] ELSE s[i - Len(o)]
          BY <2>3, <4>3, ConcatProperties
        <5>2. c = o \o s OBVIOUS
        <5>3. Len(o) = 1 /\ Len(s) = n BY <2>3, <4>3
        <5> HIDE DEF c
        <5> QED BY <5>1, <5>2, <5>3
      <4> HIDE DEF c
      <4>5. c[1] = at /\ \A i \in 2..(1 + n) : c[i] = dg.cached + 2 - i
        <5>1. c[1] = at BY <2>5, <4>3, <4>4
        <5>2. ASSUME NEW i \in 2..(1 + n) PROVE c[i] = dg.cached + 2 - i
          <6>1. i \in 1..(1 + n) /\ ~(i <= 1) /\ i - 1 \in 1..n BY <2>5
          <6>2. c[i] = s[i - 1] BY <4>4, <6>1
          <6> QED BY <1>1, <2>4, <6>1, <6>2
        <5> QED BY <5>1, <5>2
      <4> DEFINE k == IF 1 + n < 3 THEN 1 + n ELSE 3
      <4>6. Len(f) = k /\ \A i \in 1..k : f[i] = c[i] BY <4>4, FirstThreeIs
      <4> HIDE DEF f
      <4>7. k \in 1..3 /\ k <= 1 + n BY <2>5
      <4> HIDE DEF k
      <4>8. ASSUME NEW i \in 1..(k - 1) PROVE f[i] > f[i + 1]
        <5>1. i \in 1..k /\ i + 1 \in 1..k /\ i + 1 \in 2..(1 + n) /\ n > 0 BY <2>5, <4>7
        <5>2. f[i] = c[i] /\ f[i + 1] = dg.cached + 2 - (i + 1) BY <4>5, <4>6, <5>1
        <5>3. CASE i = 1 BY <1>1, <3>1, <4>2, <4>5, <5>1, <5>2, <5>3
        <5>4. CASE i # 1
          <6>1. i \in 2..(1 + n) BY <2>5, <4>7, <5>1, <5>4
          <6>2. c[i] = dg.cached + 2 - i BY <4>5, <6>1
          <6> QED BY <1>1, <5>2, <6>2
        <5> QED BY <5>3, <5>4
      <4>9. mergeDiagnosisHistories = f BY <3>2, <3>4
      <4>10. Len(f) <= 3 /\ \A i \in 1..(Len(f) - 1) : f[i] > f[i + 1] BY <4>6, <4>7, <4>8
      <4> QED BY <4>9, <4>10
    <3> QED BY <3>3, <3>4
  <2> QED BY <2>7, <2>8
<1> QED BY <1>2, <1>3

-----------------------------------------------------------------------------
(* The storefront watchdog.                                                *)

\* The states of the job.
SWFile ==
    [status : {"unknown", "healthy", "unhealthy"}, active : BOOLEAN, age : 0..StorefrontCooldown,
     failures : 0..FailureThreshold, checked : BOOLEAN, providerFailure : BOOLEAN]
SWProbe ==
    [step : {"probing", "probed"}, verify : BOOLEAN, today : BOOLEAN, ok : BOOLEAN,
     providerFailure : BOOLEAN, met : BOOLEAN]
SWJudged == [step : {"judged"}, next : SWFile, met : BOOLEAN]
SWState ==
    [shop : SUBSET ShopFlaws, provider : {"fine", "misconfigured", "unreachable"},
     hour : {"day", "night"}, ran : BOOLEAN, file : SWFile,
     run : {NotRunning} \cup SWProbe \cup SWJudged,
     last : {"none", "failure", "recovery"}, bad : 0..FailureThreshold, hasty : BOOLEAN, slips : Nat]

\* The count of bad runs when the present one is written.
BadThen(s) ==
    IF ~s.run.met THEN 0 ELSE IF s.bad < FailureThreshold THEN s.bad + 1 ELSE s.bad

\* A probe that found something was met by something; before an outage is
\* announced the file counts no more failures than there were bad runs; and
\* what will be in the file, as long as nothing slipped, is what was received.
SWSound(s) ==
    /\ s \in SWState
    /\ ~s.hasty
    /\ (s.run.step = "probed" /\ ~s.run.ok) => s.run.met
    /\ ~s.file.active => s.file.failures <= s.bad
    /\ (s.run.step = "judged" /\ ~s.run.next.active) => s.run.next.failures <= BadThen(s)
    /\ s.last = "none" => ~s.file.active
    /\ (s.last = "none" /\ s.run.step = "judged") => ~s.run.next.active
    /\ (s.slips = 0 /\ s.run.step # "judged") => (s.file.active <=> s.last = "failure")
    /\ (s.slips = 0 /\ s.run.step = "judged") => (s.run.next.active <=> s.last = "failure")
SWInv == SWSound(sw)

LEMMA SWInitially == SWMounted => SWInv
<1> SUFFICES ASSUME SWMounted PROVE SWInv OBVIOUS
<1>1. NoState \in SWFile /\ NoState.active = FALSE /\ NoState.failures = 0
  BY StorefrontAssumption DEF NoState, SWFile
<1>2. sw \in SWState BY <1>1, StorefrontAssumption DEF SWMounted, SWState
<1>3. sw.run.step = "idle" /\ sw.file = NoState /\ sw.last = "none" /\ sw.bad = 0 /\ sw.hasty = FALSE
  BY DEF SWMounted, NotRunning
<1> QED BY <1>1, <1>2, <1>3 DEF SWInv, SWSound

\* A run is as far as its step says.
LEMMA RunKinds ==
  ASSUME NEW s \in SWState
  PROVE  /\ s.run.step = "idle" => s.run = NotRunning
         /\ s.run.step \in {"probing", "probed"} => s.run \in SWProbe
         /\ s.run.step = "judged" => s.run \in SWJudged
         /\ s.run.step \in {"idle", "probing", "probed", "judged"}
  BY DEF SWState, SWProbe, SWJudged, NotRunning

\* With nothing wrong, every check passes.
LEMMA ProbeMet ==
  ASSUME NEW s \in SWState, s.run \in SWProbe, ~Wrong(s)
  PROVE  {runCheck(s, name, s.run.verify) : name \in CheckNames} = {"ok"}
<1>1. s.shop = {} /\ ~(s.run.verify /\ s.provider = "misconfigured") BY DEF Wrong
<1>2. \A path : FlawAt(s, path) = {} BY <1>1 DEF FlawAt
<1>3. \A path : assertHtml(s, path) BY <1>2 DEF assertHtml
<1>4. checkCatalog(s) /\ checkPaymentMethods(s) BY <1>2, <1>3 DEF checkCatalog, checkPaymentMethods
<1>5. \A name : ~(s.run.verify /\ ProviderOf(s, name) = "misconfigured")
  BY <1>1 DEF ProviderOf
<1>6. \A name : checkOAuth(s, name, s.run.verify) = "ok" BY <1>2, <1>5 DEF checkOAuth
<1>7. \A name \in CheckNames : runCheck(s, name, s.run.verify) = "ok"
  BY <1>3, <1>4, <1>6 DEF runCheck, CheckNames, OAUTH_CHECKS
<1>8. "catalog" \in CheckNames BY DEF CheckNames
<1> QED BY <1>7, <1>8

\* What a run would write.
LEMMA CurrentStateIs ==
  ASSUME NEW s, SWSound(s), s.run.step = "probed"
  PROVE  /\ CurrentState(s) \in SWFile
         /\ CurrentState(s).active = s.file.active
         /\ CurrentState(s).failures = ConsecutiveFailures(s)
         /\ ConsecutiveFailures(s) \in 0..FailureThreshold
         /\ s.run.ok => ConsecutiveFailures(s) = 0
         /\ ~s.file.active => ConsecutiveFailures(s) <= BadThen(s)
<1> DEFINE n == ConsecutiveFailures(s)
<1>1. /\ s.run \in SWProbe /\ s.file \in SWFile /\ s.bad \in 0..FailureThreshold
  BY RunKinds DEF SWSound, SWState
<1>2. /\ s.run.ok \in BOOLEAN /\ s.run.met \in BOOLEAN /\ s.run.verify \in BOOLEAN /\ s.run.today \in BOOLEAN
      /\ s.run.providerFailure \in BOOLEAN
  BY <1>1 DEF SWProbe
<1>3. /\ s.file.failures \in 0..FailureThreshold /\ s.file.age \in 0..StorefrontCooldown
      /\ s.file.active \in BOOLEAN /\ s.file.checked \in BOOLEAN /\ s.file.providerFailure \in BOOLEAN
  BY <1>1 DEF SWFile
<1>4. /\ n = IF s.run.ok THEN 0
             ELSE IF s.file.status = "unhealthy"
             THEN (IF s.file.failures < FailureThreshold THEN s.file.failures + 1 ELSE FailureThreshold)
             ELSE 1
  BY <1>2 DEF ConsecutiveFailures
<1> HIDE DEF n
<1>5. n \in 0..FailureThreshold BY <1>3, <1>4, StorefrontAssumption
<1>6. (~s.run.ok => s.run.met) /\ (~s.file.active => s.file.failures <= s.bad) BY DEF SWSound
<1>7. ~s.file.active => n <= BadThen(s) BY <1>1, <1>2, <1>3, <1>4, <1>6, StorefrontAssumption DEF BadThen
<1>8. (IF s.run.verify THEN s.run.today ELSE s.file.checked) \in BOOLEAN BY <1>2, <1>3
<1>9. (IF s.run.verify /\ s.run.providerFailure THEN TRUE
       ELSE s.file.providerFailure /\ ~(s.run.verify /\ s.run.ok)) \in BOOLEAN
  OBVIOUS
<1>10. (IF s.run.ok THEN "healthy" ELSE "unhealthy") \in {"unknown", "healthy", "unhealthy"} OBVIOUS
<1>11. /\ CurrentState(s) \in SWFile /\ CurrentState(s).active = s.file.active /\ CurrentState(s).failures = n
  BY <1>3, <1>5, <1>8, <1>9, <1>10 DEF CurrentState, SWFile, n
<1> QED BY <1>4, <1>5, <1>7, <1>11 DEF n

\* A run is judged: the outage is not announced hastily.
LEMMA JudgedSound ==
  ASSUME NEW s, SWSound(s), s.run.step = "probed", NEW next \in SWFile,
         NEW last \in {"none", "failure", "recovery"}, NEW slips \in Nat,
         ~next.active => next.failures <= BadThen(s),
         last = "none" => ~s.file.active /\ ~next.active,
         slips = 0 => (next.active <=> last = "failure")
  PROVE  /\ SWSound([Judged(s, next) EXCEPT !.last = last, !.slips = slips])
         /\ Judged(s, next).last = s.last /\ Judged(s, next).slips = s.slips
         /\ Judged(s, next) = [Judged(s, next) EXCEPT !.last = s.last, !.slips = s.slips]
<1> DEFINE hasty == s.hasty \/ (AlertAction(s) = "failure" /\ ~s.file.active /\ ~(s.run.met /\ s.bad + 1 >= FailureThreshold))
           run == [step |-> "judged", next |-> next, met |-> s.run.met]
           j == [s EXCEPT !.run = run, !.hasty = hasty]
           t == [j EXCEPT !.last = last, !.slips = slips]
<1>1. /\ s \in SWState /\ s.run \in SWProbe /\ s.run.met \in BOOLEAN /\ s.bad \in 0..FailureThreshold
      /\ s.hasty = FALSE /\ s.last \in {"none", "failure", "recovery"} /\ s.slips \in Nat
      /\ s.file \in SWFile /\ s.run.ok \in BOOLEAN
  BY RunKinds DEF SWSound, SWState, SWProbe
<1>2. ~hasty
  <2> SUFFICES ASSUME AlertAction(s) = "failure", ~s.file.active PROVE s.run.met /\ s.bad + 1 >= FailureThreshold
    BY <1>1
  <2>1. ~s.run.ok /\ ConsecutiveFailures(s) >= FailureThreshold BY <1>1 DEF AlertAction
  <2>2. s.run.met BY <2>1 DEF SWSound
  <2>3. ConsecutiveFailures(s) <= BadThen(s) /\ ConsecutiveFailures(s) \in 0..FailureThreshold BY CurrentStateIs
  <2>4. BadThen(s) \in Nat /\ BadThen(s) <= s.bad + 1 BY <1>1, <2>2, StorefrontAssumption DEF BadThen
  <2> QED BY <1>1, <2>1, <2>2, <2>3, <2>4, StorefrontAssumption
<1>3. hasty = FALSE BY <1>2
<1> HIDE DEF hasty
<1>4. run \in SWJudged /\ run.step = "judged" /\ run.next = next /\ run.met = s.run.met BY <1>1 DEF SWJudged
<1> HIDE DEF run
<1>5. j \in SWState /\ j.last = s.last /\ j.slips = s.slips /\ j.run = run /\ j.hasty = FALSE
      /\ j.file = s.file /\ j.bad = s.bad
  BY <1>1, <1>3, <1>4 DEF SWState
<1>6. Judged(s, next) = j BY DEF Judged, run, hasty
<1> HIDE DEF j
<1>7. t \in SWState /\ t.last = last /\ t.slips = slips /\ t.run = run /\ t.hasty = FALSE
      /\ t.file = s.file /\ t.bad = s.bad
  BY <1>5 DEF SWState
<1>8. j = [j EXCEPT !.last = s.last, !.slips = s.slips] BY <1>1, <1>5 DEF SWState
<1>9. BadThen(t) = BadThen(s) BY <1>4, <1>7 DEF BadThen
<1>10. SWSound(t)
  <2>1. ~s.file.active => s.file.failures <= s.bad BY DEF SWSound
  <2> HIDE DEF t
  <2> QED BY <1>4, <1>7, <1>9, <2>1 DEF SWSound
<1> QED BY <1>5, <1>6, <1>8, <1>10

LEMMA SWStep == SWInv /\ SWNext => SWInv'
<1> SUFFICES ASSUME SWInv, SWNext PROVE SWInv' OBVIOUS
<1>a. /\ sw \in SWState /\ sw.file \in SWFile /\ sw.bad \in 0..FailureThreshold /\ sw.slips \in Nat
      /\ sw.slips + 1 \in Nat /\ sw.slips + 1 # 0 /\ sw.last \in {"none", "failure", "recovery"} /\ sw.hasty = FALSE
      /\ sw.provider \in {"fine", "misconfigured", "unreachable"} /\ sw.hour \in {"day", "night"} /\ sw.ran \in BOOLEAN
  BY DEF SWInv, SWSound, SWState
<1>b. /\ sw.file.active \in BOOLEAN /\ sw.file.failures \in 0..FailureThreshold /\ sw.file.age \in 0..StorefrontCooldown
      /\ sw.file.checked \in BOOLEAN /\ sw.file.providerFailure \in BOOLEAN
  BY <1>a DEF SWFile
<1>c. SWSound(sw) BY DEF SWInv
<1>1. CASE StartRun
  <2> DEFINE age == IF sw.file.age < StorefrontCooldown THEN sw.file.age + 1 ELSE sw.file.age
             older == [sw EXCEPT !.file.age = IF @ < StorefrontCooldown THEN @ + 1 ELSE @]
  <2>1. age \in 0..StorefrontCooldown BY <1>b, StorefrontAssumption
  <2>2. /\ older \in SWState /\ older.file.active = sw.file.active /\ older.file.failures = sw.file.failures
        /\ older.file.providerFailure \in BOOLEAN /\ older.file.checked \in BOOLEAN
        /\ older.hasty = FALSE /\ older.bad = sw.bad /\ older.last = sw.last /\ older.slips = sw.slips
    <3>1. older = [sw EXCEPT !.file = [sw.file EXCEPT !.age = age]] BY <1>a DEF SWState, SWFile
    <3>2. [sw.file EXCEPT !.age = age] \in SWFile /\ [sw.file EXCEPT !.age = age].active = sw.file.active
          /\ [sw.file EXCEPT !.age = age].failures = sw.file.failures
      BY <1>a, <2>1 DEF SWFile
    <3>3. \A f \in SWFile : [sw EXCEPT !.file = f] \in SWState /\ [sw EXCEPT !.file = f].file = f
            /\ [sw EXCEPT !.file = f].hasty = sw.hasty /\ [sw EXCEPT !.file = f].bad = sw.bad
            /\ [sw EXCEPT !.file = f].last = sw.last /\ [sw EXCEPT !.file = f].slips = sw.slips
      BY <1>a DEF SWState
    <3>4. \A f \in SWFile : f.providerFailure \in BOOLEAN /\ f.checked \in BOOLEAN BY DEF SWFile
    <3> HIDE DEF age, older
    <3> QED BY <3>1, <3>2, <3>3, <3>4, <1>a
  <2>3. PICK forced \in BOOLEAN :
          sw' = [older EXCEPT !.ran = @ \/ sw.hour = "day",
                                 !.run = [step |-> "probing", verify |-> verify_provider(older, forced), today |-> TRUE,
                                          ok |-> TRUE, providerFailure |-> FALSE, met |-> FALSE]]
    BY <1>1 DEF StartRun
  <2> HIDE DEF older
  <2> DEFINE ran == older.ran \/ sw.hour = "day"
             verify == verify_provider(older, forced)
             run == [step |-> "probing", verify |-> verify, today |-> TRUE, ok |-> TRUE,
                     providerFailure |-> FALSE, met |-> FALSE]
  <2>4. verify \in BOOLEAN BY <2>2 DEF verify_provider
  <2>5. ran \in BOOLEAN OBVIOUS
  <2> HIDE DEF verify, ran
  <2>6. run \in SWProbe /\ run.step = "probing" BY <2>4 DEF SWProbe
  <2>7. sw' = [older EXCEPT !.ran = ran, !.run = run] BY <2>3 DEF ran, verify
  <2> HIDE DEF run
  <2>8. /\ sw' \in SWState /\ sw'.run = run /\ sw'.file = older.file /\ sw'.hasty = FALSE
        /\ sw'.bad = sw.bad /\ sw'.last = sw.last /\ sw'.slips = sw.slips
    BY <2>2, <2>5, <2>6, <2>7 DEF SWState
  <2>9. sw.run.step = "idle" BY <1>1 DEF StartRun
  <2> QED BY <2>2, <2>6, <2>8, <2>9, <1>c DEF SWInv, SWSound
<1>2. CASE runProbe
  <2> DEFINE results == {runCheck(sw, name, sw.run.verify) : name \in CheckNames}
             ok == results = {"ok"}
             refused == "provider failure" \in results
             run == [sw.run EXCEPT !.step = "probed", !.ok = ok, !.providerFailure = refused, !.met = Wrong(sw)]
  <2>1. sw.run.step = "probing" /\ sw.run \in SWProbe BY <1>2, <1>a, RunKinds DEF runProbe
  <2>2. Wrong(sw) \in BOOLEAN BY DEF Wrong
  <2>3. (~Wrong(sw) => ok) /\ ok \in BOOLEAN /\ refused \in BOOLEAN BY <1>a, <2>1, ProbeMet
  <2>4. sw' = [sw EXCEPT !.run.step = "probed", !.run.ok = ok, !.run.providerFailure = refused, !.run.met = Wrong(sw)]
    BY <1>2 DEF runProbe
  <2> HIDE DEF results, ok, refused
  <2>5. sw' = [sw EXCEPT !.run = run] BY <1>a, <2>1, <2>4 DEF SWState, SWProbe
  <2>6. run \in SWProbe /\ run.step = "probed" /\ run.ok = ok /\ run.met = Wrong(sw)
    BY <2>1, <2>2, <2>3 DEF SWProbe
  <2> HIDE DEF run
  <2>7. /\ sw' \in SWState /\ sw'.run = run /\ sw'.file = sw.file /\ sw'.hasty = FALSE
        /\ sw'.bad = sw.bad /\ sw'.last = sw.last /\ sw'.slips = sw.slips
    BY <1>a, <2>5, <2>6 DEF SWState
  <2> QED BY <2>1, <2>3, <2>6, <2>7, <1>c DEF SWInv, SWSound
<1>3. CASE ProbeDies
  <2> DEFINE run == [sw.run EXCEPT !.step = "probed", !.ok = FALSE, !.met = TRUE]
  <2>1. sw.run.step = "probing" /\ sw.run \in SWProbe BY <1>3, <1>a, RunKinds DEF ProbeDies
  <2>5. sw' = [sw EXCEPT !.run = run, !.slips = sw.slips + 1] BY <1>3, <1>a, <2>1 DEF ProbeDies, SWState, SWProbe
  <2>6. run \in SWProbe /\ run.step = "probed" /\ run.met = TRUE BY <2>1 DEF SWProbe
  <2> HIDE DEF run
  <2>7. /\ sw' \in SWState /\ sw'.run = run /\ sw'.file = sw.file /\ sw'.hasty = FALSE
        /\ sw'.bad = sw.bad /\ sw'.last = sw.last /\ sw'.slips = sw.slips + 1
    BY <1>a, <2>5, <2>6 DEF SWState
  <2> QED BY <1>a, <2>1, <2>6, <2>7, <1>c DEF SWInv, SWSound
<1>4. ASSUME sw.run.step = "probed" PROVE SWInv' \/ ~(NothingToAnnounce \/ AlertConfirmed \/ AlertFails \/ AlertUnconfirmed)
  <2> DEFINE c == CurrentState(sw)
  <2>1. /\ c \in SWFile /\ c.active = sw.file.active
        /\ sw.run.ok => c.failures = 0
        /\ ~sw.file.active => c.failures <= BadThen(sw)
    BY <1>4, <1>c, CurrentStateIs
  <2>2. AlertAction(sw) \in {"none", "failure", "recovery"} BY DEF AlertAction
  <2>3. sw.run \in SWProbe /\ sw.run.ok \in BOOLEAN /\ sw.run.met \in BOOLEAN BY <1>4, <1>a, RunKinds DEF SWProbe
  <2>4. AlertAction(sw) = "recovery" => sw.run.ok /\ sw.file.active BY <2>3 DEF AlertAction
  <2>5. /\ AlertAction(sw) = "none" => StateAfterAlert(sw) = c
        /\ AlertAction(sw) = "failure" => StateAfterAlert(sw) = [c EXCEPT !.active = TRUE, !.age = 0]
        /\ AlertAction(sw) = "recovery" => StateAfterAlert(sw) = [c EXCEPT !.active = FALSE]
        /\ AlertAction(sw) = "recovery" => StateAfterFailedAlert(sw) =
             [c EXCEPT !.status = "unhealthy", !.active = TRUE, !.failures = sw.file.failures]
        /\ AlertAction(sw) # "recovery" => StateAfterFailedAlert(sw) = c
    BY DEF StateAfterAlert, StateAfterFailedAlert
  <2> HIDE DEF c
  <2>6. /\ AlertAction(sw) = "failure" => StateAfterAlert(sw) \in SWFile /\ StateAfterAlert(sw).active = TRUE
        /\ AlertAction(sw) = "recovery" => StateAfterAlert(sw) \in SWFile /\ StateAfterAlert(sw).active = FALSE
                                           /\ StateAfterAlert(sw).failures = c.failures
        /\ AlertAction(sw) = "recovery" => StateAfterFailedAlert(sw) \in SWFile /\ StateAfterFailedAlert(sw).active = TRUE
    <3>1. 0 \in 0..StorefrontCooldown BY StorefrontAssumption
    <3> QED BY <2>1, <2>5, <3>1, <1>b DEF SWFile
  <2>7. 0 <= BadThen(sw) BY <2>3, <1>a DEF BadThen
  <2>8. /\ sw.last = "none" => ~sw.file.active
        /\ sw.slips = 0 => (sw.file.active <=> sw.last = "failure")
    BY <1>4, <1>c DEF SWSound
  <2>9. CASE NothingToAnnounce
    <3>1. sw' = Judged(sw, c) BY <2>5, <2>9 DEF NothingToAnnounce
    <3>2. /\ SWSound([Judged(sw, c) EXCEPT !.last = sw.last, !.slips = sw.slips])
          /\ Judged(sw, c) = [Judged(sw, c) EXCEPT !.last = sw.last, !.slips = sw.slips]
      BY <2>1, <2>8, <1>4, <1>c, <1>a, JudgedSound
    <3> QED BY <3>1, <3>2 DEF SWInv
  <2>10. CASE AlertConfirmed
    <3> DEFINE next == StateAfterAlert(sw)
               last == AlertAction(sw)
    <3>1. sw' = [Judged(sw, next) EXCEPT !.last = last] /\ last # "none" BY <2>10 DEF AlertConfirmed
    <3>2. next \in SWFile /\ (~next.active => next.failures <= BadThen(sw)) /\ (next.active <=> last = "failure")
      BY <3>1, <2>1, <2>2, <2>4, <2>6, <2>7
    <3> HIDE DEF next, last
    <3>3. last \in {"none", "failure", "recovery"} BY <2>2 DEF last
    <3>4. /\ SWSound([Judged(sw, next) EXCEPT !.last = last, !.slips = sw.slips])
          /\ Judged(sw, next).slips = sw.slips
      BY <3>1, <3>2, <3>3, <1>4, <1>c, <1>a, JudgedSound
    <3>5. sw' = [Judged(sw, next) EXCEPT !.last = last, !.slips = sw.slips]
      <4> DEFINE j == Judged(sw, next)
      <4>1. j = [j EXCEPT !.last = sw.last, !.slips = sw.slips] BY <3>1, <3>2, <3>3, <1>4, <1>c, <1>a, JudgedSound
      <4> HIDE DEF j
      <4>2. [j EXCEPT !.last = last] = [j EXCEPT !.last = last, !.slips = sw.slips] BY <4>1
      <4> QED BY <4>2, <3>1 DEF j
    <3> QED BY <3>4, <3>5 DEF SWInv
  <2>11. CASE AlertFails
    <3> DEFINE next == StateAfterFailedAlert(sw)
    <3>1. sw' = Judged(sw, next) BY <2>11 DEF AlertFails
    <3>2. next \in SWFile /\ (~next.active => next.failures <= BadThen(sw)) /\ next.active = sw.file.active
      BY <2>1, <2>2, <2>4, <2>5, <2>6, <1>b
    <3> HIDE DEF next
    <3>3. /\ SWSound([Judged(sw, next) EXCEPT !.last = sw.last, !.slips = sw.slips])
          /\ Judged(sw, next) = [Judged(sw, next) EXCEPT !.last = sw.last, !.slips = sw.slips]
      BY <3>2, <2>8, <1>4, <1>c, <1>a, JudgedSound
    <3> QED BY <3>1, <3>3 DEF SWInv
  <2>12. CASE AlertUnconfirmed
    <3> DEFINE next == StateAfterFailedAlert(sw)
               last == AlertAction(sw)
               slips == sw.slips + 1
               j == Judged(sw, next)
    <3>1. sw' = [j EXCEPT !.last = last, !.slips = @ + 1] /\ last # "none" BY <2>12 DEF AlertUnconfirmed
    <3>2. next \in SWFile /\ (~next.active => next.failures <= BadThen(sw)) /\ next.active = sw.file.active
      BY <2>1, <2>2, <2>4, <2>5, <2>6, <1>b
    <3> HIDE DEF next, last
    <3>3. last \in {"none", "failure", "recovery"} BY <2>2 DEF last
    <3>4. j.slips = sw.slips BY <3>2, <2>8, <1>4, <1>c, <1>a, JudgedSound
    <3>5. SWSound([j EXCEPT !.last = last, !.slips = slips])
      BY <3>1, <3>2, <3>3, <1>4, <1>c, <1>a, JudgedSound
    <3> HIDE DEF j
    <3>6. sw' = [j EXCEPT !.last = last, !.slips = slips] BY <3>1, <3>4
    <3> QED BY <3>5, <3>6 DEF SWInv
  <2> QED BY <2>9, <2>10, <2>11, <2>12
<1>5. CASE NothingToAnnounce \/ AlertConfirmed \/ AlertFails \/ AlertUnconfirmed
  <2>1. sw.run.step = "probed" BY <1>5 DEF NothingToAnnounce, AlertConfirmed, AlertFails, AlertUnconfirmed
  <2> QED BY <1>4, <1>5, <2>1
<1>6. CASE write_state
  <2>1. sw.run.step = "judged" /\ sw.run \in SWJudged BY <1>6, <1>a, RunKinds DEF write_state
  <2>2. sw.run.next \in SWFile /\ sw.run.met \in BOOLEAN BY <2>1 DEF SWJudged
  <2>3. BadThen(sw) \in 0..FailureThreshold BY <2>2, <1>a, StorefrontAssumption DEF BadThen
  <2>4. sw' = [sw EXCEPT !.file = sw.run.next, !.run = NotRunning, !.bad = BadThen(sw)]
    BY <1>6 DEF write_state, BadThen
  <2>5. /\ sw' \in SWState /\ sw'.file = sw.run.next /\ sw'.run = NotRunning /\ sw'.bad = BadThen(sw)
        /\ sw'.hasty = FALSE /\ sw'.last = sw.last /\ sw'.slips = sw.slips
    BY <2>2, <2>3, <2>4, <1>a DEF SWState
  <2>6. NotRunning.step = "idle" BY DEF NotRunning
  <2> QED BY <2>1, <2>5, <2>6, <1>c DEF SWInv, SWSound
<1>7. CASE RunKilled
  <2>1. /\ sw' \in SWState /\ sw'.file = sw.file /\ sw'.run = NotRunning /\ sw'.bad = sw.bad
        /\ sw'.hasty = FALSE /\ sw'.last = sw.last /\ sw'.slips = sw.slips + 1
    BY <1>7, <1>a DEF RunKilled, SWState
  <2>2. NotRunning.step = "idle" BY DEF NotRunning
  <2> QED BY <2>1, <2>2, <1>a, <1>c DEF SWInv, SWSound
<1>8. CASE ShopChanges
  <2>1. /\ sw' \in SWState /\ sw'.file = sw.file /\ sw'.run = sw.run /\ sw'.bad = sw.bad
        /\ sw'.hasty = FALSE /\ sw'.last = sw.last /\ sw'.slips = sw.slips /\ sw.run.step \in {"idle", "probing"}
    BY <1>8, <1>a DEF ShopChanges, SWState
  <2> QED BY <2>1, <1>c DEF SWInv, SWSound
<1>9. CASE MorningComes
  <2>1. /\ sw' \in SWState /\ sw'.file = sw.file /\ sw'.run = sw.run /\ sw'.bad = sw.bad
        /\ sw'.hasty = FALSE /\ sw'.last = sw.last /\ sw'.slips = sw.slips
    BY <1>9, <1>a DEF MorningComes, SWState
  <2>2. BadThen(sw') = BadThen(sw) BY <2>1 DEF BadThen
  <2> QED BY <2>1, <2>2, <1>c DEF SWInv, SWSound
<1>10. CASE MidnightPasses
  <2> DEFINE file == [sw.file EXCEPT !.checked = FALSE]
             run == CASE sw.run.step = "idle" -> sw.run
                      [] sw.run.step \in {"probing", "probed"} -> [sw.run EXCEPT !.today = FALSE]
                      [] OTHER -> [sw.run EXCEPT !.next.checked = FALSE]
  <2>1. file \in SWFile /\ file.active = sw.file.active /\ file.failures = sw.file.failures BY <1>a DEF SWFile
  <2>2. /\ run \in {NotRunning} \cup SWProbe \cup SWJudged /\ run.step = sw.run.step
        /\ run.step = "probed" => run.ok = sw.run.ok /\ run.met = sw.run.met
        /\ run.step = "judged" => /\ run.next.active = sw.run.next.active /\ run.next.failures = sw.run.next.failures
                                  /\ run.met = sw.run.met
    <3>1. CASE sw.run.step = "idle" BY <3>1, <1>a, RunKinds
    <3>2. CASE sw.run.step \in {"probing", "probed"}
      <4>1. sw.run \in SWProbe /\ run = [sw.run EXCEPT !.today = FALSE] BY <3>2, <1>a, RunKinds
      <4> HIDE DEF run
      <4> QED BY <4>1, <3>2 DEF SWProbe
    <3>3. CASE sw.run.step = "judged"
      <4>1. sw.run \in SWJudged /\ run = [sw.run EXCEPT !.next.checked = FALSE] BY <3>3, <1>a, RunKinds
      <4>2. sw.run.next \in SWFile BY <4>1 DEF SWJudged
      <4> DEFINE next == [sw.run.next EXCEPT !.checked = FALSE]
      <4>3. next \in SWFile /\ next.active = sw.run.next.active /\ next.failures = sw.run.next.failures BY <4>2 DEF SWFile
      <4>4. run = [sw.run EXCEPT !.next = next] BY <4>1
      <4> HIDE DEF run, next
      <4> QED BY <4>1, <4>3, <4>4, <3>3 DEF SWJudged
    <3> QED BY <3>1, <3>2, <3>3, <1>a, RunKinds
  <2>3. sw' = [sw EXCEPT !.hour = "night", !.file = file, !.run = run]
    BY <1>10, <1>a DEF MidnightPasses, SWState
  <2> HIDE DEF file, run
  <2>4. /\ sw' \in SWState /\ sw'.file = file /\ sw'.run = run /\ sw'.bad = sw.bad
        /\ sw'.hasty = FALSE /\ sw'.last = sw.last /\ sw'.slips = sw.slips
    BY <2>1, <2>2, <2>3, <1>a DEF SWState
  <2>5. run.step = "judged" => BadThen(sw') = BadThen(sw) BY <2>2, <2>4 DEF BadThen
  <2> QED BY <2>1, <2>2, <2>4, <2>5, <1>c DEF SWInv, SWSound
<1> QED BY <1>1, <1>2, <1>3, <1>5, <1>6, <1>7, <1>8, <1>9, <1>10 DEF SWNext, ScriptStep, ClockTurns

LEMMA SWHolds == SWInv => SWTypeOK /\ OutageIsConfirmed /\ AnnouncedAsReceived
<1> SUFFICES ASSUME SWInv PROVE SWTypeOK /\ OutageIsConfirmed /\ AnnouncedAsReceived OBVIOUS
<1>1. sw \in SWState /\ SWSound(sw) BY DEF SWInv, SWSound
<1>2. SWTypeOK BY <1>1, RunKinds DEF SWTypeOK, SWState, SWFile
<1>3. NotRunning.step = "idle" BY DEF NotRunning
<1> QED BY <1>1, <1>2, <1>3 DEF OutageIsConfirmed, AnnouncedAsReceived, SWSound

-----------------------------------------------------------------------------
(* The rotation of the smoke accounts.                                     *)

\* The phases, in their order, and those that follow an error.
PhaseNames ==
    {"login", "adminLogin", "launch", "connect", "enable", "open", "servicesPage", "api",
     "screenOpen", "screenCheck", "adminFixtures", "record", "adminStatus", "summary"}
EndPhases == {"metadata", "recordFailure", "close", "exit"}
\* Where Chrome is not running, and where a GitHub run is already recorded.
QuietPhases == {"login", "adminLogin", "launch", "exit"}
LatePhases == {"adminStatus", "summary"}
StepNames == {"backend", "revision", "runningReport", "viewer", "admin", "node"}

NodeState ==
    [phase : {"none"} \cup PhaseNames \cup EndPhases, cmd : {"none", "navigating", "loading", "sent"},
     tries : {0, 1}, failed : BOOLEAN, passed : SUBSET PhaseNames]
RTState ==
    [step : {"idle", "smoke", "successReport", "exitTrap"} \cup StepNames,
     kind : {"none", "timer", "manual", "github", "githubAdmin"}, node : NodeState,
     chrome : {"running", "hung", "ended"}, code : {0, 1}, failedAt : {"none"} \cup StepNames \cup {"successReport"},
     status : {"never", "running", "success", "failure"}, verdicts : SUBSET {"success", "failure"},
     evidence : {"none", "checked", "end", "crash", "browserDied"}, told : BOOLEAN, mute : BOOLEAN,
     attempts : Nat, cuts : Nat]

\* Every phase before the m-th that this kind of run does not skip has passed.
Cleared(s, m) ==
    \A k \in 1..14 : k < m => Skipped(s, NodePhases[k]) \/ NodePhases[k] \in s.node.passed
\* How far Node is.
NodeSound(s) ==
    /\ s.node = NotStarted \/ s.node.phase # "none"
    /\ s.node.cmd \in {"navigating", "loading"} => s.node.phase \in NavigationPhases
    /\ s.node.cmd = "sent" => s.node.phase \in CommandPhases
    /\ s.node.phase \in {"metadata", "recordFailure"} => s.node.failed
    /\ ~s.node.failed => /\ \A m \in 1..14 : s.node.phase = NodePhases[m] => Cleared(s, m)
                         /\ s.node.phase \in {"close", "exit"} => Cleared(s, 15)
    /\ s.node.phase \in QuietPhases => s.chrome = "ended"
    /\ s.node.phase = "record" => ForGithub(s)
\* What the server has recorded of a GitHub run.
VerdictSound(s) ==
    /\ s.verdicts # {} => ForGithub(s)
    /\ s.node.phase \in (PhaseNames \ LatePhases) \cup {"metadata", "recordFailure"} => s.verdicts = {}
    /\ s.node.phase \in LatePhases => "failure" \notin s.verdicts
    /\ "failure" \in s.verdicts =>
         /\ s.verdicts = {"failure"}
         /\ s.node.phase \in {"close", "exit"} => s.node.failed
         /\ s.node = NotStarted => s.code = 1
\* How the script and Node go together.
StepSound(s) ==
    /\ s.node # NotStarted => s.step = "smoke"
    /\ ForGithub(s) => s.step \in {"idle", "smoke"}
    /\ s.step \in StepNames => s.evidence = "none"
    /\ s.step = "successReport" => s.evidence \in {"checked", "browserDied"}
    /\ s.node = NotStarted /\ s.evidence # "crash" => s.chrome = "ended"
RTSound(s) == s \in RTState /\ NodeSound(s) /\ VerdictSound(s) /\ StepSound(s)
RTInv == RTSound(rt)

\* The phases by their positions.
LEMMA PhasePositions ==
  /\ Len(NodePhases) = 14
  /\ \A k \in 1..14 : NodePhases[k] \in PhaseNames
  /\ \A j, k \in 1..14 : NodePhases[j] = NodePhases[k] => j = k
  /\ \A k \in 1..14 : NodePhases[k] \in QuietPhases <=> k <= 3
  /\ \A k \in 1..14 : NodePhases[k] \in LatePhases <=> k > 12
  /\ \A p \in PhaseNames : \E k \in 1..14 : NodePhases[k] = p
<1>1. /\ NodePhases[1] = "login" /\ NodePhases[2] = "adminLogin" /\ NodePhases[3] = "launch"
      /\ NodePhases[4] = "connect" /\ NodePhases[5] = "enable" /\ NodePhases[6] = "open"
      /\ NodePhases[7] = "servicesPage" /\ NodePhases[8] = "api" /\ NodePhases[9] = "screenOpen"
      /\ NodePhases[10] = "screenCheck" /\ NodePhases[11] = "adminFixtures" /\ NodePhases[12] = "record"
      /\ NodePhases[13] = "adminStatus" /\ NodePhases[14] = "summary"
  BY DEF NodePhases
<1>2. Len(NodePhases) = 14 BY DEF NodePhases
<1>3. ASSUME NEW k \in 1..14
      PROVE  /\ NodePhases[k] \in PhaseNames
             /\ NodePhases[k] \in QuietPhases <=> k <= 3
             /\ NodePhases[k] \in LatePhases <=> k > 12
  <2>1. CASE k \in 1..3
    <3>1. k = 1 \/ k = 2 \/ k = 3 BY <2>1
    <3> QED BY <1>1, <3>1 DEF PhaseNames, QuietPhases, LatePhases
  <2>2. CASE k \in 4..8
    <3>1. k = 4 \/ k = 5 \/ k = 6 \/ k = 7 \/ k = 8 BY <2>2
    <3> QED BY <1>1, <3>1 DEF PhaseNames, QuietPhases, LatePhases
  <2>3. CASE k \in 9..12
    <3>1. k = 9 \/ k = 10 \/ k = 11 \/ k = 12 BY <2>3
    <3> QED BY <1>1, <3>1 DEF PhaseNames, QuietPhases, LatePhases
  <2>4. CASE k \in 13..14
    <3>1. k = 13 \/ k = 14 BY <2>4
    <3> QED BY <1>1, <3>1 DEF PhaseNames, QuietPhases, LatePhases
  <2> QED BY <2>1, <2>2, <2>3, <2>4
<1>4. ASSUME NEW p \in PhaseNames PROVE \E k \in 1..14 : NodePhases[k] = p
  <2>1. CASE p \in {"login", "adminLogin", "launch", "connect", "enable"} BY <1>1, <2>1
  <2>2. CASE p \in {"open", "servicesPage", "api", "screenOpen", "screenCheck"} BY <1>1, <2>2
  <2>3. CASE p \in {"adminFixtures", "record", "adminStatus", "summary"} BY <1>1, <2>3
  <2> QED BY <2>1, <2>2, <2>3 DEF PhaseNames
\* The position of each phase, as a function of its name.
<1> DEFINE At(p) == CASE p = "login" -> 1 [] p = "adminLogin" -> 2 [] p = "launch" -> 3 [] p = "connect" -> 4
                      [] p = "enable" -> 5 [] p = "open" -> 6 [] p = "servicesPage" -> 7 [] p = "api" -> 8
                      [] p = "screenOpen" -> 9 [] p = "screenCheck" -> 10 [] p = "adminFixtures" -> 11
                      [] p = "record" -> 12 [] p = "adminStatus" -> 13 [] OTHER -> 14
<1>5. ASSUME NEW k \in 1..14 PROVE At(NodePhases[k]) = k
  <2>1. CASE k \in 1..5
    <3>1. k = 1 \/ k = 2 \/ k = 3 \/ k = 4 \/ k = 5 BY <2>1
    <3> QED BY <1>1, <3>1
  <2>2. CASE k \in 6..10
    <3>1. k = 6 \/ k = 7 \/ k = 8 \/ k = 9 \/ k = 10 BY <2>2
    <3> QED BY <1>1, <3>1
  <2>3. CASE k \in 11..14
    <3>1. k = 11 \/ k = 12 \/ k = 13 \/ k = 14 BY <2>3
    <3> QED BY <1>1, <3>1
  <2> QED BY <2>1, <2>2, <2>3
<1>6. ASSUME NEW j \in 1..14, NEW k \in 1..14, NodePhases[j] = NodePhases[k] PROVE j = k
  <2>1. At(NodePhases[j]) = At(NodePhases[k]) BY <1>6
  <2> HIDE DEF At
  <2> QED BY <1>5, <2>1
<1> QED BY <1>2, <1>3, <1>4, <1>6

\* The first phase after the j-th that is not skipped.
LEMMA NextPhaseIs ==
  ASSUME NEW s, NEW j \in 1..14
  PROVE  LET n == NextPhase(s, NodePhases[j])
         IN  \/ n = "close" /\ \A k \in (j + 1)..14 : Skipped(s, NodePhases[k])
             \/ \E m \in (j + 1)..14 : n = NodePhases[m] /\ ~Skipped(s, n) /\ \A k \in (j + 1)..(m - 1) : Skipped(s, NodePhases[k])
<1> DEFINE later == {k \in (j + 1)..14 : ~Skipped(s, NodePhases[k])}
           first == CHOOSE k \in later : \A m \in later : k <= m
<1>1. (CHOOSE k \in 1..14 : NodePhases[k] = NodePhases[j]) = j
  <2> DEFINE c == CHOOSE k \in 1..14 : NodePhases[k] = NodePhases[j]
  <2>1. c \in 1..14 /\ NodePhases[c] = NodePhases[j] OBVIOUS
  <2> HIDE DEF c
  <2>2. c = j BY <2>1, PhasePositions
  <2> QED BY <2>2 DEF c
<1>2. NextPhase(s, NodePhases[j]) = IF later = {} THEN "close" ELSE NodePhases[first]
  <2> DEFINE i == CHOOSE k \in 1..Len(NodePhases) : NodePhases[k] = NodePhases[j]
             after == {k \in (i + 1)..Len(NodePhases) : ~Skipped(s, NodePhases[k])}
  <2>1. NextPhase(s, NodePhases[j])
        = IF after = {} THEN "close" ELSE NodePhases[CHOOSE k \in after : \A m \in after : k <= m]
    BY Zenon DEF NextPhase, PhaseAfter
  <2>2. i = j
    <3>1. Len(NodePhases) = 14 BY PhasePositions
    <3> QED BY <1>1, <3>1
  <2>3. after = later
    <3>1. Len(NodePhases) = 14 BY PhasePositions
    <3> HIDE DEF i
    <3> QED BY <2>2, <3>1
  <2> HIDE DEF after, later, i
  <2> QED BY <2>1, <2>3
<1>3. CASE later = {} BY <1>2, <1>3
<1>4. CASE later # {}
  <2> DEFINE S == {15 - k : k \in later}
  <2>1. S \in SUBSET Nat /\ S \subseteq 0..15 /\ S # {} BY <1>4
  <2>2. IsFiniteSet(S)
    <3> HIDE DEF S, later, first
    <3>0. 0 \in Int /\ 15 \in Int OBVIOUS
    <3>1. IsFiniteSet(0..15) BY <3>0, FS_Interval, Zenon
    <3> QED BY <2>1, <3>1, FS_Subset
  <2> HIDE DEF S
  <2>3. PICK r \in S : \A t \in S : t <= r BY <2>1, <2>2, LargestOfFinite
  <2>4. PICK l \in later : r = 15 - l BY DEF S
  <2>5. ASSUME NEW m \in later PROVE l <= m
    <3>1. 15 - m \in S BY DEF S
    <3>2. 15 - m <= 15 - l BY <2>3, <2>4, <3>1
    <3> QED BY <3>2
  <2>6. first \in later /\ \A m \in later : first <= m
    <3> HIDE DEF later
    <3> QED BY <2>5
  <2>7. first \in (j + 1)..14 /\ ~Skipped(s, NodePhases[first])
    <3> HIDE DEF first
    <3> QED BY <2>6
  <2>8. ASSUME NEW k \in (j + 1)..(first - 1) PROVE Skipped(s, NodePhases[k])
    <3> HIDE DEF first
    <3>1. k \in (j + 1)..14 /\ ~(first <= k) BY <2>7
    <3> QED BY <2>6, <3>1
  <2> HIDE DEF first
  <2> QED BY <1>2, <1>4, <2>7, <2>8
<1> QED BY <1>3, <1>4

\* A phase that passed.
LEMMA PassedKeeps ==
  ASSUME NEW s \in RTState, NodeSound(s), NEW j \in 1..14, s.node.phase = NodePhases[j]
  PROVE  LET n == Passed(s).node
         IN  /\ Passed(s) = [s EXCEPT !.node = n] /\ n \in NodeState /\ n.cmd = "none"
             /\ n.phase = "close" \/ \E m \in (j + 1)..14 : n.phase = NodePhases[m]
             /\ NodeSound(Passed(s))
<1> DEFINE p == NextPhase(s, NodePhases[j])
           n == [s.node EXCEPT !.passed = s.node.passed \cup {s.node.phase}, !.phase = p, !.cmd = "none", !.tries = 0]
<1>1. Passed(s) = [s EXCEPT !.node = n] BY DEF Passed
<1>2. s.node \in NodeState /\ s.node.passed \in SUBSET PhaseNames /\ NodePhases[j] \in PhaseNames
  BY PhasePositions DEF RTState, NodeState
<1>3. \/ p = "close" /\ \A k \in (j + 1)..14 : Skipped(s, NodePhases[k])
      \/ \E m \in (j + 1)..14 : p = NodePhases[m] /\ ~Skipped(s, p) /\ \A k \in (j + 1)..(m - 1) : Skipped(s, NodePhases[k])
  BY NextPhaseIs
<1> HIDE DEF p
<1>4. p \in PhaseNames \cup {"close"} BY <1>3, PhasePositions
<1>5. /\ n \in NodeState /\ n.cmd = "none" /\ n.phase = p /\ n.failed = s.node.failed
      /\ n.passed = s.node.passed \cup {NodePhases[j]}
  BY <1>2, <1>4 DEF NodeState, EndPhases
<1> HIDE DEF n
<1>6. Passed(s).node = n /\ Passed(s).chrome = s.chrome /\ Passed(s).kind = s.kind BY <1>1 DEF RTState
<1>7. p # "none" /\ p \notin {"metadata", "recordFailure"} BY <1>4 DEF PhaseNames
<1>8. \A q : Skipped(Passed(s), q) <=> Skipped(s, q) BY <1>6 DEF Skipped, ForGithub
<1>9. ~s.node.failed => \A k \in 1..14 : k <= j => Skipped(s, NodePhases[k]) \/ NodePhases[k] \in n.passed
  <2> SUFFICES ASSUME ~s.node.failed, NEW k \in 1..14, k <= j
               PROVE  Skipped(s, NodePhases[k]) \/ NodePhases[k] \in n.passed
    OBVIOUS
  <2>1. CASE k = j BY <1>5, <2>1
  <2>2. CASE k < j BY <1>5, <2>2 DEF NodeSound, Cleared
  <2> QED BY <2>1, <2>2
<1>10. ~n.failed => /\ \A m \in 1..14 : p = NodePhases[m] => Cleared(Passed(s), m)
                    /\ p \in {"close", "exit"} => Cleared(Passed(s), 15)
  <2> SUFFICES ASSUME ~n.failed
               PROVE  /\ \A m \in 1..14 : p = NodePhases[m] => Cleared(Passed(s), m)
                      /\ p \in {"close", "exit"} => Cleared(Passed(s), 15)
    OBVIOUS
  <2>1. \A k \in 1..14 : k <= j => Skipped(s, NodePhases[k]) \/ NodePhases[k] \in n.passed BY <1>5, <1>9
  <2>2. CASE p = "close" /\ \A k \in (j + 1)..14 : Skipped(s, NodePhases[k])
    <3>1. \A m \in 1..14 : p # NodePhases[m] BY <2>2, PhasePositions DEF PhaseNames
    <3>2. \A k \in 1..14 : Skipped(s, NodePhases[k]) \/ NodePhases[k] \in n.passed
      <4> SUFFICES ASSUME NEW k \in 1..14 PROVE Skipped(s, NodePhases[k]) \/ NodePhases[k] \in n.passed OBVIOUS
      <4>1. k <= j \/ k \in (j + 1)..14 OBVIOUS
      <4> QED BY <2>1, <2>2, <4>1
    <3> QED BY <1>6, <1>8, <3>1, <3>2 DEF Cleared
  <2>3. ASSUME NEW m \in (j + 1)..14, p = NodePhases[m], \A k \in (j + 1)..(m - 1) : Skipped(s, NodePhases[k])
        PROVE  /\ \A i \in 1..14 : p = NodePhases[i] => Cleared(Passed(s), i)
               /\ p \in {"close", "exit"} => Cleared(Passed(s), 15)
    <3>1. m \in 1..14 /\ \A i \in 1..14 : p = NodePhases[i] => i = m BY <2>3, PhasePositions
    <3>2. p \notin {"close", "exit"} BY <2>3, <3>1, PhasePositions DEF PhaseNames
    <3>3. ASSUME NEW k \in 1..14, k < m PROVE Skipped(s, NodePhases[k]) \/ NodePhases[k] \in n.passed
      <4>1. k <= j \/ k \in (j + 1)..(m - 1) BY <3>1, <3>3
      <4> QED BY <2>1, <2>3, <4>1
    <3>4. Cleared(Passed(s), m) BY <1>6, <1>8, <3>3 DEF Cleared
    <3> QED BY <3>1, <3>2, <3>4
  <2> QED BY <1>3, <2>2, <2>3
<1>11. p \in QuietPhases => s.chrome = "ended"
  <2> SUFFICES ASSUME p \in QuietPhases PROVE s.chrome = "ended" OBVIOUS
  <2>1. PICK m \in (j + 1)..14 : p = NodePhases[m] BY <1>3 DEF QuietPhases
  <2>2. m <= 3 BY <2>1, PhasePositions
  <2>3. NodePhases[j] \in QuietPhases BY <2>2, PhasePositions
  <2> QED BY <2>3 DEF NodeSound
<1>12. NodeSound(Passed(s))
  <2>1. p = "record" => ForGithub(s) BY <1>3 DEF Skipped
  <2>2. ForGithub(Passed(s)) <=> ForGithub(s) BY <1>6 DEF ForGithub
  <2> QED BY <1>5, <1>6, <1>7, <1>10, <1>11, <2>1, <2>2 DEF NodeSound
<1>13. p = "close" \/ \E m \in (j + 1)..14 : p = NodePhases[m] BY <1>3
<1> QED BY <1>1, <1>5, <1>6, <1>12, <1>13

\* What passing a phase leaves of the verdicts and the step.
LEMMA PassedSound ==
  ASSUME NEW s \in RTState, NodeSound(s), NEW j \in 1..14, s.node.phase = NodePhases[j], StepSound(s),
         s.verdicts # {} => ForGithub(s), "failure" \notin s.verdicts, j < 12 => s.verdicts = {}
  PROVE  RTSound(Passed(s)) /\ (j >= 3 => Passed(s).node.phase \notin QuietPhases)
<1> DEFINE t == Passed(s)
           n == Passed(s).node
<1>1. /\ t = [s EXCEPT !.node = n] /\ n \in NodeState /\ n.cmd = "none"
      /\ n.phase = "close" \/ \E m \in (j + 1)..14 : n.phase = NodePhases[m]
      /\ NodeSound(t)
  BY PassedKeeps
<1> HIDE DEF t, n
<1>2. /\ t \in RTState /\ t.node = n /\ t.verdicts = s.verdicts /\ t.kind = s.kind /\ t.step = s.step
      /\ t.chrome = s.chrome /\ t.evidence = s.evidence /\ t.code = s.code
  BY <1>1 DEF RTState
<1>3. n.phase \in PhaseNames \cup {"close"} BY <1>1, PhasePositions
<1>4. n # NotStarted /\ s.node # NotStarted
  <2>1. NotStarted.phase = "none" BY DEF NotStarted
  <2>2. s.node.phase \in PhaseNames BY PhasePositions
  <2> QED BY <1>3, <2>1, <2>2 DEF PhaseNames
<1>5. n.phase \in PhaseNames \ LatePhases => s.verdicts = {}
  <2> SUFFICES ASSUME n.phase \in PhaseNames \ LatePhases PROVE s.verdicts = {} OBVIOUS
  <2>1. PICK m \in (j + 1)..14 : n.phase = NodePhases[m] BY <1>1 DEF PhaseNames
  <2>2. m <= 12 BY <2>1, PhasePositions
  <2> QED BY <2>2
<1>6. VerdictSound(t)
  <2>1. n.phase \notin {"metadata", "recordFailure"} BY <1>3 DEF PhaseNames
  <2>2. ForGithub(t) <=> ForGithub(s) BY <1>2 DEF ForGithub
  <2> QED BY <1>2, <1>5, <2>1, <2>2 DEF VerdictSound
<1>7. StepSound(t) BY <1>2, <1>4 DEF StepSound, ForGithub
<1>8. j >= 3 => n.phase \notin QuietPhases
  <2> SUFFICES ASSUME j >= 3, n.phase \in QuietPhases PROVE FALSE OBVIOUS
  <2>1. PICK m \in (j + 1)..14 : n.phase = NodePhases[m] BY <1>1 DEF QuietPhases
  <2> QED BY <2>1, PhasePositions
<1> QED BY <1>1, <1>2, <1>6, <1>7, <1>8 DEF RTSound, t, n

\* An error that is thrown.
LEMMA ThrowSound ==
  ASSUME NEW s \in RTState, NodeSound(s), s.node.phase \in PhaseNames, StepSound(s),
         s.verdicts # {} => ForGithub(s), "failure" \notin s.verdicts,
         s.node.phase \in ScreenPhases => s.verdicts = {}
  PROVE  RTSound(Throw(s)) /\ Throw(s).node.phase \in {"exit", "metadata", "close"}
<1> DEFINE p == PhaseAfterError(s.node.phase)
           n == [s.node EXCEPT !.failed = TRUE, !.cmd = "none", !.tries = 0, !.phase = p]
           t == Throw(s)
<1>1. t = [s EXCEPT !.node = n] BY Zenon DEF Throw
<1>2. /\ p \in {"exit", "metadata", "close"}
      /\ p = "exit" => s.node.phase \in QuietPhases
      /\ p = "metadata" => s.node.phase \in ScreenPhases
  BY DEF PhaseAfterError, QuietPhases, ScreenPhases, PhaseNames
<1> HIDE DEF p, t
<1>3. n \in NodeState /\ n.cmd = "none" /\ n.phase = p /\ n.failed
  <2>1. s.node \in NodeState /\ p \in EndPhases BY <1>2 DEF RTState, EndPhases
  <2> QED BY <2>1 DEF NodeState
<1> HIDE DEF n
<1>4. /\ t \in RTState /\ t.node = n /\ t.verdicts = s.verdicts /\ t.kind = s.kind /\ t.step = s.step
      /\ t.chrome = s.chrome /\ t.evidence = s.evidence /\ t.code = s.code
  BY <1>1, <1>3 DEF RTState
<1>5. n # NotStarted /\ s.node # NotStarted
  <2>1. NotStarted.phase = "none" BY DEF NotStarted
  <2> QED BY <1>2, <1>3, <2>1 DEF PhaseNames
<1>6. s.chrome = "ended" \/ p # "exit" BY <1>2 DEF NodeSound
<1>7. NodeSound(t) BY <1>2, <1>3, <1>4, <1>6 DEF NodeSound, QuietPhases
<1>8. VerdictSound(t)
  <2>1. p \notin PhaseNames /\ p \notin LatePhases /\ p # "recordFailure" BY <1>2 DEF PhaseNames, LatePhases
  <2>2. p = "metadata" => s.verdicts = {} BY <1>2
  <2>3. ForGithub(t) <=> ForGithub(s) BY <1>4 DEF ForGithub
  <2> QED BY <1>3, <1>4, <1>5, <2>1, <2>2, <2>3 DEF VerdictSound
<1>9. StepSound(t) BY <1>4, <1>5 DEF StepSound, ForGithub
<1> QED BY <1>2, <1>3, <1>4, <1>7, <1>8, <1>9 DEF RTSound, t

\* Node ends: by an unanswered navigation, without Chrome, or by itself.
LEMMA ExitedSound ==
  ASSUME NEW s, RTSound(s), s.node # NotStarted, NEW code, NEW how,
         \/ how = "crash" /\ code = 1
         \/ how = "browserDied" /\ code = 0 /\ s.node.cmd = "sent" /\ s.chrome = "ended"
         \/ how = "end" /\ s.node.phase = "exit" /\ code = IF s.node.failed THEN 1 ELSE 0
  PROVE  RTSound(Exited(s, code, how))
<1> DEFINE checked == (Checks \cup (IF Skipped(s, "adminLogin") THEN {} ELSE AdminChecks)) \subseteq s.node.passed
           evidence == IF how = "end" /\ checked THEN "checked" ELSE how
           step == IF ForGithub(s) THEN "idle" ELSE IF code = 0 THEN "successReport" ELSE "exitTrap"
           t == Exited(s, code, how)
<1>1. t = [s EXCEPT !.node = NotStarted, !.code = code, !.evidence = evidence, !.step = step]
  BY Zenon DEF Exited
<1>2. evidence \in {"checked", "end", "crash", "browserDied"} /\ step \in {"idle", "successReport", "exitTrap"}
      /\ code \in {0, 1}
  OBVIOUS
<1>3. evidence = "crash" \/ s.chrome = "ended" BY DEF RTSound, NodeSound, QuietPhases
<1>4. step = "successReport" => evidence \in {"checked", "browserDied"}
  <2> SUFFICES ASSUME code = 0, how = "end" PROVE checked OBVIOUS
  <2>1. ~s.node.failed /\ s.node.phase = "exit" OBVIOUS
  <2>2. \A k \in 1..14 : Skipped(s, NodePhases[k]) \/ NodePhases[k] \in s.node.passed
    BY <2>1 DEF RTSound, NodeSound, Cleared
  <2>3. \A q \in PhaseNames : Skipped(s, q) \/ q \in s.node.passed BY <2>2, PhasePositions
  <2>4. ASSUME NEW q \in Checks PROVE q \in PhaseNames /\ ~Skipped(s, q)
    BY <2>4 DEF Checks, ScreenPhases, PhaseNames, Skipped
  <2>5. ASSUME NEW q \in AdminChecks, ~Skipped(s, "adminLogin") PROVE q \in PhaseNames /\ ~Skipped(s, q)
    BY <2>5 DEF AdminChecks, PhaseNames, Skipped, ForGithub
  <2> QED BY <2>3, <2>4, <2>5
<1>5. "failure" \in s.verdicts => code = 1
  <2> SUFFICES ASSUME "failure" \in s.verdicts PROVE code = 1 OBVIOUS
  <2>1. CASE s.node.cmd = "sent"
    <3>1. s.node.phase \in (PhaseNames \ LatePhases) \cup {"metadata"}
      BY <2>1 DEF RTSound, NodeSound, CommandPhases, PhaseNames, LatePhases
    <3>2. s.verdicts = {} BY <3>1 DEF RTSound, VerdictSound
    <3> QED BY <3>2
  <2>2. CASE s.node.phase = "exit" /\ code = IF s.node.failed THEN 1 ELSE 0
    BY <2>2 DEF RTSound, VerdictSound
  <2> QED BY <2>1, <2>2
<1>6. /\ NotStarted \in NodeState /\ NotStarted.phase = "none" /\ NotStarted.cmd = "none" /\ ~NotStarted.failed
  BY DEF NotStarted, NodeState
<1> HIDE DEF t, evidence, step
<1>7. /\ t \in RTState /\ t.node = NotStarted /\ t.verdicts = s.verdicts /\ t.kind = s.kind /\ t.step = step
      /\ t.chrome = s.chrome /\ t.evidence = evidence /\ t.code = code
  <2>1. s \in RTState /\ NotStarted \in NodeState BY <1>6 DEF RTSound
  <2> QED BY <1>1, <1>2, <2>1 DEF RTState
<1>8. NodeSound(t)
  <2>1. \A m \in 1..14 : NodePhases[m] # "none" BY PhasePositions DEF PhaseNames
  <2> QED BY <1>6, <1>7, <2>1 DEF NodeSound, QuietPhases
<1>9. VerdictSound(t)
  <2>1. ForGithub(t) <=> ForGithub(s) BY <1>7 DEF ForGithub
  <2> QED BY <1>5, <1>6, <1>7, <2>1 DEF VerdictSound, RTSound, PhaseNames, LatePhases
<1>10. StepSound(t)
  <2>1. ForGithub(t) => step = "idle" BY <1>7 DEF ForGithub, step
  <2>2. step \notin StepNames BY <1>2 DEF StepNames
  <2> QED BY <1>3, <1>4, <1>7, <2>1, <2>2 DEF StepSound
<1> QED BY <1>7, <1>8, <1>9, <1>10 DEF RTSound, t

LEMMA RTInitially == RTMounted => RTInv
<1> SUFFICES ASSUME RTMounted PROVE RTInv OBVIOUS
<1>1. /\ NotStarted \in NodeState /\ NotStarted.phase = "none" /\ NotStarted.cmd = "none" /\ ~NotStarted.failed
  BY DEF NotStarted, NodeState
<1>2. /\ rt \in RTState /\ rt.node = NotStarted /\ rt.verdicts = {} /\ rt.step = "idle" /\ rt.chrome = "ended"
  BY <1>1 DEF RTMounted, RTState
<1>3. \A m \in 1..14 : NodePhases[m] # "none" BY PhasePositions DEF PhaseNames
<1>4. NodeSound(rt) BY <1>1, <1>2, <1>3 DEF NodeSound, QuietPhases
<1>5. VerdictSound(rt) /\ StepSound(rt) BY <1>2 DEF VerdictSound, StepSound, StepNames
<1> QED BY <1>2, <1>4, <1>5 DEF RTInv, RTSound

\* The command of a phase, and Chrome, change while the phase is the same.
LEMMA SamePhase ==
  ASSUME NEW s, RTSound(s), NEW t \in RTState, s.node.phase # "none",
         \A f \in {"phase", "failed", "passed"} : t.node[f] = s.node[f],
         t.node.cmd = "none" \/ t.node.cmd = s.node.cmd \/ (t.node.cmd \in {"navigating", "loading"} /\ s.node.phase \in NavigationPhases)
           \/ (t.node.cmd = "sent" /\ s.node.phase \in CommandPhases),
         t.chrome = s.chrome \/ t.chrome = "ended" \/ s.node.phase \notin QuietPhases,
         t.step = s.step, t.kind = s.kind, t.code = s.code, t.verdicts = s.verdicts, t.evidence = s.evidence
  PROVE  RTSound(t)
<1>1. /\ t.node.phase = s.node.phase /\ t.node.failed = s.node.failed /\ t.node.passed = s.node.passed
  OBVIOUS
<1>2. t.node # NotStarted /\ s.node # NotStarted BY <1>1 DEF NotStarted
<1>3. \A m : Cleared(s, m) <=> Cleared(t, m) BY <1>1 DEF Cleared, Skipped, ForGithub
<1>4. NodeSound(t) BY <1>1, <1>3 DEF RTSound, NodeSound, ForGithub
<1>5. VerdictSound(t)
  <2>1. ForGithub(t) <=> ForGithub(s) BY DEF ForGithub
  <2> QED BY <1>1, <1>2, <2>1 DEF RTSound, VerdictSound
<1>6. StepSound(t) BY <1>2 DEF RTSound, StepSound, ForGithub
<1> QED BY <1>4, <1>5, <1>6 DEF RTSound

\* Node ended, the script goes on.
LEMMA NodeIdle ==
  ASSUME NEW s, NEW t \in RTState, t.node = NotStarted, t.chrome = "ended" \/ t.evidence = "crash",
         t.verdicts # {} => ForGithub(t), "failure" \in t.verdicts => t.verdicts = {"failure"} /\ t.code = 1,
         StepSound(t)
  PROVE  RTSound(t)
<1>1. /\ NotStarted.phase = "none" /\ NotStarted.cmd = "none" /\ ~NotStarted.failed BY DEF NotStarted
<1>2. \A m \in 1..14 : NodePhases[m] # "none" BY PhasePositions DEF PhaseNames
<1>3. NodeSound(t) BY <1>1, <1>2 DEF NodeSound, QuietPhases
<1>4. VerdictSound(t) BY <1>1 DEF VerdictSound, PhaseNames, LatePhases
<1> QED BY <1>3, <1>4 DEF RTSound

LEMMA NodeBegins ==
  ASSUME NEW s \in RTState, s.chrome = "ended", s.verdicts = {}, s.evidence = "none"
  PROVE  RTSound(NodeStarted(s))
<1> DEFINE n == [NotStarted EXCEPT !.phase = "login"]
           t == NodeStarted(s)
<1>1. t = [s EXCEPT !.step = "smoke", !.node = n] BY DEF NodeStarted
<1>2. n \in NodeState /\ n.phase = "login" /\ n.cmd = "none" BY DEF NotStarted, NodeState, PhaseNames
<1> HIDE DEF n, t
<1>3. t \in RTState /\ t.node = n /\ t.step = "smoke" /\ t.chrome = "ended" /\ t.verdicts = {} /\ t.evidence = "none"
  BY <1>1, <1>2 DEF RTState
<1>4. \A m \in 1..14 : NodePhases[m] = "login" => m = 1
  <2>1. NodePhases[1] = "login" BY DEF NodePhases
  <2> QED BY <2>1, PhasePositions
<1>5. Cleared(t, 1) BY DEF Cleared
<1>6. NodeSound(t) BY <1>2, <1>3, <1>4, <1>5 DEF NodeSound
<1>7. n # NotStarted BY <1>2 DEF NotStarted
<1>8. VerdictSound(t) /\ StepSound(t) BY <1>3, <1>7 DEF VerdictSound, StepSound, StepNames
<1> QED BY <1>3, <1>6, <1>8 DEF RTSound, t

\* The values of a verdict that a phase may find, by the phase.
LEMMA VerdictsBefore ==
  ASSUME NEW s, RTSound(s), NEW j \in 1..14, s.node.phase = NodePhases[j]
  PROVE  /\ s.verdicts # {} => ForGithub(s)
         /\ "failure" \notin s.verdicts
         /\ j <= 12 => s.verdicts = {}
         /\ s.node.phase \in ScreenPhases => s.verdicts = {}
         /\ s.node.phase \in PhaseNames
<1>1. s.node.phase \in PhaseNames /\ (s.node.phase \in LatePhases <=> j > 12) BY PhasePositions
<1>2. s.node.phase \in ScreenPhases => s.node.phase \notin LatePhases BY DEF ScreenPhases, LatePhases
<1> QED BY <1>1, <1>2 DEF RTSound, VerdictSound

\* A phase passes or throws.
LEMMA PassOrThrow ==
  ASSUME NEW s, RTSound(s), s.node.phase \in PhaseNames
  PROVE  /\ s.node.phase # "record" => RTSound(Passed(s))
         /\ RTSound(Throw(s))
         /\ s.node.phase \notin {"login", "adminLogin", "record"} => Passed(s).node.phase \notin QuietPhases
<1>1. PICK j \in 1..14 : s.node.phase = NodePhases[j] BY PhasePositions
<1>2. /\ NodePhases[12] = "record" /\ NodePhases[1] = "login" /\ NodePhases[2] = "adminLogin" BY DEF NodePhases
<1>3. s.node.phase # "record" => j # 12 BY <1>1, <1>2
<1>4. s.node.phase \notin {"login", "adminLogin"} => j # 1 /\ j # 2 BY <1>1, <1>2
<1>5. s \in RTState /\ NodeSound(s) /\ StepSound(s) BY DEF RTSound
<1>6. RTSound(Throw(s)) BY <1>1, <1>5, VerdictsBefore, ThrowSound
<1>7. s.node.phase # "record" => RTSound(Passed(s)) /\ (j >= 3 => Passed(s).node.phase \notin QuietPhases)
  BY <1>1, <1>3, <1>5, VerdictsBefore, PassedSound
<1> QED BY <1>4, <1>6, <1>7

\* The steps of Node.
LEMMA NodeStepKeeps == RTInv /\ NodeStep => RTInv'
<1> SUFFICES ASSUME RTInv, NodeStep PROVE RTInv' OBVIOUS
<1>a. RTSound(rt) /\ rt \in RTState /\ NodeSound(rt) /\ VerdictSound(rt) /\ StepSound(rt) BY DEF RTInv, RTSound
<1>b. rt.node \in NodeState /\ rt.node.cmd \in {"none", "navigating", "loading", "sent"} BY <1>a DEF RTState, NodeState
<1>c. NavigationPhases \subseteq PhaseNames /\ CommandPhases \subseteq PhaseNames \cup {"metadata"}
  BY DEF NavigationPhases, CommandPhases, PhaseNames
<1>d. NotStarted.phase = "none" /\ NotStarted.cmd = "none" BY DEF NotStarted
<1>1. CASE SignIn
  <2>1. rt.node.phase \in PhaseNames /\ rt.node.phase # "record" /\ (rt' = Passed(rt) \/ rt' = Throw(rt))
    BY <1>1 DEF SignIn, PhaseNames
  <2> QED BY <1>a, <2>1, PassOrThrow DEF RTInv
<1>2. CASE assertSmokeAdminReadOnly
  <2>1. rt.node.phase \in PhaseNames /\ rt.node.phase # "record" /\ (rt' = Passed(rt) \/ rt' = Throw(rt))
    BY <1>2 DEF assertSmokeAdminReadOnly, PhaseNames
  <2> QED BY <1>a, <2>1, PassOrThrow DEF RTInv
<1>3. CASE launchSmokeChrome
  <2>1. rt.node.phase = "launch" /\ "launch" \in PhaseNames BY <1>3 DEF launchSmokeChrome, PhaseNames
  <2>2. rt.chrome = "ended" BY <1>a, <2>1 DEF NodeSound, QuietPhases
  <2>3. /\ RTSound(Passed(rt)) /\ RTSound(Throw(rt)) /\ Passed(rt).node.phase \notin QuietPhases
    BY <1>a, <2>1, PassOrThrow
  <2>4. CASE rt' = [Passed(rt) EXCEPT !.chrome = "running"]
    <3> DEFINE p == Passed(rt)
    <3>1. p.node.phase # "none"
      <4>1. PICK j \in 1..14 : rt.node.phase = NodePhases[j] BY <2>1, PhasePositions
      <4>2. p.node.phase \in PhaseNames \cup {"close"} BY <1>a, <4>1, PassedKeeps, PhasePositions
      <4> QED BY <4>2 DEF PhaseNames
    <3> HIDE DEF p
    <3>2. /\ rt' \in RTState /\ rt'.node = p.node /\ rt'.step = p.step /\ rt'.kind = p.kind /\ rt'.code = p.code
          /\ rt'.verdicts = p.verdicts /\ rt'.evidence = p.evidence
      BY <2>3, <2>4 DEF RTSound, RTState, p
    <3> QED BY <2>3, <3>1, <3>2, SamePhase DEF RTInv, p
  <2>5. CASE rt' = [Throw(rt) EXCEPT !.chrome = "ended"]
    <3>1. Throw(rt) \in RTState /\ Throw(rt).chrome = "ended" BY <2>2, <2>3 DEF Throw, RTSound, RTState
    <3>2. rt' = Throw(rt) BY <2>5, <3>1 DEF RTState
    <3> QED BY <2>3, <3>2 DEF RTInv
  <2> QED BY <1>3, <2>4, <2>5 DEF launchSmokeChrome
<1>4. CASE connectToSmokePage
  <2>1. rt.node.phase \in PhaseNames /\ rt.node.phase # "record" /\ (rt' = Passed(rt) \/ rt' = Throw(rt))
    BY <1>4 DEF connectToSmokePage, PhaseNames
  <2> QED BY <1>a, <2>1, PassOrThrow DEF RTInv
<1>5. CASE Send
  <2> DEFINE c == IF rt.node.phase \in NavigationPhases THEN "navigating" ELSE "sent"
             n == [rt.node EXCEPT !.cmd = c]
  <2>1. rt' = [rt EXCEPT !.node = n] /\ rt.node.phase \in CommandPhases \cup NavigationPhases
    BY <1>5, <1>a DEF Send, RTState
  <2>2. n \in NodeState /\ n.cmd = c /\ n.phase = rt.node.phase /\ n.failed = rt.node.failed /\ n.passed = rt.node.passed
    BY <1>b DEF NodeState
  <2>3. rt.node.phase # "none" BY <1>c, <2>1 DEF PhaseNames
  <2>4. \/ c \in {"navigating", "loading"} /\ rt.node.phase \in NavigationPhases
        \/ c = "sent" /\ rt.node.phase \in CommandPhases
    BY <2>1
  <2> HIDE DEF n, c
  <2>5. /\ rt' \in RTState /\ rt'.node = n /\ rt'.step = rt.step /\ rt'.kind = rt.kind /\ rt'.code = rt.code
        /\ rt'.verdicts = rt.verdicts /\ rt'.evidence = rt.evidence /\ rt'.chrome = rt.chrome
    BY <1>a, <2>1, <2>2 DEF RTState
  <2> QED BY <1>a, <2>2, <2>3, <2>4, <2>5, SamePhase DEF RTInv
<1>6. CASE Answered
  <2>1. CASE rt.node.cmd = "navigating" /\ rt' = [rt EXCEPT !.node.cmd = "loading"]
    <3> DEFINE n == [rt.node EXCEPT !.cmd = "loading"]
    <3>1. rt' = [rt EXCEPT !.node = n] BY <2>1, <1>a DEF RTState
    <3>2. n \in NodeState /\ n.cmd = "loading" /\ n.phase = rt.node.phase /\ n.failed = rt.node.failed /\ n.passed = rt.node.passed
      BY <1>b DEF NodeState
    <3>3. rt.node.phase \in NavigationPhases BY <1>a, <2>1 DEF NodeSound
    <3>4. rt.node.phase # "none" BY <1>c, <3>3 DEF PhaseNames
    <3> HIDE DEF n
    <3>5. /\ rt' \in RTState /\ rt'.node = n /\ rt'.step = rt.step /\ rt'.kind = rt.kind /\ rt'.code = rt.code
          /\ rt'.verdicts = rt.verdicts /\ rt'.evidence = rt.evidence /\ rt'.chrome = rt.chrome
      BY <1>a, <3>1, <3>2 DEF RTState
    <3> QED BY <1>a, <3>2, <3>3, <3>4, <3>5, SamePhase DEF RTInv
  <2>2. CASE rt.node.cmd \in {"navigating", "sent"} /\ (rt' = Throw(rt) \/ rt' = Passed(rt))
    <3>1. rt.node.phase \in CommandPhases \cup NavigationPhases BY <1>a, <2>2 DEF NodeSound
    <3>2. rt.node.phase # "metadata" BY <1>6 DEF Answered
    <3>3. rt.node.phase \in PhaseNames BY <1>c, <3>1, <3>2
    <3>4. rt.node.phase # "record" BY <3>1 DEF CommandPhases, NavigationPhases
    <3> QED BY <1>a, <2>2, <3>3, <3>4, PassOrThrow DEF RTInv
  <2> QED BY <1>6, <2>1, <2>2 DEF Answered
<1>7. CASE ReadRepeated \/ (FailureMetadataRead /\ rt' = [rt EXCEPT !.node.cmd = "none", !.node.tries = 1])
           \/ (waitForServicesPage /\ rt' = [rt EXCEPT !.node.cmd = "none", !.node.tries = 1])
  <2> DEFINE n == [rt.node EXCEPT !.cmd = "none", !.tries = 1]
  <2>1. rt' = [rt EXCEPT !.node.cmd = "none", !.node.tries = 1]
    BY <1>7 DEF ReadRepeated
  <2>2. rt' = [rt EXCEPT !.node = n] BY <2>1, <1>a DEF RTState
  <2>3. n \in NodeState /\ n.cmd = "none" /\ n.phase = rt.node.phase /\ n.failed = rt.node.failed /\ n.passed = rt.node.passed
    BY <1>b DEF NodeState
  <2>4. rt.node.phase # "none" BY <1>7 DEF ReadRepeated, FailureMetadataRead, waitForServicesPage
  <2> HIDE DEF n
  <2>5. /\ rt' \in RTState /\ rt'.node = n /\ rt'.step = rt.step /\ rt'.kind = rt.kind /\ rt'.code = rt.code
        /\ rt'.verdicts = rt.verdicts /\ rt'.evidence = rt.evidence /\ rt'.chrome = rt.chrome
    BY <1>a, <2>2, <2>3 DEF RTState
  <2> QED BY <1>a, <2>3, <2>4, <2>5, SamePhase DEF RTInv
<1>8. CASE waitForServicesPage /\ (rt' = Passed(rt) \/ rt' = Throw(rt))
  <2>1. rt.node.phase \in PhaseNames /\ rt.node.phase # "record" BY <1>8 DEF waitForServicesPage, PhaseNames
  <2> QED BY <1>a, <1>8, <2>1, PassOrThrow DEF RTInv
<1>9. CASE loadEventFired \/ (rt.node.cmd = "loading" /\ rt' = Throw(rt))
  <2>1. rt.node.cmd = "loading" /\ (rt' = Passed(rt) \/ rt' = Throw(rt)) BY <1>9 DEF loadEventFired
  <2>2. rt.node.phase \in NavigationPhases BY <1>a, <2>1 DEF NodeSound
  <2>3. rt.node.phase \in PhaseNames /\ rt.node.phase # "record" BY <1>c, <2>2 DEF NavigationPhases
  <2> QED BY <1>a, <2>1, <2>3, PassOrThrow DEF RTInv
<1>10. CASE rt.node.cmd = "navigating" /\ rt' = Exited(rt, 1, "crash")
  <2>1. rt.node # NotStarted BY <1>10, <1>d
  <2> QED BY <1>10, <1>a, <2>1, ExitedSound DEF RTInv
<1>11. CASE FailureMetadataRead /\ rt' = [rt EXCEPT !.node.cmd = "none", !.node.phase = "recordFailure"]
  <2> DEFINE n == [rt.node EXCEPT !.cmd = "none", !.phase = "recordFailure"]
  <2>1. rt' = [rt EXCEPT !.node = n] BY <1>11, <1>a DEF RTState
  <2>2. rt.node.phase = "metadata" BY <1>11 DEF FailureMetadataRead
  <2>3. rt.node.failed /\ rt.verdicts = {} BY <1>a, <2>2 DEF NodeSound, VerdictSound
  <2>4. n \in NodeState /\ n.cmd = "none" /\ n.phase = "recordFailure" /\ n.failed BY <1>b, <2>3 DEF NodeState, EndPhases
  <2> HIDE DEF n
  <2>5. /\ rt' \in RTState /\ rt'.node = n /\ rt'.step = rt.step /\ rt'.kind = rt.kind /\ rt'.code = rt.code
        /\ rt'.verdicts = {} /\ rt'.evidence = rt.evidence /\ rt'.chrome = rt.chrome
    BY <1>a, <2>1, <2>3, <2>4 DEF RTState
  <2>6. n # NotStarted /\ rt.node # NotStarted BY <1>d, <2>2, <2>4
  <2>7. NodeSound(rt') BY <2>4, <2>5 DEF NodeSound, QuietPhases
  <2>8. VerdictSound(rt') /\ StepSound(rt') BY <1>a, <2>5, <2>6 DEF VerdictSound, StepSound, ForGithub
  <2> QED BY <2>5, <2>7, <2>8 DEF RTInv, RTSound
<1>12. CASE recordRemoteSmokeFailure
  <2> DEFINE n == [rt.node EXCEPT !.phase = "close"]
  <2>1. PICK taken \in BOOLEAN :
          rt' = [rt EXCEPT !.node.phase = "close",
                           !.verdicts = IF taken /\ ForGithub(rt) THEN rt.verdicts \cup {"failure"} ELSE rt.verdicts]
    BY <1>12 DEF recordRemoteSmokeFailure
  <2> DEFINE v == IF taken /\ ForGithub(rt) THEN rt.verdicts \cup {"failure"} ELSE rt.verdicts
  <2>2. rt' = [rt EXCEPT !.node = n, !.verdicts = v] BY <2>1, <1>a DEF RTState
  <2>3. rt.node.phase = "recordFailure" BY <1>12 DEF recordRemoteSmokeFailure
  <2>4. rt.node.failed /\ rt.verdicts = {} BY <1>a, <2>3 DEF NodeSound, VerdictSound
  <2>5. v \in {{}, {"failure"}} /\ (v # {} => ForGithub(rt)) BY <2>4
  <2>6. rt.node.cmd = "none" BY <1>a, <1>b, <2>3 DEF NodeSound, NavigationPhases, CommandPhases
  <2>7. n \in NodeState /\ n.cmd = "none" /\ n.phase = "close" /\ n.failed BY <1>b, <2>4, <2>6 DEF NodeState, EndPhases
  <2> HIDE DEF n, v
  <2>8. /\ rt' \in RTState /\ rt'.node = n /\ rt'.step = rt.step /\ rt'.kind = rt.kind /\ rt'.code = rt.code
        /\ rt'.verdicts = v /\ rt'.evidence = rt.evidence /\ rt'.chrome = rt.chrome
    <3>1. v \in SUBSET {"success", "failure"} BY <2>5
    <3> QED BY <1>a, <2>2, <2>7, <3>1 DEF RTState
  <2>9. n # NotStarted /\ rt.node # NotStarted BY <1>d, <2>3, <2>7
  <2>10. NodeSound(rt') BY <2>7, <2>8 DEF NodeSound, QuietPhases
  <2>11. VerdictSound(rt')
    <3>1. ForGithub(rt') <=> ForGithub(rt) BY <2>8 DEF ForGithub
    <3> QED BY <2>5, <2>7, <2>8, <2>9, <3>1 DEF VerdictSound, PhaseNames, LatePhases
  <2>12. StepSound(rt') BY <1>a, <2>8, <2>9 DEF StepSound, ForGithub
  <2> QED BY <2>8, <2>10, <2>11, <2>12 DEF RTInv, RTSound
<1>13. CASE EventLoopEmpty
  <2>1. /\ rt.node # NotStarted /\ rt.node.cmd = "sent" /\ rt.chrome = "ended" /\ rt' = Exited(rt, 0, "browserDied")
    BY <1>13, <1>d DEF EventLoopEmpty
  <2> QED BY <1>a, <2>1, ExitedSound DEF RTInv
<1>14. CASE recordRemoteSmokeSuccess
  <2>1. PICK stored \in BOOLEAN, answered \in BOOLEAN :
          LET next == [rt EXCEPT !.verdicts = IF stored THEN rt.verdicts \cup {"success"} ELSE rt.verdicts]
          IN  rt' = IF stored /\ answered THEN Passed(next) ELSE Throw(next)
    BY <1>14 DEF recordRemoteSmokeSuccess
  <2> DEFINE v == IF stored THEN rt.verdicts \cup {"success"} ELSE rt.verdicts
             next == [rt EXCEPT !.verdicts = v]
  <2>2. rt.node.phase = "record" /\ NodePhases[12] = "record" BY <1>14 DEF recordRemoteSmokeSuccess, NodePhases
  <2>3. rt' = Passed(next) \/ rt' = Throw(next) BY <2>1
  <2>4. rt.verdicts = {} BY <1>a, <2>2 DEF VerdictSound, PhaseNames, LatePhases
  <2>5. v \in {{}, {"success"}} BY <2>4
  <2> HIDE DEF v
  <2>6. /\ next \in RTState /\ next.node = rt.node /\ next.step = rt.step /\ next.kind = rt.kind
        /\ next.code = rt.code /\ next.verdicts = v /\ next.evidence = rt.evidence /\ next.chrome = rt.chrome
    <3>1. v \in SUBSET {"success", "failure"} BY <2>5
    <3> QED BY <1>a, <3>1 DEF RTState
  <2> HIDE DEF next
  <2>7. NodeSound(next)
    <3>1. \A m : Cleared(next, m) <=> Cleared(rt, m) BY <2>6 DEF Cleared, Skipped, ForGithub
    <3> QED BY <1>a, <2>6, <3>1 DEF NodeSound, ForGithub
  <2>8. StepSound(next) BY <1>a, <2>6 DEF StepSound, ForGithub
  <2>9. ForGithub(next)
    <3>1. ForGithub(rt) BY <1>a, <2>2 DEF NodeSound
    <3> QED BY <2>6, <3>1 DEF ForGithub
  <2>10. next.node.phase = NodePhases[12] /\ next.node.phase \in PhaseNames /\ next.node.phase \notin ScreenPhases
    BY <2>2, <2>6 DEF PhaseNames, ScreenPhases
  <2>11. "failure" \notin next.verdicts BY <2>5, <2>6
  <2> QED BY <2>3, <2>6, <2>7, <2>8, <2>9, <2>10, <2>11, PassedSound, ThrowSound DEF RTInv
<1>15. CASE AdminStatusAndSummary
  <2>1. rt.node.phase \in PhaseNames /\ rt.node.phase # "record" /\ (rt' = Passed(rt) \/ rt' = Throw(rt))
    BY <1>15 DEF AdminStatusAndSummary, PhaseNames
  <2> QED BY <1>a, <2>1, PassOrThrow DEF RTInv
<1>16. CASE CloseChrome
  <2>1. PICK removed \in BOOLEAN :
          rt' = [rt EXCEPT !.chrome = "ended", !.node = [rt.node EXCEPT !.failed = rt.node.failed \/ ~removed, !.phase = "exit"]]
    BY <1>16 DEF CloseChrome
  <2> DEFINE n == [rt.node EXCEPT !.failed = rt.node.failed \/ ~removed, !.phase = "exit"]
  <2>2. rt.node.phase = "close" BY <1>16 DEF CloseChrome
  <2>3. rt.node.cmd = "none" BY <1>a, <1>b, <2>2 DEF NodeSound, NavigationPhases, CommandPhases
  <2>4. /\ n \in NodeState /\ n.cmd = "none" /\ n.phase = "exit" /\ n.passed = rt.node.passed
        /\ n.failed = (rt.node.failed \/ ~removed)
    BY <1>b, <2>3 DEF NodeState, EndPhases
  <2> HIDE DEF n
  <2>5. /\ rt' \in RTState /\ rt'.node = n /\ rt'.step = rt.step /\ rt'.kind = rt.kind /\ rt'.code = rt.code
        /\ rt'.verdicts = rt.verdicts /\ rt'.evidence = rt.evidence /\ rt'.chrome = "ended"
    BY <1>a, <2>1, <2>4 DEF RTState, n
  <2>6. n # NotStarted /\ rt.node # NotStarted BY <1>d, <2>2, <2>4
  <2>7. \A m : Cleared(rt, m) <=> Cleared(rt', m) BY <2>4, <2>5 DEF Cleared, Skipped, ForGithub
  <2>8. \A m \in 1..14 : NodePhases[m] # "exit" BY PhasePositions DEF PhaseNames
  <2>9. NodeSound(rt')
    <3>1. ~n.failed => Cleared(rt', 15) BY <1>a, <2>2, <2>4, <2>7 DEF NodeSound
    <3> QED BY <2>4, <2>5, <2>8, <3>1 DEF NodeSound
  <2>10. VerdictSound(rt')
    <3>1. ForGithub(rt') <=> ForGithub(rt) BY <2>5 DEF ForGithub
    <3>2. "failure" \in rt.verdicts => n.failed BY <1>a, <2>2, <2>4 DEF VerdictSound
    <3> QED BY <1>a, <2>4, <2>5, <2>6, <3>1, <3>2 DEF VerdictSound, PhaseNames, LatePhases
  <2>11. StepSound(rt') BY <1>a, <2>5, <2>6 DEF StepSound, ForGithub
  <2> QED BY <2>5, <2>9, <2>10, <2>11 DEF RTInv, RTSound
<1>17. CASE EndOfMain
  <2>1. rt.node.phase = "exit" /\ rt' = Exited(rt, IF rt.node.failed THEN 1 ELSE 0, "end") BY <1>17 DEF EndOfMain
  <2>2. rt.node # NotStarted BY <1>d, <2>1
  <2> QED BY <1>a, <2>1, <2>2, ExitedSound DEF RTInv
<1>18. FailureMetadataRead => \/ rt' = [rt EXCEPT !.node.cmd = "none", !.node.tries = 1]
                              \/ rt' = [rt EXCEPT !.node.cmd = "none", !.node.phase = "recordFailure"]
  BY DEF FailureMetadataRead
<1>19. waitForServicesPage => \/ rt' = Passed(rt) \/ rt' = Throw(rt)
                              \/ rt' = [rt EXCEPT !.node.cmd = "none", !.node.tries = 1]
  BY DEF waitForServicesPage
<1>20. LoadTimesOut => \/ rt.node.cmd = "loading" /\ rt' = Throw(rt)
                       \/ rt.node.cmd = "navigating" /\ rt' = Exited(rt, 1, "crash")
  BY DEF LoadTimesOut
<1> QED BY <1>1, <1>2, <1>3, <1>4, <1>5, <1>6, <1>7, <1>8, <1>9, <1>10, <1>11, <1>12, <1>13, <1>14, <1>15, <1>16,
           <1>17, <1>18, <1>19, <1>20 DEF NodeStep

\* A step of the rotation, and what its invariant says of the report.
LEMMA RTStep == RTInv /\ RTNext => RTInv'
<1> SUFFICES ASSUME RTInv, RTNext PROVE RTInv' OBVIOUS
<1>a. RTSound(rt) /\ rt \in RTState /\ NodeSound(rt) /\ VerdictSound(rt) /\ StepSound(rt) BY DEF RTInv, RTSound
<1>b. rt.node = NotStarted \/ rt.node.phase # "none" BY <1>a DEF NodeSound
<1>c. NotStarted \in NodeState /\ rt.attempts + 1 \in Nat BY <1>a DEF NotStarted, NodeState, RTState
<1>d. rt.step # "smoke" => rt.node = NotStarted BY <1>a DEF StepSound
<1>1. CASE NodeStep BY <1>1, NodeStepKeeps
<1>2. ASSUME rt.step = "idle", NEW kind \in {"timer", "manual", "github", "githubAdmin"}
      PROVE  LET t == NewRun(rt, kind)
             IN  /\ t \in RTState /\ t.node = NotStarted /\ t.chrome = "ended" /\ t.verdicts = {}
                 /\ t.evidence = "none" /\ t.kind = kind
  <2> DEFINE t == NewRun(rt, kind)
             a == rt.attempts + 1
  <2>1. t = [rt EXCEPT !.kind = kind, !.attempts = a, !.cuts = 0, !.chrome = "ended", !.verdicts = {},
                       !.evidence = "none", !.told = FALSE, !.mute = FALSE]
    BY DEF NewRun
  <2>2. a \in Nat /\ rt.node = NotStarted BY <1>c, <1>d, <1>2
  <2> HIDE DEF t, a
  <2>3. rt \in RTState BY <1>a
  <2>4. a \in Nat BY <2>2
  <2>5. t \in RTState
    <3> DEFINE r == [rt EXCEPT !.kind = kind, !.attempts = a, !.cuts = 0, !.chrome = "ended"]
    <3>1. r \in RTState BY <2>3, <2>4 DEF RTState
    <3>2. t = [r EXCEPT !.verdicts = {}, !.evidence = "none", !.told = FALSE, !.mute = FALSE] BY <2>1
    <3> HIDE DEF r
    <3> QED BY <3>1, <3>2 DEF RTState
  <2>6. /\ t.node = rt.node /\ t.chrome = "ended" /\ t.verdicts = {} /\ t.evidence = "none" /\ t.kind = kind
    BY <2>1, <2>3 DEF RTState
  <2> QED BY <2>2, <2>5, <2>6 DEF t
<1>3. CASE StartRotation
  <2>1. PICK kind \in {"timer", "manual"} : rt' = [NewRun(rt, kind) EXCEPT !.step = "backend"]
    BY <1>3 DEF StartRotation
  <2>2. rt.step = "idle" BY <1>3 DEF StartRotation
  <2> DEFINE t == NewRun(rt, kind)
  <2>3. t \in RTState /\ t.node = NotStarted /\ t.chrome = "ended" /\ t.verdicts = {} /\ t.evidence = "none" /\ t.kind = kind
    BY <1>2, <2>2
  <2>4. rt' = [t EXCEPT !.step = "backend"] BY <2>1
  <2> HIDE DEF t
  <2>5. /\ rt' \in RTState /\ rt'.node = NotStarted /\ rt'.chrome = "ended" /\ rt'.verdicts = {}
        /\ rt'.evidence = "none" /\ rt'.kind = kind /\ rt'.step = "backend"
    BY <2>3, <2>4 DEF RTState, StepNames
  <2>6. StepSound(rt') BY <2>5 DEF StepSound, ForGithub
  <2> QED BY <2>5, <2>6, NodeIdle DEF RTInv
<1>4. CASE StartGithubRun
  <2>1. PICK kind \in {"github", "githubAdmin"} : rt' = NodeStarted(NewRun(rt, kind)) BY <1>4 DEF StartGithubRun
  <2>2. rt.step = "idle" BY <1>4 DEF StartGithubRun
  <2> QED BY <1>2, <2>1, <2>2, NodeBegins DEF RTInv
<1>5. CASE RotationStep
  <2>1. PICK i \in 1..Len(RotationSteps) :
          /\ rt.step = RotationSteps[i]
          /\ \/ rt' = IF rt.step = "node" THEN NodeStarted(rt)
                       ELSE [rt EXCEPT !.step = RotationSteps[i + 1],
                                       !.status = IF rt.step = "runningReport" THEN "running" ELSE rt.status]
             \/ rt' = [rt EXCEPT !.step = "exitTrap", !.failedAt = rt.step, !.code = 1]
    BY <1>5 DEF RotationStep
  <2>2. /\ rt.step \in StepNames
        /\ rt.step # "node" => RotationSteps[i + 1] \in StepNames
    <3>1. i \in 1..6 /\ Len(RotationSteps) = 6 BY DEF RotationSteps
    <3>2. /\ RotationSteps[1] = "backend" /\ RotationSteps[2] = "revision" /\ RotationSteps[3] = "runningReport"
          /\ RotationSteps[4] = "viewer" /\ RotationSteps[5] = "admin" /\ RotationSteps[6] = "node"
      BY DEF RotationSteps
    <3>3. i = 1 \/ i = 2 \/ i = 3 \/ i = 4 \/ i = 5 \/ i = 6 BY <3>1
    <3> QED BY <2>1, <3>2, <3>3 DEF StepNames
  <2>3. /\ rt.node = NotStarted /\ ~ForGithub(rt) /\ rt.evidence = "none" /\ rt.chrome = "ended" /\ rt.verdicts = {}
    BY <1>a, <1>d, <2>2 DEF StepSound, VerdictSound, StepNames
  <2>4. CASE rt.step = "node" /\ rt' = NodeStarted(rt) BY <1>a, <2>3, <2>4, NodeBegins DEF RTInv
  <2>5. CASE rt.step # "node" /\ rt' = [rt EXCEPT !.step = RotationSteps[i + 1],
                                       !.status = IF rt.step = "runningReport" THEN "running" ELSE rt.status]
    <3> DEFINE u == IF rt.step = "runningReport" THEN "running" ELSE rt.status
               p == RotationSteps[i + 1]
    <3>1. u \in {"never", "running", "success", "failure"} /\ p \in StepNames BY <1>a, <2>2, <2>5 DEF RTState
    <3>2. rt' = [rt EXCEPT !.step = p, !.status = u] BY <2>5
    <3> HIDE DEF u, p
    <3>3. /\ rt' \in RTState /\ rt'.node = NotStarted /\ rt'.chrome = "ended" /\ rt'.verdicts = {}
          /\ rt'.evidence = "none" /\ rt'.kind = rt.kind /\ rt'.step = p
      BY <1>a, <2>3, <3>1, <3>2 DEF RTState
    <3>4. StepSound(rt') BY <2>3, <3>1, <3>3 DEF StepSound, ForGithub, StepNames
    <3> QED BY <3>3, <3>4, NodeIdle DEF RTInv
  <2>6. CASE rt' = [rt EXCEPT !.step = "exitTrap", !.failedAt = rt.step, !.code = 1]
    <3>1. /\ rt' \in RTState /\ rt'.node = NotStarted /\ rt'.chrome = "ended" /\ rt'.verdicts = {}
          /\ rt'.evidence = "none" /\ rt'.kind = rt.kind /\ rt'.step = "exitTrap"
      BY <1>a, <2>2, <2>3, <2>6 DEF RTState
    <3>2. StepSound(rt') BY <2>3, <3>1 DEF StepSound, ForGithub, StepNames
    <3> QED BY <3>1, <3>2, NodeIdle DEF RTInv
  <2> QED BY <2>1, <2>4, <2>5, <2>6
<1>6. CASE ReportSuccess
  <2>1. rt.step = "successReport" BY <1>6 DEF ReportSuccess
  <2>2. /\ rt.node = NotStarted /\ ~ForGithub(rt) /\ rt.verdicts = {} /\ rt.evidence \in {"checked", "browserDied"}
        /\ rt.chrome = "ended"
    BY <1>a, <1>d, <2>1 DEF StepSound, VerdictSound
  <2>3. /\ rt' \in RTState /\ rt'.node = NotStarted /\ rt'.chrome = "ended" /\ rt'.verdicts = {}
        /\ rt'.evidence = rt.evidence /\ rt'.kind = rt.kind /\ rt'.step \in {"idle", "exitTrap"}
    <3>1. CASE rt' = [rt EXCEPT !.step = "idle", !.status = "success"] BY <1>a, <2>2, <3>1 DEF RTState
    <3>2. CASE rt' = [rt EXCEPT !.step = "exitTrap", !.failedAt = rt.step, !.code = 1]
      BY <1>a, <2>1, <2>2, <3>2 DEF RTState
    <3> QED BY <1>6, <3>1, <3>2 DEF ReportSuccess
  <2>4. StepSound(rt') BY <2>2, <2>3 DEF StepSound, ForGithub, StepNames
  <2> QED BY <2>2, <2>3, <2>4, NodeIdle DEF RTInv
<1>7. CASE handle_exit
  <2>1. PICK reported \in BOOLEAN, alerted \in BOOLEAN : rt' = Handled(rt, reported, alerted) BY <1>7 DEF handle_exit
  <2>2. rt.step = "exitTrap" BY <1>7 DEF handle_exit
  <2>3. /\ rt.node = NotStarted /\ ~ForGithub(rt) /\ rt.verdicts = {} /\ (rt.evidence = "crash" \/ rt.chrome = "ended")
    BY <1>a, <1>d, <2>2 DEF StepSound, VerdictSound
  <2> DEFINE u == IF reported THEN "failure" ELSE rt.status
             told == reported \/ alerted
             mute == ~reported /\ ~alerted
  <2>4. u \in {"never", "running", "success", "failure"} /\ told \in BOOLEAN /\ mute \in BOOLEAN BY <1>a DEF RTState
  <2>5. rt' = [rt EXCEPT !.step = "idle", !.failedAt = "none", !.status = u, !.told = told, !.mute = mute]
    BY <2>1 DEF Handled
  <2> HIDE DEF u, told, mute
  <2>6. /\ rt' \in RTState /\ rt'.node = NotStarted /\ rt'.chrome = rt.chrome /\ rt'.verdicts = {}
        /\ rt'.evidence = rt.evidence /\ rt'.kind = rt.kind /\ rt'.step = "idle"
    <3>0. rt \in RTState BY <1>a
    <3>1. rt' \in RTState
      <4> DEFINE r == [rt EXCEPT !.step = "idle", !.failedAt = "none", !.status = u]
      <4>1. r \in RTState BY <3>0, <2>4 DEF RTState
      <4>2. rt' = [r EXCEPT !.told = told, !.mute = mute] BY <2>5
      <4> HIDE DEF r
      <4> QED BY <2>4, <4>1, <4>2 DEF RTState
    <3> QED BY <1>a, <2>3, <2>5, <3>1 DEF RTState
  <2>7. StepSound(rt') BY <2>3, <2>6 DEF StepSound, ForGithub, StepNames
  <2> QED BY <2>3, <2>6, <2>7, NodeIdle DEF RTInv
<1>8. CASE TimedOut
  <2>1. rt.kind = "timer" /\ rt' = [rt EXCEPT !.step = "idle", !.node = NotStarted, !.chrome = "ended", !.cuts = 1,
                                             !.failedAt = "none"]
    BY <1>8 DEF TimedOut
  <2>2. rt.verdicts = {} BY <1>a, <2>1 DEF VerdictSound, ForGithub
  <2>3. /\ rt' \in RTState /\ rt'.node = NotStarted /\ rt'.chrome = "ended" /\ rt'.verdicts = {} /\ rt'.step = "idle"
    BY <1>a, <1>c, <2>1, <2>2 DEF RTState
  <2>4. StepSound(rt') BY <2>3 DEF StepSound, ForGithub, StepNames
  <2> QED BY <2>3, <2>4, NodeIdle DEF RTInv
<1>9. ASSUME rt.node # NotStarted, NEW c \in {"ended", "hung"}, rt' = [rt EXCEPT !.chrome = c],
             c = "ended" \/ rt.chrome = "running"
      PROVE  RTInv'
  <2>1. /\ rt' \in RTState /\ rt'.node = rt.node /\ rt'.step = rt.step /\ rt'.kind = rt.kind /\ rt'.code = rt.code
        /\ rt'.verdicts = rt.verdicts /\ rt'.evidence = rt.evidence /\ rt'.chrome = c
    BY <1>9, <1>a DEF RTState
  <2>2. c = "ended" \/ rt.node.phase \notin QuietPhases BY <1>9, <1>a DEF NodeSound
  <2>3. rt.node.phase # "none" BY <1>9, <1>b
  <2> QED BY <1>a, <2>1, <2>2, <2>3, SamePhase DEF RTInv
<1>10. CASE ChromeEnds BY <1>9, <1>10 DEF ChromeEnds
<1>11. CASE ChromeHangs BY <1>9, <1>11 DEF ChromeHangs
<1> QED BY <1>1, <1>3, <1>4, <1>5, <1>6, <1>7, <1>8, <1>10, <1>11 DEF RTNext

LEMMA RTHolds == RTInv => RTTypeOK /\ SuccessMeansVerified /\ OneVerdict /\ ChromeNotLeft
<1> SUFFICES ASSUME RTInv PROVE RTTypeOK /\ SuccessMeansVerified /\ OneVerdict /\ ChromeNotLeft OBVIOUS
<1>a. rt \in RTState /\ VerdictSound(rt) /\ StepSound(rt) BY DEF RTInv, RTSound
<1>1. RTTypeOK BY <1>a DEF RTTypeOK, RTState
<1>2. SuccessMeansVerified /\ ChromeNotLeft BY <1>a DEF SuccessMeansVerified, ChromeNotLeft, StepSound
<1>3. OneVerdict
  <2>1. "failure" \in rt.verdicts => rt.verdicts = {"failure"} BY <1>a DEF VerdictSound
  <2>2. rt.verdicts # {"success", "failure"} BY <2>1
  <2>3. rt.step = "idle" => rt.node = NotStarted BY <1>a DEF StepSound
  <2>4. "failure" \in rt.verdicts /\ rt.step = "idle" => rt.code = 1 BY <1>a, <2>3 DEF VerdictSound
  <2> QED BY <2>2, <2>4 DEF OneVerdict
<1> QED BY <1>1, <1>2, <1>3

-----------------------------------------------------------------------------
(* The pages and jobs together: each keeps its invariant while it is open. *)

WInv ==
    /\ mr # Unmounted => MRInv
    /\ hb # Unmounted => HBInv
    /\ ss # Unmounted => SSInv
    /\ lc # Unmounted => LCInv
    /\ dg # Unmounted => DGInv
    /\ sw # Unmounted => SWInv
    /\ rt # Unmounted => RTInv

LEMMA WInitially == Init => WInv
  BY MRInitially, HBInitially, SSInitially, LCInitially, DGInitially, SWInitially, RTInitially DEF Init, WInv

LEMMA WStep == WInv /\ [Next]_pages => WInv'
<1> SUFFICES ASSUME WInv, [Next]_pages PROVE WInv' OBVIOUS
<1>1. (mr # Unmounted /\ MRNext) \/ mr' = mr BY DEF Next, pages
<1>2. (hb # Unmounted /\ HBNext) \/ hb' = hb BY DEF Next, pages
<1>3. (ss # Unmounted /\ SSNext) \/ ss' = ss BY DEF Next, pages
<1>4. (lc # Unmounted /\ LCNext) \/ lc' = lc BY DEF Next, pages
<1>5. (dg # Unmounted /\ DGNext) \/ dg' = dg BY DEF Next, pages
<1>6. (sw # Unmounted /\ SWNext) \/ sw' = sw BY DEF Next, pages
<1>7. (rt # Unmounted /\ RTNext) \/ rt' = rt BY DEF Next, pages
<1>8. mr' # Unmounted => MRInv'
  <2>1. CASE mr # Unmounted /\ MRNext BY <2>1, MRStep DEF WInv
  <2>2. CASE mr' = mr BY <2>2 DEF WInv, MRInv
  <2> QED BY <1>1, <2>1, <2>2
<1>9. hb' # Unmounted => HBInv'
  <2>1. CASE hb # Unmounted /\ HBNext BY <2>1, HBStep DEF WInv
  <2>2. CASE hb' = hb BY <2>2 DEF WInv, HBInv
  <2> QED BY <1>2, <2>1, <2>2
<1>10. ss' # Unmounted => SSInv'
  <2>1. CASE ss # Unmounted /\ SSNext BY <2>1, SSStep DEF WInv
  <2>2. CASE ss' = ss BY <2>2 DEF WInv, SSInv
  <2> QED BY <1>3, <2>1, <2>2
<1>11. lc' # Unmounted => LCInv'
  <2>1. CASE lc # Unmounted /\ LCNext BY <2>1, LCStep DEF WInv
  <2>2. CASE lc' = lc BY <2>2 DEF WInv, LCInv
  <2> QED BY <1>4, <2>1, <2>2
<1>12. dg' # Unmounted => DGInv'
  <2>1. CASE dg # Unmounted /\ DGNext BY <2>1, DGStep DEF WInv
  <2>2. CASE dg' = dg BY <2>2 DEF WInv, DGInv
  <2> QED BY <1>5, <2>1, <2>2
<1>13. sw' # Unmounted => SWInv'
  <2>1. CASE sw # Unmounted /\ SWNext BY <2>1, SWStep DEF WInv
  <2>2. CASE sw' = sw BY <2>2 DEF WInv, SWInv
  <2> QED BY <1>6, <2>1, <2>2
<1>14. rt' # Unmounted => RTInv'
  <2>1. CASE rt # Unmounted /\ RTNext BY <2>1, RTStep DEF WInv
  <2>2. CASE rt' = rt BY <2>2 DEF WInv, RTInv
  <2> QED BY <1>7, <2>1, <2>2
<1> QED BY <1>8, <1>9, <1>10, <1>11, <1>12, <1>13, <1>14 DEF WInv

\* A page that is not open announces nothing.
LEMMA WAnnounces == WInv => AnnouncementsTrue
<1> SUFFICES ASSUME WInv PROVE AnnouncementsTrue OBVIOUS
<1>1. MRTypeOK /\ OneLiveChain
  <2>1. CASE mr = Unmounted BY <2>1 DEF MRTypeOK, OneLiveChain
  <2>2. CASE mr # Unmounted BY <2>2, MRSound DEF WInv
  <2> QED BY <2>1, <2>2
<1>2. HBTypeOK /\ RecoveryFollowsFailure /\ AlertsApart /\ BannerAgreesWithRows /\ GreenMeansOneRevision
  <2>1. CASE hb = Unmounted
    BY <2>1 DEF HBTypeOK, RecoveryFollowsFailure, AlertsApart, BannerAgreesWithRows, GreenMeansOneRevision
  <2>2. CASE hb # Unmounted BY <2>2, HBHolds DEF WInv
  <2> QED BY <2>1, <2>2
<1>3. SSTypeOK /\ SignedOutStaysOut
  <2>1. CASE ss = Unmounted BY <2>1 DEF SSTypeOK, SignedOutStaysOut
  <2>2. CASE ss # Unmounted BY <2>2, SSHolds DEF WInv
  <2> QED BY <2>1, <2>2
<1>4. LCTypeOK /\ TokenSentOnce
  <2>1. CASE lc = Unmounted BY <2>1 DEF LCTypeOK, TokenSentOnce
  <2>2. CASE lc # Unmounted BY <2>2, LCHolds DEF WInv
  <2> QED BY <2>1, <2>2
<1>5. DGTypeOK /\ HistorySound
  <2>1. CASE dg = Unmounted BY <2>1 DEF DGTypeOK, HistorySound
  <2>2. CASE dg # Unmounted BY <2>2, DGHolds DEF WInv
  <2> QED BY <2>1, <2>2
<1>6. SWTypeOK /\ OutageIsConfirmed /\ AnnouncedAsReceived
  <2>1. CASE sw = Unmounted BY <2>1 DEF SWTypeOK, OutageIsConfirmed, AnnouncedAsReceived
  <2>2. CASE sw # Unmounted BY <2>2, SWHolds DEF WInv
  <2> QED BY <2>1, <2>2
<1>7. RTTypeOK /\ SuccessMeansVerified /\ OneVerdict /\ ChromeNotLeft
  <2>1. CASE rt = Unmounted BY <2>1 DEF RTTypeOK, SuccessMeansVerified, OneVerdict, ChromeNotLeft
  <2>2. CASE rt # Unmounted BY <2>2, RTHolds DEF WInv
  <2> QED BY <2>1, <2>2
<1> QED BY <1>1, <1>2, <1>3, <1>4, <1>5, <1>6, <1>7 DEF AnnouncementsTrue, WaitingPagesTypeOK

LEMMA WAlways == Spec => []WInv
<1>1. Init => WInv BY WInitially
<1>2. WInv /\ [Next]_pages => WInv' BY WStep
<1> QED BY <1>1, <1>2, PTL DEF Spec

(* What is announced is true: the polls of useManualSmokeRunTracking.ts, the  *)
(* alerts and the banner of the manager's health, the session and the      *)
(* login challenge, the storefront watchdog, and the verdict on a rotation *)
(* of the smoke accounts.                                                  *)
THEOREM WhatIsAnnouncedIsTrue == Spec => []AnnouncementsTrue
<1>1. WInv => AnnouncementsTrue BY WAnnounces
<1> QED BY <1>1, WAlways, PTL

(* An answer to an earlier click never supplies the result of the present  *)
(* one: what useManualSmokeRunTracking.ts finds was not known when the *)
(* button was pressed.                                                     *)
THEOREM ResultOfTheClick == Spec => ResultIsNew
<1>1. WInv /\ [Next]_pages
      => [(mr # Unmounted /\ mr' # Unmounted /\ mr'.last \notin {mr.last, NoRun, mr.stored}) =>
            mr.tracking /\ mr'.last \notin mr.known]_mr
  <2> SUFFICES ASSUME WInv, [Next]_pages, mr # Unmounted, mr' # mr, mr'.last \notin {mr.last, NoRun, mr.stored}
               PROVE  mr.tracking /\ mr'.last \notin mr.known
    OBVIOUS
  <2>1. MRNext BY DEF Next, pages
  <2> QED BY <2>1, MRResult DEF WInv
<1> QED BY <1>1, WAlways, PTL DEF Spec, ResultIsNew

(* The notice of a save opens the banner of the list at most once, however *)
(* the user moves between the form and the list meanwhile                  *)
(* (serviceSaveDiagnosis.ts).                                        *)
THEOREM NoticeOnce == Spec => NoticeShownOnce
<1>1. WInv /\ [Next]_pages
      => [(dg # Unmounted /\ dg' # Unmounted /\ dg.page = "form" /\ dg'.page = "list" /\ dg'.banner # NoNotice)
            => dg'.banner.id \notin dg.seen]_dg
  <2> SUFFICES ASSUME WInv, [Next]_pages, dg # Unmounted, dg' # dg, dg.page = "form", dg'.page = "list",
                      dg'.banner # NoNotice
               PROVE  dg'.banner.id \notin dg.seen
    OBVIOUS
  <2>1. DGNext BY DEF Next, pages
  <2> QED BY <2>1, DGNotice DEF WInv
<1> QED BY <1>1, WAlways, PTL DEF Spec, NoticeShownOnce

=============================================================================
