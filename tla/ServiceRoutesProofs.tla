------------------------- MODULE ServiceRoutesProofs -------------------------
(* What holds of ServiceRoutes however the requests overlap: the types, the  *)
(* identity of the rows, and what a synchronisation puts right.  The types   *)
(* are inductive once they say which coroutine may be at which label         *)
(* (Sound); a row is changed by commits alone, which never change an id; and *)
(* a synchronisation is followed through its list (SyncInv), for as long as  *)
(* no coroutine has begun since it read the rows.  The second half is about  *)
(* requests that come one at a time.                                         *)
EXTENDS ServiceRoutes, FiniteSetTheorems, TLAPS

-----------------------------------------------------------------------------
(* Types.                                                                  *)

\* The states of a coroutine.
Job == [pc : Pcs, op : Ops \cup {None}, d : Domains \cup {None},
        svc : Service \cup {None}, base : Service \cup {None}]

\* What is known of a coroutine n in state j: one that runs has an operation,
\* a domain and a service; the monitor only ever writes, saves and commits.
Sound(n, j) ==
  /\ j \in Job
  /\ n = 0 => j.pc \in {"new", "write", "save", "commit"}
  /\ j.pc \notin {"new", "done"} =>
       /\ j.op \in Ops /\ (j.op = "expire" <=> n = 0)
       /\ j.d \in Domains /\ j.svc \in Service

\* Coroutines, and the operations that failed.
JobsSound ==
  /\ job \in [Jobs -> Job]
  /\ \A n \in Jobs : Sound(n, job[n])
  /\ failed \subseteq Ops

\* The count of mishaps stays within its bound.
MishapsTyped == mishaps \in 0..MaxMishaps /\ seen \subseteq Kinds

\* A mishap at most is counted by every action.
LEMMA MishapStep ==
  ASSUME MishapsTyped, NoMishap \/ \E kind \in AllKinds : Mishap(kind)
  PROVE  MishapsTyped'
BY BoundsAssumption DEF MishapsTyped, NoMishap, mishapVars, Mishap

\* An ended coroutine is sound; so is one that has moved on.
LEMMA EndedSound ==
  ASSUME NEW n \in Jobs
  PROVE  Sound(n, Ended(n))
BY DEF Sound, Ended, NoJob, Job, Pcs

\* A coroutine may go on to any label of a request, or of the monitor.
LEMMA MovedSound ==
  ASSUME NEW n \in Jobs, NEW j, Sound(n, j), j.pc \notin {"new", "done"},
         NEW l \in Pcs \ {"new", "done"}, n = 0 => l \in {"write", "save", "commit"},
         NEW s \in Service
  PROVE  /\ Sound(n, [j EXCEPT !.pc = l])
         /\ Sound(n, [j EXCEPT !.pc = l, !.svc = s])
BY DEF Sound, Job

\* An action that moves one coroutine leaves the others as they are.
LEMMA JobStep ==
  ASSUME JobsSound, NEW n \in Jobs, NEW j, Sound(n, j),
         Become(n, j)
  PROVE  JobsSound'
BY DEF JobsSound, Become, Sound

\* So does one that ends it.
LEMMA FailStep ==
  ASSUME JobsSound, NEW n \in Jobs, Busy(n), Fail(n)
  PROVE  JobsSound'
<1>1. Sound(n, Ended(n)) /\ job[n].op \in Ops
  BY EndedSound DEF JobsSound, Busy, Sound
<1>. QED BY <1>1 DEF JobsSound, Fail, Sound

\* The ways in which a call can end.
Ends(n, j) ==
  \/ Answered(n, j) \/ Unnoticed(n, j) \/ Unanswered(n) \/ Refused(n)
  \/ Become(n, j) /\ (NoMishap \/ \E kind \in AllKinds : Mishap(kind))
  \/ Fail(n) /\ (NoMishap \/ \E kind \in AllKinds : Mishap(kind))

\* And a call, whatever way it ends.
LEMMA CallStep ==
  ASSUME JobsSound, MishapsTyped, NEW n \in Jobs, Busy(n), NEW j, Sound(n, j), Ends(n, j)
  PROVE  JobsSound' /\ MishapsTyped'
<1>1. NoMishap \/ \E kind \in AllKinds : Mishap(kind)
  BY DEF Ends, Answered, Unnoticed, Unanswered, Refused, AllKinds
<1>2. Become(n, j) \/ Fail(n)
  BY DEF Ends, Answered, Unnoticed, Unanswered, Refused
<1>. QED BY <1>1, <1>2, MishapStep, JobStep, FailStep

\* Changes of a service that keep it a service.
LEMMA ServiceChanges ==
  ASSUME NEW s \in Service
  PROVE  /\ \A i \in Ids \cup {None} : /\ [s EXCEPT !.prov = i] \in Service
                                       /\ [s EXCEPT !.pol = i] \in Service
                                       /\ [s EXCEPT !.rec = i] \in Service
         /\ [s EXCEPT !.prov = None, !.group = None] \in Service
         /\ \A m \in Modes : SetMode(s, m) \in Service
         /\ \A a \in Auths : SetAuth(s, a) \in Service
         /\ \A g \in Groups \cup {None} : SetGroup(s, g) \in Service
         /\ Updated(s) \subseteq Service
<1>1. /\ \A i \in Ids \cup {None} : /\ [s EXCEPT !.prov = i] \in Service
                                    /\ [s EXCEPT !.pol = i] \in Service
                                    /\ [s EXCEPT !.rec = i] \in Service
      /\ [s EXCEPT !.prov = None, !.group = None] \in Service
  BY DEF Service
<1>2. \A t \in Service : \A m \in Modes : SetMode(t, m) \in Service
  BY DEF Service, SetMode
<1>3. \A t \in Service : \A a \in Auths : SetAuth(t, a) \in Service
  BY DEF Service, SetAuth
<1>4. \A t \in Service : \A g \in Groups \cup {None} : SetGroup(t, g) \in Service
  BY DEF Service, SetGroup
<1>5. Updated(s) \subseteq Service
  BY <1>2, <1>3, <1>4 DEF Updated
<1>. QED BY <1>1, <1>2, <1>3, <1>4, <1>5

\* Every service has a route, or none.
LEMMA RouteTyped ==
  ASSUME NEW s \in Service \cup {None}
  PROVE  RouteOf(s) \in Routes \cup {None}
BY DEF RouteOf, generate, Routes

\* The databases and files outside the coroutines.
StoresTyped ==
  /\ rows \in [Domains -> Service \cup {None}]
  /\ files \in [Domains -> Routes \cup {None}]
  /\ mwFile \in BOOLEAN
  /\ provs \subseteq Ids
  /\ apps \in [Domains -> Ids \cup {None}]
  /\ pols \subseteq Policy
  /\ dns \in [Domains -> Ids \cup {None}]

\* The synchronisation.
SyncTyped == sync \in [pc : {"idle", "read", "write", "middleware"},
                       todo : [Domains -> Service \cup {None}], alone : BOOLEAN]

\* The types of everything, in the parts the actions disturb.
TypeInv == StoresTyped /\ JobsSound /\ SyncTyped /\ MishapsTyped

\* The number of a request is an id.
LEMMA RequestIds ==
  ASSUME NEW n \in Jobs, n # 0
  PROVE  n \in Requests /\ n \in Ids
BY BoundsAssumption DEF Jobs, Requests, Ids

\* The services that are in order at the start are well typed.
LEMMA TypeInit == Init => TypeInv
<1> SUFFICES ASSUME Init PROVE TypeInv
  OBVIOUS
<1>1. ASSUME NEW d \in Domains PROVE SettledRows(d) \subseteq Service \cup {None}
  BY <1>1, ModesAssumption, ZonedAssumption DEF SettledRows, Settled, Service, Ids, Auths
<1>2. rows \in [Domains -> Service \cup {None}]
  BY <1>1 DEF Init
<1>3. files \in [Domains -> Routes \cup {None}]
  BY <1>2, RouteTyped DEF Init
<1>4. provs \subseteq Ids /\ apps \in [Domains -> Ids \cup {None}] /\ mwFile \in BOOLEAN
  BY DEF Init, Ids
<1>5. pols \subseteq Policy
  BY <1>2 DEF Init, Policy, Ids, Service
<1>6. dns \in [Domains -> Ids \cup {None}]
  BY <1>2 DEF Init, Service
<1>7. JobsSound
  BY DEF Init, JobsSound, NoJob, Sound, Job, Pcs
<1>8. SyncTyped /\ MishapsTyped
  BY BoundsAssumption DEF Init, SyncTyped, MishapsTyped
<1>. QED BY <1>2, <1>3, <1>4, <1>5, <1>6, <1>7, <1>8 DEF TypeInv, StoresTyped

\* The first step of an operation.
LEMMA BeginTyped ==
  ASSUME TypeInv, NEW n \in Requests, Begin(n)
  PROVE  TypeInv'
<1> USE DEF authentikVars, mishapVars
<1>0. n \in Jobs /\ n # 0 /\ n \in Ids
  BY BoundsAssumption DEF Requests, Jobs, Ids
<1>1. ASSUME NEW j, Sound(n, j), Become(n, j), Starts(n),
             UNCHANGED <<rows, files, mwFile, authentikVars, dns, mishapVars>>
      PROVE  TypeInv'
  <2>1. JobsSound'
    BY <1>0, <1>1, JobStep DEF TypeInv
  <2>2. SyncTyped'
    BY <1>1 DEF TypeInv, SyncTyped, Starts
  <2>. QED BY <1>1, <2>1, <2>2 DEF TypeInv, StoresTyped, MishapsTyped
<1>2. PICK d \in Domains :
        \/ \E m \in Modes, a \in Auths, g \in Groups \cup {None} : CreateBegin(n, d, m, a, g)
        \/ UpdateBegin(n, d)
        \/ DeleteBegin(n, d)
  BY DEF Begin
<1>3. ASSUME NEW m \in Modes, NEW a \in Auths, NEW g \in Groups \cup {None},
             CreateBegin(n, d, m, a, g)
      PROVE  TypeInv'
  <2> DEFINE s == NewService(n, m, a, g)
             j == [pc |-> IF uses_authentik(s) THEN "provider" ELSE "dns", op |-> "create",
                   d |-> d, svc |-> s, base |-> None]
  <2>1. s \in Service
    BY <1>0 DEF NewService, Service
  <2>2. Sound(n, j)
    BY <1>0, <2>1 DEF Sound, Job, Pcs, Ops
  <2>3. Become(n, j) \/ Become(n, Ended(n))
    BY <1>3 DEF CreateBegin, Finish
  <2>. QED BY <1>0, <1>1, <1>3, <2>2, <2>3, EndedSound DEF CreateBegin
<1>4. CASE UpdateBegin(n, d)
  <2>1. PICK s \in Updated(rows[d]) :
          Become(n, [pc |-> AuthentikChange(rows[d], s), op |-> "update", d |-> d, svc |-> s,
                     base |-> None])
    BY <1>4 DEF UpdateBegin
  <2>2. s \in Service
    BY <1>4, ServiceChanges DEF UpdateBegin, TypeInv, StoresTyped
  <2>3. AuthentikChange(rows[d], s) \in {"teardown", "provider", "clear", "dns"}
    BY DEF AuthentikChange
  <2>4. Sound(n, [pc |-> AuthentikChange(rows[d], s), op |-> "update", d |-> d, svc |-> s,
                  base |-> None])
    BY <1>0, <2>2, <2>3 DEF Sound, Job, Pcs, Ops
  <2>. QED BY <1>1, <1>4, <2>1, <2>4 DEF UpdateBegin
<1>5. CASE DeleteBegin(n, d)
  <2>1. rows[d] \in Service
    BY <1>5 DEF DeleteBegin, TypeInv, StoresTyped
  <2>2. Sound(n, [pc |-> IF uses_authentik(rows[d]) THEN "teardown" ELSE "del_dns",
                  op |-> "delete", d |-> d, svc |-> rows[d], base |-> None])
    BY <1>0, <2>1 DEF Sound, Job, Pcs, Ops
  <2>. QED BY <1>1, <1>5, <2>2 DEF DeleteBegin
<1>. QED BY <1>2, <1>3, <1>4, <1>5

\* The monitor begins a transition.
LEMMA ExpireTyped ==
  ASSUME TypeInv, NEW d \in Domains, ExpireBegin(d)
  PROVE  TypeInv'
<1> USE DEF authentikVars, mishapVars
<1>1. rows[d] \in Service /\ SetMode(rows[d], "active") \in Service
  BY ModesAssumption, ServiceChanges DEF ExpireBegin, TypeInv, StoresTyped
<1>2. 0 \in Jobs
  BY BoundsAssumption DEF Jobs
<1>3. Sound(0, [pc |-> "write", op |-> "expire", d |-> d, svc |-> SetMode(rows[d], "active"),
                base |-> None])
  BY <1>1 DEF Sound, Job, Pcs, Ops
<1>4. JobsSound'
  BY <1>2, <1>3, JobStep DEF ExpireBegin, TypeInv
<1>5. SyncTyped'
  BY DEF ExpireBegin, Starts, TypeInv, SyncTyped
<1>. QED BY <1>4, <1>5 DEF ExpireBegin, TypeInv, StoresTyped, MishapsTyped

\* A policy without its binding keeps its id, and the other policies stay.
LEMMA BindingFacts ==
  ASSUME pols \subseteq Policy, NEW i
  PROVE  /\ BindingGone(i) \subseteq Policy
         /\ \A p \in BindingGone(i) : \E q \in pols : q.id = p.id /\ (p = q \/ p.app = None)
         /\ \A p \in BindingGone(i) : IF p.id = i THEN p.app = None ELSE p \in pols
         /\ \A p \in pols : p.id # i => p \in BindingGone(i)
<1>1. ASSUME NEW p \in pols
      PROVE  LET q == [p EXCEPT !.app = None] IN q \in Policy /\ q.id = p.id /\ q.app = None
  BY <1>1 DEF Policy
<1>2. ASSUME NEW p \in BindingGone(i)
      PROVE  \E q \in pols : p = IF q.id = i THEN [q EXCEPT !.app = None] ELSE q
  BY <1>2 DEF BindingGone
<1>. QED BY <1>1, <1>2 DEF BindingGone

\* One step of a coroutine that runs.
LEMMA StepTyped ==
  ASSUME TypeInv, NEW n \in Jobs, Step(n)
  PROVE  TypeInv'
<1> USE DEF authentikVars
<1>1. Busy(n)
  BY DEF Step, Busy, At, create_proxy_provider, create_application, clear_group_policy,
     sync_group_policy, teardown, delete_application, delete_provider, CountServices,
     sync_cloudflare_record, WriteRoute, rollback_cloudflare_record, delete_cloudflare_record,
     save, DeleteRow, Commit
<1>2. /\ Sound(n, job[n]) /\ job[n] \in Job /\ job[n].pc \in Pcs
      /\ job[n].op \in Ops /\ job[n].d \in Domains /\ job[n].svc \in Service
      /\ n = 0 => job[n].pc \in {"write", "save", "commit"} /\ job[n].op = "expire"
  BY <1>1 DEF TypeInv, JobsSound, Sound, Busy, Job
<1>3. /\ JobsSound /\ MishapsTyped /\ SyncTyped
      /\ rows \in [Domains -> Service \cup {None}]
      /\ files \in [Domains -> Routes \cup {None}]
      /\ mwFile \in BOOLEAN /\ provs \subseteq Ids
      /\ apps \in [Domains -> Ids \cup {None}] /\ pols \subseteq Policy
      /\ dns \in [Domains -> Ids \cup {None}]
  BY DEF TypeInv, StoresTyped
<1>4. n # 0 => n \in Ids
  BY RequestIds
<1>5. ASSUME NEW j, Sound(n, j), Ends(n, j), UNCHANGED sync, StoresTyped'
      PROVE  TypeInv'
  BY <1>1, <1>3, <1>5, CallStep DEF TypeInv, SyncTyped
<1>6. /\ \A l \in Pcs \ {"new", "done"} :
           (n = 0 => l \in {"write", "save", "commit"}) =>
             /\ Sound(n, [job[n] EXCEPT !.pc = l])
             /\ \A s \in Service : Sound(n, [job[n] EXCEPT !.pc = l, !.svc = s])
  BY <1>1, <1>2, MovedSound DEF Busy
<1>7. \A i \in Ids \cup {None} : /\ [job[n].svc EXCEPT !.prov = i] \in Service
                               /\ [job[n].svc EXCEPT !.pol = i] \in Service
                               /\ [job[n].svc EXCEPT !.rec = i] \in Service
  BY <1>2, ServiceChanges
<1>8. [job[n].svc EXCEPT !.prov = None, !.group = None] \in Service
  BY <1>2, ServiceChanges
<1> HIDE DEF Ends
<1>a. CASE create_proxy_provider(n)
  <2>1. Sound(n, [job[n] EXCEPT !.pc = "application"])
    BY <1>a, <1>2, <1>6 DEF create_proxy_provider, At, Pcs
  <2>2. Ends(n, [job[n] EXCEPT !.pc = "application"]) /\ UNCHANGED sync
    BY <1>a DEF create_proxy_provider, Ends
  <2>3. StoresTyped'
    BY <1>a, <1>2, <1>3, <1>4 DEF create_proxy_provider, At, StoresTyped
  <2>. QED BY <2>1, <2>2, <2>3, <1>5
<1>b. CASE create_application(n)
  <2>0. n # 0
    BY <1>b, <1>2 DEF create_application, At
  <2>1. Sound(n, [job[n] EXCEPT !.pc = "clear", !.svc.prov = n])
    BY <1>4, <1>6, <1>7, <2>0 DEF Pcs
  <2>2. Ends(n, [job[n] EXCEPT !.pc = "clear", !.svc.prov = n]) /\ UNCHANGED sync
    BY <1>b DEF create_application, Ends
  <2>3. StoresTyped'
    BY <1>b, <1>2, <1>3, <1>4, <2>0 DEF create_application, StoresTyped
  <2>. QED BY <2>1, <2>2, <2>3, <1>5
<1>c. ASSUME NEW next \in {"policy", "del_application"}, n # 0, DeletePolicy(n, next)
      PROVE  TypeInv'
  <2> DEFINE j == [job[n] EXCEPT !.pc = next, !.svc.pol = None]
  <2>1. Sound(n, j)
    BY <1>c, <1>6, <1>7 DEF Pcs
  <2>2. Ends(n, j) /\ UNCHANGED sync
    BY <1>c DEF DeletePolicy, Ends
  <2>3. StoresTyped'
    BY <1>c, <1>3 DEF DeletePolicy, StoresTyped
  <2>. QED BY <2>1, <2>2, <2>3, <1>5
<1>9. ASSUME NEW deleting \in {"clear_policy", "teardown_policy"},
             NEW cleared \in {"policy", "del_application"}, n # 0,
             DeleteBinding(n, deleting, cleared)
      PROVE  TypeInv'
  <2> DEFINE j == [job[n] EXCEPT !.pc = cleared]
             k == [job[n] EXCEPT !.pc = deleting]
  <2>1. Sound(n, j) /\ Sound(n, k)
    BY <1>9, <1>6 DEF Pcs
  <2>2. (Ends(n, j) \/ Ends(n, k)) /\ UNCHANGED sync
    BY <1>9 DEF DeleteBinding, Ends
  <2>3. StoresTyped'
    BY <1>9, <1>3, BindingFacts DEF DeleteBinding, StoresTyped
  <2>. QED BY <2>1, <2>2, <2>3, <1>5
<1>d. CASE clear_group_policy(n) \/ teardown(n)
  BY <1>9, <1>c, <1>d, <1>2 DEF clear_group_policy, teardown, At
<1>e. CASE sync_group_policy(n)
  <2> DEFINE j == job[n]
             app == IF SettingUp(n) THEN n ELSE apps[j.d]
             policy == [id |-> n, app |-> app, group |-> j.svc.group]
             plain == [j EXCEPT !.pc = "dns"]
             bound == [j EXCEPT !.pc = "dns", !.svc.pol = n]
  <2>0. n # 0 /\ n \in Ids
    BY <1>e, <1>2, <1>4 DEF sync_group_policy, At
  <2>1. Sound(n, plain) /\ Sound(n, bound)
    BY <1>6, <1>7, <2>0 DEF Pcs
  <2>2. Ends(n, plain) \/ Ends(n, bound)
    BY <1>e DEF sync_group_policy, AfterPolicy, Ends, AllKinds
  <2>3. app # None /\ j.svc.group # None =>
          policy \in Policy /\ [policy EXCEPT !.app = None] \in Policy
    BY <1>2, <1>3, <2>0 DEF Policy, Service
  <2>4. pols' \subseteq Policy
    BY <1>e, <1>3, <2>3 DEF sync_group_policy
  <2>5. mwFile' \in BOOLEAN
    BY <1>e, <1>3 DEF sync_group_policy, AfterPolicy
  <2>6. UNCHANGED <<rows, files, provs, apps, dns, sync>>
    BY <1>e DEF sync_group_policy
  <2>7. StoresTyped'
    BY <1>3, <2>4, <2>5, <2>6 DEF StoresTyped
  <2>. QED BY <2>1, <2>2, <2>6, <2>7, <1>5
<1>f. CASE delete_application(n)
  <2>0. n # 0
    BY <1>f, <1>2 DEF delete_application, At
  <2>1. Sound(n, [job[n] EXCEPT !.pc = "del_provider"])
    BY <1>6, <2>0 DEF Pcs
  <2>2. Ends(n, [job[n] EXCEPT !.pc = "del_provider"]) /\ UNCHANGED sync
    BY <1>f DEF delete_application, Ends
  <2>3. StoresTyped'
    BY <1>f, <1>2, <1>3 DEF delete_application, StoresTyped
  <2>. QED BY <2>1, <2>2, <2>3, <1>5
<1>g. CASE delete_provider(n)
  <2> DEFINE next == IF job[n].op = "delete" THEN "del_dns" ELSE "count"
             j == [job[n] EXCEPT !.pc = next, !.svc.prov = None, !.svc.group = None]
  <2>0. n # 0
    BY <1>g, <1>2 DEF delete_provider, At
  <2> DEFINE s == [job[n].svc EXCEPT !.prov = None, !.group = None]
  <2>a. next \in Pcs \ {"new", "done"}
    BY DEF Pcs
  <2>b. Sound(n, [job[n] EXCEPT !.pc = next, !.svc = s])
    BY <1>6, <1>8, <2>0, <2>a
  <2>c. j = [job[n] EXCEPT !.pc = next, !.svc = s]
    BY <1>2 DEF Job, Service
  <2>1. Sound(n, j)
    BY <2>b, <2>c
  <2>2. Ends(n, j) /\ UNCHANGED sync
    BY <1>g DEF delete_provider, Ends
  <2>3. StoresTyped'
    BY <1>g, <1>3 DEF delete_provider, StoresTyped
  <2>. QED BY <2>1, <2>2, <2>3, <1>5
<1>h. CASE CountServices(n)
  <2> DEFINE j == [job[n] EXCEPT !.pc = IF job[n].op = "delete" THEN "commit" ELSE "dns"]
  <2>0. n # 0
    BY <1>h, <1>2 DEF CountServices, At
  <2>1. Sound(n, j)
    BY <1>6, <2>0 DEF Pcs
  <2>2. Ends(n, j) /\ UNCHANGED sync
    BY <1>h DEF CountServices, Ends, Goto, AllKinds
  <2>3. StoresTyped'
    BY <1>h, <1>3 DEF CountServices, StoresTyped
  <2>. QED BY <2>1, <2>2, <2>3, <1>5
<1>i. CASE sync_cloudflare_record(n)
  <2> DEFINE d == job[n].d
             rec == IF d \in Zoned THEN upsert_service_dns_record(n, d) ELSE None
             j == [job[n] EXCEPT !.pc = "write", !.svc.rec = rec]
  <2>0. n # 0
    BY <1>i, <1>2 DEF sync_cloudflare_record, At
  <2>1. rec \in Ids \cup {None}
    BY <1>2, <1>3, <1>4, <2>0 DEF upsert_service_dns_record
  <2>2. Sound(n, j)
    BY <1>6, <1>7, <2>0, <2>1 DEF Pcs
  <2>3. Ends(n, j) /\ UNCHANGED sync
    BY <1>i DEF sync_cloudflare_record, Ends
  <2>4. StoresTyped'
    BY <1>i, <1>2, <1>3, <2>1 DEF sync_cloudflare_record, StoresTyped
  <2>. QED BY <2>2, <2>3, <2>4, <1>5
<1>j. CASE WriteRoute(n)
  <2> DEFINE saving == [job[n] EXCEPT !.pc = "save"]
             undoing == [job[n] EXCEPT !.pc = "undo"]
  <2>1. Sound(n, saving) /\ (n # 0 => Sound(n, undoing))
    BY <1>6 DEF Pcs
  <2>2. UNCHANGED sync /\ (Ends(n, saving) \/ (n # 0 /\ Ends(n, undoing)))
    BY <1>j, <1>2 DEF WriteRoute, RollBack, Ends, Goto, AllKinds
  <2>3. StoresTyped'
    BY <1>j, <1>2, <1>3, RouteTyped DEF WriteRoute, RollBack, StoresTyped
  <2>. QED BY <2>1, <2>2, <2>3, <1>5
<1>k. CASE rollback_cloudflare_record(n)
  <2>1. Ends(n, job[n]) /\ UNCHANGED sync
    BY <1>k DEF rollback_cloudflare_record, Ends, AllKinds
  <2>2. StoresTyped'
    BY <1>k, <1>2, <1>3 DEF rollback_cloudflare_record, DnsDeleted, StoresTyped
  <2>. QED BY <1>2, <2>1, <2>2, <1>5
<1>l. CASE delete_cloudflare_record(n)
  <2>0. n # 0
    BY <1>l, <1>2 DEF delete_cloudflare_record, At
  <2>1. Sound(n, [job[n] EXCEPT !.pc = "del_row"])
    BY <1>6, <2>0 DEF Pcs
  <2>2. Ends(n, [job[n] EXCEPT !.pc = "del_row"]) /\ UNCHANGED sync
    BY <1>l DEF delete_cloudflare_record, Ends, Goto, AllKinds
  <2>3. StoresTyped'
    BY <1>l, <1>2, <1>3 DEF delete_cloudflare_record, DnsDeleted, StoresTyped
  <2>. QED BY <2>1, <2>2, <2>3, <1>5
<1>m. CASE save(n)
  <2> DEFINE r == rows[job[n].d]
             j == [job[n] EXCEPT !.pc = "commit",
                     !.base = IF r # None /\ r.id = job[n].svc.id THEN r ELSE None]
  <2>a. (IF r # None /\ r.id = job[n].svc.id THEN r ELSE None) \in Service \cup {None}
    BY <1>2, <1>3
  <2>b. j \in Job
    BY <1>2, <2>a DEF Job, Pcs
  <2> DEFINE undoing == [job[n] EXCEPT !.pc = "undo"]
  <2>c. n # 0 => Sound(n, undoing)
    BY <1>6 DEF Pcs
  <2>d. Sound(n, j)
    BY <1>1, <1>2, <2>b DEF Sound, Job, Busy
  <2>1. Sound(n, j) /\ (n # 0 => Sound(n, undoing))
    BY <2>c, <2>d
  <2>2. UNCHANGED sync /\ (Ends(n, j) \/ (n # 0 /\ Ends(n, undoing)))
    BY <1>m, <1>2 DEF save, RollBack, Ends, Goto, AllKinds
  <2>3. StoresTyped'
    BY <1>m, <1>2, <1>3 DEF save, RollBack, StoresTyped
  <2>. QED BY <2>1, <2>2, <2>3, <1>5
<1>n. CASE DeleteRow(n)
  <2> DEFINE j == [job[n] EXCEPT !.pc = IF uses_authentik(job[n].svc) THEN "count" ELSE "commit"]
  <2>0. n # 0
    BY <1>n, <1>2 DEF DeleteRow, At
  <2>1. Sound(n, j)
    BY <1>6, <2>0 DEF Pcs
  <2>2. Ends(n, j) /\ UNCHANGED sync /\ StoresTyped'
    BY <1>n, <1>3 DEF DeleteRow, Ends, Goto, StoresTyped
  <2>. QED BY <2>1, <2>2, <1>5
<1>o. CASE Commit(n)
  <2>1. NewRow(n) \in Service \cup {None} \/ ~Committable(n)
    <3>1. CASE job[n].op = "delete" \/ job[n].base \in {None, job[n].svc}
      BY <3>1, <1>2, <1>3 DEF NewRow
    <3>2. CASE job[n].op # "delete" /\ job[n].base \notin {None, job[n].svc}
      <4> DEFINE r == rows[job[n].d]
                 b == job[n].base
                 s == job[n].svc
      <4>1. CASE r = None
        BY <3>2, <4>1 DEF Committable
      <4>2. CASE r # None
        <5>1. r \in Service /\ s \in Service
          BY <4>2, <1>2, <1>3
        <5>2. NewRow(n) = [f \in DOMAIN r |-> IF s[f] # b[f] THEN s[f] ELSE r[f]]
          BY <3>2 DEF NewRow
        <5>3. [f \in DOMAIN r |-> IF s[f] # b[f] THEN s[f] ELSE r[f]] \in Service
          BY <5>1 DEF Service
        <5>. QED BY <5>2, <5>3
      <4>. QED BY <4>1, <4>2
    <3>. QED BY <3>1, <3>2
  <2>2. rows' \in [Domains -> Service \cup {None}]
    BY <1>o, <1>2, <1>3, <2>1 DEF Commit
  <2>3. Sound(n, Ended(n))
    BY EndedSound
  <2>4. Ends(n, Ended(n)) /\ UNCHANGED sync
    BY <1>o DEF Commit, Ends, Finish, AllKinds
  <2>5. StoresTyped'
    BY <1>o, <1>3, <2>2 DEF Commit, StoresTyped
  <2>. QED BY <2>3, <2>4, <2>5, <1>5
<1>. QED BY <1>a, <1>b, <1>d, <1>e, <1>f, <1>g, <1>h, <1>i, <1>j, <1>k, <1>l, <1>m, <1>n,
            <1>o DEF Step

\* The synchronisation takes a step.
LEMMA SyncStepTyped ==
  ASSUME TypeInv, SyncStep
  PROVE  TypeInv'
<1> USE DEF authentikVars, mishapVars
<1>1. CASE SyncRead
  BY <1>1 DEF SyncRead, TypeInv, StoresTyped, SyncTyped, JobsSound, MishapsTyped, Quiet
<1>2. ASSUME NEW d \in Domains, SyncWrite(d) PROVE TypeInv'
  <2>1. sync.todo[d] \in Service \cup {None}
    BY DEF TypeInv, SyncTyped
  <2>2. MishapsTyped'
    BY <1>2, MishapStep DEF SyncWrite, TypeInv, AllKinds
  <2>3. StoresTyped'
    BY <1>2, <2>1, RouteTyped DEF SyncWrite, TypeInv, StoresTyped
  <2>4. SyncTyped'
    BY <1>2 DEF SyncWrite, TypeInv, SyncTyped
  <2>. QED BY <1>2, <2>2, <2>3, <2>4 DEF SyncWrite, TypeInv, JobsSound
<1>3. CASE SyncWritten \/ SyncMiddleware
  BY <1>3 DEF SyncWritten, SyncMiddleware, OthersUse, TypeInv, StoresTyped, SyncTyped, JobsSound,
     MishapsTyped
<1>4. CASE SyncFails
  <2>1. MishapsTyped'
    BY <1>4, MishapStep DEF SyncFails, TypeInv, AllKinds
  <2>. QED BY <1>4, <2>1 DEF SyncFails, TypeInv, StoresTyped, SyncTyped, JobsSound
<1>. QED BY <1>1, <1>2, <1>3, <1>4 DEF SyncStep

\* The process is killed.
LEMMA KilledTyped ==
  ASSUME TypeInv, Killed
  PROVE  TypeInv'
<1> USE DEF authentikVars
<1>1. MishapsTyped'
  BY MishapStep DEF Killed, TypeInv, AllKinds
<1>2. \A n \in Jobs : Sound(n, Ended(n)) /\ Ended(n) \in Job
  BY EndedSound DEF Sound
<1>3. \A n \in Jobs : Busy(n) => job[n].op \in Ops
  BY DEF TypeInv, JobsSound, Busy, Sound
<1>4. JobsSound'
  BY <1>2, <1>3 DEF Killed, TypeInv, JobsSound
<1>. QED BY <1>1, <1>4 DEF Killed, TypeInv, StoresTyped, SyncTyped

\* Every action keeps the types.
LEMMA TypeStep == TypeInv /\ [Next]_vars => TypeInv'
<1> SUFFICES ASSUME TypeInv, [Next]_vars PROVE TypeInv'
  OBVIOUS
<1>1. CASE UNCHANGED vars
  BY <1>1 DEF vars, authentikVars, mishapVars, TypeInv, StoresTyped, JobsSound, SyncTyped,
     MishapsTyped
<1>. QED BY <1>1, BeginTyped, ExpireTyped, StepTyped, SyncStepTyped, KilledTyped DEF Next

\* The variables keep their types: no operation stores anything but a
\* service, no coroutine leaves its own labels, whatever overlaps and fails.
THEOREM ServicesTyped == Spec => []TypeOK
<1>1. TypeInv => TypeOK
  BY DEF TypeInv, StoresTyped, JobsSound, SyncTyped, MishapsTyped, TypeOK, Job
<1>. QED BY <1>1, TypeInit, TypeStep, PTL DEF Spec

-----------------------------------------------------------------------------
(* The rows.                                                               *)

\* What RowsKeepIdentity asks of one step.
KeepsIdentity ==
  \A d \in Domains : rows[d] # None /\ rows'[d] # rows[d] =>
    \/ rows'[d] # None /\ rows'[d].id = rows[d].id
    \/ /\ rows'[d] = None
       /\ \E n \in Requests : /\ job[n].op = "delete" /\ job[n].svc.id = rows[d].id
                              /\ At(n, "commit") /\ job'[n].pc = "done"

\* A commit that changes a row deletes the very service, or merges columns of it.
LEMMA CommitKeepsIdentity ==
  ASSUME TypeInv, NEW n \in Jobs, Commit(n)
  PROVE  KeepsIdentity
<1> DEFINE j == job[n]
           r == rows[job[n].d]
<1>1. /\ j.pc = "commit" /\ j \in Job /\ j.op \in Ops /\ j.d \in Domains /\ j.svc \in Service
      /\ j.op = "expire" <=> n = 0
      /\ rows \in [Domains -> Service \cup {None}]
  BY DEF Commit, At, TypeInv, JobsSound, Sound, StoresTyped
<1>2. CASE rows' = rows
  BY <1>2 DEF KeepsIdentity
<1>3. CASE Committable(n) /\ rows' = [rows EXCEPT ![j.d] = NewRow(n)] /\ Finish(n)
  <2>1. SUFFICES ASSUME r # None, NewRow(n) # r
                 PROVE  \/ NewRow(n) # None /\ NewRow(n).id = r.id
                        \/ /\ NewRow(n) = None
                           /\ j.op = "delete" /\ j.svc.id = r.id
                           /\ n \in Requests /\ job'[n].pc = "done"
    BY <1>1, <1>3 DEF KeepsIdentity, At
  <2>2. r \in Service
    BY <1>1, <2>1
  <2>3. CASE j.op = "delete"
    <3>1. NewRow(n) = None /\ j.svc.id = r.id
      BY <2>1, <2>3 DEF NewRow
    <3>2. n # 0
      BY <1>1, <2>3
    <3>3. job'[n].pc = "done"
      BY <1>3, <3>2 DEF Finish, Become, Ended, NoJob, TypeInv, JobsSound
    <3>. QED BY <2>3, <3>1, <3>2, <3>3, RequestIds
  <2>4. CASE j.op # "delete" /\ j.base = None
    BY <1>1, <1>3, <2>1, <2>4, NoServiceAssumption DEF Committable
  <2>5. CASE j.op # "delete" /\ j.base # None /\ j.base = j.svc
    BY <2>1, <2>5, NoServiceAssumption DEF NewRow
  <2>6. CASE j.op # "delete" /\ j.base # None /\ j.base # j.svc
    <3>1. r.id = j.svc.id
      BY <1>3, <2>6 DEF Committable
    <3>2. NewRow(n) = [f \in DOMAIN r |-> IF j.svc[f] # j.base[f] THEN j.svc[f] ELSE r[f]]
      BY <2>6 DEF NewRow
    <3>3. NewRow(n) \in Service
      BY <1>1, <2>2, <3>2 DEF Service
    <3>4. NewRow(n).id = r.id
      BY <1>1, <2>2, <3>1, <3>2 DEF Service
    <3>. QED BY <3>3, <3>4, NoServiceAssumption
  <2>. QED BY <2>3, <2>4, <2>5, <2>6
<1>. QED BY <1>2, <1>3 DEF Commit

\* No other action changes a row.
LEMMA IdentityStep == TypeInv /\ [Next]_vars => [KeepsIdentity]_vars
<1> SUFFICES ASSUME TypeInv, Next PROVE KeepsIdentity
  OBVIOUS
<1>0. ASSUME rows' = rows PROVE KeepsIdentity
  BY <1>0 DEF KeepsIdentity
<1>1. ASSUME NEW n \in Requests, Begin(n) PROVE KeepsIdentity
  BY <1>0, <1>1 DEF Begin, CreateBegin, UpdateBegin, DeleteBegin
<1>2. ASSUME NEW d \in Domains, ExpireBegin(d) PROVE KeepsIdentity
  BY <1>0, <1>2 DEF ExpireBegin
<1>3. ASSUME NEW n \in Jobs, Step(n) PROVE KeepsIdentity
  <2>1. CASE Commit(n)
    BY <2>1, CommitKeepsIdentity
  <2>2. CASE ~Commit(n)
    BY <1>0, <1>3, <2>2 DEF Step, create_proxy_provider, create_application, clear_group_policy,
       sync_group_policy, teardown, DeleteBinding, DeletePolicy, delete_application, delete_provider,
       CountServices, sync_cloudflare_record, WriteRoute, RollBack, rollback_cloudflare_record,
       delete_cloudflare_record,
       save, DeleteRow
  <2>. QED BY <2>1, <2>2
<1>4. CASE SyncStep
  BY <1>0, <1>4 DEF SyncStep, SyncRead, SyncWrite, SyncWritten, SyncMiddleware, SyncFails
<1>5. CASE Killed
  BY <1>0, <1>5 DEF Killed
<1>. QED BY <1>1, <1>2, <1>3, <1>4, <1>5 DEF Next

\* However many requests overlap on a domain or on one service, and whatever
\* fails, a row goes only with the commit of a deletion of that very service,
\* and no other service takes its place: the columns merged at a commit never
\* include the id, and an insert is refused while the domain is taken.
THEOREM IdentityKept == Spec => RowsKeepIdentity
<1>1. RowsKeepIdentity <=> [][KeepsIdentity]_vars
  BY DEF RowsKeepIdentity, KeepsIdentity
<1>. QED BY <1>1, TypeInit, TypeStep, IdentityStep, PTL DEF Spec

-----------------------------------------------------------------------------
(* The start-up synchronisation.                                           *)

\* What the synchronisation has put right so far, when it has run alone.
SyncInv == sync.alone =>
  /\ \A n \in Jobs : ~Busy(n)
  /\ sync.pc # "read"
  /\ sync.pc = "write" =>
       \A d \in Domains : /\ sync.todo[d] \in {None, rows[d]}
                          /\ rows[d] # None /\ sync.todo[d] = None => files[d] = RouteOf(rows[d])
  /\ sync.pc \in {"middleware", "idle"} =>
       \A d \in Domains : rows[d] # None => files[d] = RouteOf(rows[d])
  /\ sync.pc = "idle" =>
       \A d \in Domains : rows[d] # None /\ uses_authentik(rows[d]) => mwFile

\* A count of nothing means that no coroutine runs.
LEMMA QuietMeansIdle == Quiet => \A n \in Jobs : ~Busy(n)
<1> DEFINE Running == {n \in Jobs : Busy(n)}
<1>1. IsFiniteSet(Running) /\ Cardinality(Running) \in Nat
  BY BoundsAssumption, FS_Interval, FS_Subset, FS_CardinalityType, 0 \in Int, MaxRequests \in Int
     DEF Jobs
<1>2. Quiet => Cardinality(Running) = 0
  BY <1>1 DEF Quiet, ActiveCount
<1>3. Cardinality(Running) = 0 => Running = {}
  BY <1>1, FS_EmptySet
<1>. QED BY <1>2, <1>3

\* Only a coroutine that runs takes a step.
LEMMA StepIsBusy ==
  ASSUME NEW n \in Jobs, Step(n)
  PROVE  Busy(n)
BY DEF Step, Busy, At, create_proxy_provider, create_application, clear_group_policy,
   sync_group_policy, teardown, delete_application, delete_provider, CountServices,
   sync_cloudflare_record, WriteRoute, rollback_cloudflare_record, delete_cloudflare_record,
   save, DeleteRow, Commit

\* Each step of the synchronisation puts right what it is about.
LEMMA SyncInvStep == TypeInv /\ SyncInv /\ [Next]_vars => SyncInv'
<1> SUFFICES ASSUME TypeInv, SyncInv, [Next]_vars PROVE SyncInv'
  OBVIOUS
<1>t. SyncTyped
  BY DEF TypeInv
<1>1. ASSUME NEW n \in Jobs, Starts(n) PROVE SyncInv'
  BY <1>1, <1>t DEF Starts, SyncInv, SyncTyped
<1>2. ASSUME NEW n \in Requests, Begin(n) PROVE SyncInv'
  <2>1. n \in Jobs
    BY BoundsAssumption DEF Requests, Jobs
  <2>2. Starts(n)
    BY <1>2 DEF Begin, CreateBegin, UpdateBegin, DeleteBegin
  <2>. QED BY <1>1, <2>1, <2>2
<1>3. ASSUME NEW d \in Domains, ExpireBegin(d) PROVE SyncInv'
  <2>1. 0 \in Jobs
    BY BoundsAssumption DEF Jobs
  <2>. QED BY <1>1, <1>3, <2>1 DEF ExpireBegin
<1>4. ASSUME NEW n \in Jobs, Step(n) PROVE SyncInv'
  <2>1. UNCHANGED sync
    BY <1>4 DEF Step, create_proxy_provider, create_application, clear_group_policy,
       sync_group_policy, teardown, DeleteBinding, DeletePolicy, delete_application, delete_provider,
       CountServices, sync_cloudflare_record, WriteRoute, RollBack, rollback_cloudflare_record,
       delete_cloudflare_record,
       save, DeleteRow, Commit
  <2>. QED BY <1>4, <2>1, StepIsBusy DEF SyncInv
<1>5. CASE SyncRead
  BY <1>5, <1>t, QuietMeansIdle DEF SyncRead, SyncInv, Busy
<1>6. ASSUME NEW d \in Domains, SyncWrite(d) PROVE SyncInv'
  <2> SUFFICES ASSUME sync'.alone PROVE SyncInv'
    BY DEF SyncInv
  <2>1. /\ files' = [files EXCEPT ![d] = RouteOf(sync.todo[d])]
        /\ sync' = [sync EXCEPT !.todo[d] = None]
    BY <1>6, <1>t DEF SyncWrite, SyncTyped
  <2>2. sync.alone /\ sync.pc = "write" /\ sync.todo[d] = rows[d] /\ UNCHANGED <<rows, job>>
    BY <1>6, <1>t, <2>1 DEF SyncWrite, SyncInv, SyncTyped
  <2>3. sync'.pc = "write" /\ sync'.todo = [sync.todo EXCEPT ![d] = None]
    BY <1>t, <2>1, <2>2 DEF SyncTyped
  <2>4. files \in [Domains -> Routes \cup {None}] /\ sync.todo \in [Domains -> Service \cup {None}]
    BY <1>t DEF SyncTyped, TypeInv, StoresTyped
  <2>5. ASSUME NEW e \in Domains
        PROVE  /\ sync'.todo[e] \in {None, rows'[e]}
               /\ rows'[e] # None /\ sync'.todo[e] = None => files'[e] = RouteOf(rows'[e])
    BY <2>1, <2>2, <2>3, <2>4 DEF SyncInv
  <2>6. \A n \in Jobs : ~Busy(n)'
    BY <2>2 DEF SyncInv, Busy
  <2>. QED BY <2>3, <2>5, <2>6 DEF SyncInv
<1>7. CASE SyncWritten
  BY <1>7, <1>t DEF SyncWritten, SyncInv, SyncTyped, Busy
<1>8. CASE SyncMiddleware
  <2>1. \A d \in Domains : rows[d] # None => rows[d].id # None
    <3>1. \A d \in Domains : rows[d] # None => rows[d] \in Service
      BY DEF TypeInv, StoresTyped
    <3>2. None \notin Ids
      BY NoneAssumption, BoundsAssumption DEF Ids, Requests
    <3>. QED BY <3>1, <3>2 DEF Service
  <2>. QED BY <1>8, <1>t, <2>1 DEF SyncMiddleware, OthersUse, SyncInv, SyncTyped, Busy
<1>9. CASE SyncFails \/ Killed
  BY <1>9 DEF SyncFails, Killed, SyncInv
<1>10. CASE UNCHANGED vars
  BY <1>10 DEF vars, SyncInv, Busy
<1>. QED BY <1>2, <1>3, <1>4, <1>5, <1>6, <1>7, <1>8, <1>9, <1>10 DEF Next, SyncStep

\* Whatever overlapped, failed or was killed before it, a synchronisation
\* during which no coroutine began leaves every row with its route, and the
\* middleware file where it is needed, until the next coroutine begins.
THEOREM SynchronisationRepairs == Spec => []SyncRepairs
<1>1. Init => SyncInv
  BY DEF Init, SyncInv
<1>2. SyncInv => SyncRepairs
  BY DEF SyncInv, SyncRepairs
<1>. QED BY <1>1, <1>2, TypeInit, TypeStep, SyncInvStep, PTL DEF Spec

-----------------------------------------------------------------------------
(* What holds when the requests come one at a time.  The inductive           *)
(* invariants say how far each store is ahead of the row of the only         *)
(* coroutine's domain:                                                       *)
(*   OneAtATime        one coroutine, that has the row to itself;            *)
(*   RoutesFollow      the route file is as the row says before the write,   *)
(*                     and as the commit will make the row after it;         *)
(*   RecordsFollow     the same of the Cloudflare record;                    *)
(*   NothingLeft       every provider, policy, record, file and the          *)
(*                     middleware file belongs to a row, or to the service   *)
(*                     of the coroutine, also when a deletion ends early;    *)
(*   IdsFresh          nothing exists yet that a request is yet to make;     *)
(*   AuthentikFollows  the coroutine finds at Authentik what the label it    *)
(*                     has reached expects.                                  *)
(* First comes the effect of every step, stated once: the coroutine has      *)
(* moved on to a label with a service, or it has stopped.                    *)

\* The commands of each operation.
PcsOf(op) ==
  CASE op = "create" -> {"provider", "application", "clear", "clear_policy", "policy", "dns",
                         "write", "undo", "save", "commit"}
    [] op = "update" -> {"provider", "application", "clear", "clear_policy", "policy",
                         "teardown", "teardown_policy", "del_application", "del_provider",
                         "count", "dns", "write", "save", "commit"}
    [] op = "delete" -> {"teardown", "teardown_policy", "del_application", "del_provider",
                         "del_dns", "del_row", "count", "commit"}
    [] op = "expire" -> {"write", "save", "commit"}

\* A coroutine n in state j that has the row of its domain to itself.
Fits(n, j) ==
  /\ j.pc \in PcsOf(j.op)
  /\ j.op = "create" => rows[j.d] = None /\ j.base = None /\ j.svc.id = n
  /\ j.op # "create" => rows[j.d] # None /\ rows[j.d].id = j.svc.id
  /\ j.op \in {"update", "expire"} /\ j.pc = "commit" => j.base = rows[j.d]

\* With one active coroutine at most, none runs when another begins.
LEMMA AloneAtStart ==
  ASSUME Serial, ActiveCount < MaxActive
  PROVE  (\A n \in Jobs : ~Busy(n)) /\ ~Syncing
<1> DEFINE Running == {n \in Jobs : Busy(n)}
<1>1. IsFiniteSet(Running) /\ Cardinality(Running) \in Nat
  BY BoundsAssumption, FS_Interval, FS_Subset, FS_CardinalityType, 0 \in Int, MaxRequests \in Int
     DEF Jobs
<1>2. Cardinality(Running) = 0 /\ ~Syncing
  BY <1>1 DEF Serial, ActiveCount
<1>3. Cardinality(Running) = 0 => Running = {}
  BY <1>1, FS_EmptySet
<1>. QED BY <1>2, <1>3

\* What every step of a coroutine leaves alone, and what is known of it.
LEMMA StepFacts ==
  ASSUME TypeInv, NEW n \in Jobs, Step(n)
  PROVE  /\ Busy(n) /\ Sound(n, job[n]) /\ job[n] \in Job
         /\ job[n].op \in Ops /\ job[n].d \in Domains /\ job[n].svc \in Service
         /\ n # 0 => n \in Ids
         /\ job \in [Jobs -> Job]
         /\ \A m \in Jobs \ {n} : job'[m] = job[m]
         /\ UNCHANGED sync
<1>1. Busy(n) /\ UNCHANGED sync
  BY StepIsBusy DEF Step, create_proxy_provider, create_application, clear_group_policy,
       sync_group_policy, teardown, DeleteBinding, DeletePolicy, delete_application, delete_provider,
       CountServices, sync_cloudflare_record, WriteRoute, RollBack, rollback_cloudflare_record,
       delete_cloudflare_record,
       save, DeleteRow, Commit
<1>2. /\ Sound(n, job[n]) /\ job[n] \in Job /\ job \in [Jobs -> Job]
      /\ job[n].op \in Ops /\ job[n].d \in Domains /\ job[n].svc \in Service
  BY <1>1 DEF TypeInv, JobsSound, Sound, Busy
<1>3. \E j : job' = [job EXCEPT ![n] = j]
  BY DEF Step, create_proxy_provider, create_application, clear_group_policy,
       sync_group_policy, teardown, DeleteBinding, DeletePolicy, delete_application, delete_provider,
       CountServices, sync_cloudflare_record, WriteRoute, RollBack, rollback_cloudflare_record,
       delete_cloudflare_record,
       save, DeleteRow, Commit, AfterPolicy, Answered, Unanswered, Refused, Unnoticed, Goto,
       Finish, Fail, Become
<1>4. \A m \in Jobs \ {n} : job'[m] = job[m]
  BY <1>2, <1>3
<1>. QED BY <1>1, <1>2, <1>4, RequestIds

\* Only a commit changes the rows.
LEMMA RowsStep ==
  ASSUME NEW n \in Jobs, Step(n)
  PROVE  Commit(n) \/ UNCHANGED rows
BY DEF Step, create_proxy_provider, create_application, clear_group_policy,
   sync_group_policy, teardown, DeleteBinding, DeletePolicy, delete_application, delete_provider,
   CountServices, sync_cloudflare_record, WriteRoute, RollBack, rollback_cloudflare_record,
   delete_cloudflare_record,
   save, DeleteRow

\* An ended coroutine is not busy, and a request never begins again.
LEMMA EndedIdle ==
  ASSUME NEW n \in Jobs, job \in [Jobs -> Job], job' = [job EXCEPT ![n] = Ended(n)]
  PROVE  ~Busy(n)' /\ (n # 0 => job'[n].pc = "done")
BY DEF Busy, Ended, NoJob, Job

\* Coroutine n has moved on to label l with service s; or it has stopped with
\* its operation counted as failed.
Moved(n, l, s) ==
  /\ Busy(n)' /\ failed' = failed
  /\ job'[n].pc = l /\ job'[n].svc = s
  /\ job'[n].op = job[n].op /\ job'[n].d = job[n].d /\ job'[n].base = job[n].base

\* Coroutine n has stopped, its operation counted as failed.
Stopped(n) ==
  ~Busy(n)' /\ (n # 0 => job'[n].pc = "done") /\ failed' = failed \cup {job[n].op}

\* To go to a label is to have moved on.
LEMMA Moving ==
  ASSUME NEW n \in Jobs, job \in [Jobs -> Job], NEW l \in Pcs \ {"new", "done"}, NEW s \in Service
  PROVE  /\ Become(n, [job[n] EXCEPT !.pc = l, !.svc = s]) => Moved(n, l, s)
         /\ Become(n, [job[n] EXCEPT !.pc = l]) => Moved(n, l, job[n].svc)
BY DEF Become, Moved, Busy, Job

\* To fail is to have stopped; to finish is to have ended without a failure.
LEMMA Stopping ==
  ASSUME NEW n \in Jobs, job \in [Jobs -> Job]
  PROVE  /\ Fail(n) => Stopped(n)
         /\ Finish(n) => ~Busy(n)' /\ (n # 0 => job'[n].pc = "done") /\ failed' = failed
BY EndedIdle DEF Fail, Finish, Become, Stopped

\* The effect of each step, whatever way it ends.
LEMMA ProviderEffect ==
  ASSUME TypeInv, NEW n \in Jobs, create_proxy_provider(n)
  PROVE  /\ UNCHANGED <<rows, files, mwFile, apps, pols, dns>>
         /\ \/ /\ Moved(n, "application", job[n].svc)
               /\ provs' = provs \cup {n} /\ seen' = seen
            \/ /\ Stopped(n) /\ provs' \in {provs, provs \cup {n}}
               /\ seen' \in {seen \cup {"lost"}, seen \cup {"call"}}
<1>1. job \in [Jobs -> Job] /\ Step(n)
  BY DEF TypeInv, JobsSound, Step
<1>2. job[n].svc \in Service
  BY <1>1, StepFacts
<1>. QED BY <1>1, <1>2, Moving, Stopping DEF create_proxy_provider, Answered, Unanswered, Refused,
            Mishap, NoMishap, mishapVars, Pcs

\* create_application: the application of the domain is the one of the request.
LEMMA ApplicationEffect ==
  ASSUME TypeInv, NEW n \in Jobs, create_application(n)
  PROVE  /\ UNCHANGED <<rows, files, mwFile, provs, pols, dns>>
         /\ \/ /\ Moved(n, "clear", [job[n].svc EXCEPT !.prov = n])
               /\ apps[job[n].d] = None /\ apps' = [apps EXCEPT ![job[n].d] = n] /\ seen' = seen
            \/ /\ Stopped(n) /\ apps' \in {apps, [apps EXCEPT ![job[n].d] = n]}
               /\ apps' # apps => apps[job[n].d] = None
               /\ seen' \in {seen, seen \cup {"lost"}, seen \cup {"call"}}
<1>1. job \in [Jobs -> Job] /\ Step(n)
  BY DEF TypeInv, JobsSound, Step
<1>2. job[n].svc \in Service /\ n \in Ids /\ job[n] \in Job
  BY <1>1, StepFacts DEF create_application, At, Sound
<1>3. [job[n].svc EXCEPT !.prov = n] \in Service
  BY <1>2, ServiceChanges
<1>4. [job[n] EXCEPT !.pc = "clear", !.svc.prov = n]
        = [job[n] EXCEPT !.pc = "clear", !.svc = [job[n].svc EXCEPT !.prov = n]]
  BY <1>2 DEF Job
<1>5. Become(n, [job[n] EXCEPT !.pc = "clear", !.svc.prov = n])
        => Moved(n, "clear", [job[n].svc EXCEPT !.prov = n])
  BY <1>1, <1>3, <1>4, Moving DEF Pcs
<1>. QED BY <1>1, <1>5, Stopping DEF create_application, Answered, Unanswered, Refused,
            Mishap, NoMishap, mishapVars

\* The first call of clear_group_policy and teardown: the known policy is bound
\* no more, or the deletion of its binding was answered by an error status.
LEMMA UnbindEffect ==
  ASSUME TypeInv, NEW n \in Jobs, Step(n), NEW deleting \in {"clear_policy", "teardown_policy"},
         NEW cleared \in {"policy", "del_application"}, DeleteBinding(n, deleting, cleared)
  PROVE  /\ UNCHANGED <<rows, files, mwFile, provs, apps, dns>>
         /\ \/ /\ Moved(n, cleared, job[n].svc) /\ job[n].svc.pol = None
               /\ pols' = pols /\ seen' = seen
            \/ /\ Moved(n, deleting, job[n].svc)
               /\ \/ pols' = BindingGone(job[n].svc.pol) /\ seen' = seen
                  \/ pols' = pols /\ "status" \in seen'
            \/ /\ Stopped(n) /\ pols' \in {pols, BindingGone(job[n].svc.pol)}
               /\ seen' \in {seen \cup {"lost"}, seen \cup {"call"}}
<1>1. job \in [Jobs -> Job]
  BY DEF TypeInv, JobsSound
<1>2. job[n].svc \in Service
  BY StepFacts
<1>3. \A l \in {deleting, cleared} :
        Become(n, [job[n] EXCEPT !.pc = l]) => Moved(n, l, job[n].svc)
  BY <1>1, <1>2, Moving DEF Pcs
<1>. QED BY <1>1, <1>3, Stopping DEF DeleteBinding, Answered, Unanswered, Refused, Unnoticed,
            Mishap, NoMishap, mishapVars

\* The second call: the known policy is gone, or its deletion was answered by
\* an error status.
LEMMA ClearEffect ==
  ASSUME TypeInv, NEW n \in Jobs, Step(n), NEW next \in {"policy", "del_application"},
         DeletePolicy(n, next)
  PROVE  /\ UNCHANGED <<rows, files, mwFile, provs, apps, dns>>
         /\ \/ /\ Moved(n, next, [job[n].svc EXCEPT !.pol = None])
               /\ \/ pols' = {p \in pols : p.id # job[n].svc.pol} /\ seen' = seen
                  \/ pols' = pols /\ "status" \in seen'
            \/ /\ Stopped(n) /\ pols' \in {pols, {p \in pols : p.id # job[n].svc.pol}}
               /\ seen' \in {seen \cup {"lost"}, seen \cup {"call"}}
<1>1. job \in [Jobs -> Job]
  BY DEF TypeInv, JobsSound
<1>2. job[n].svc \in Service /\ job[n] \in Job
  BY StepFacts
<1>3. [job[n].svc EXCEPT !.pol = None] \in Service
  BY <1>2, ServiceChanges
<1>4. [job[n] EXCEPT !.pc = next, !.svc.pol = None]
        = [job[n] EXCEPT !.pc = next, !.svc = [job[n].svc EXCEPT !.pol = None]]
  BY <1>2 DEF Job
<1>5. Become(n, [job[n] EXCEPT !.pc = next, !.svc.pol = None])
        => Moved(n, next, [job[n].svc EXCEPT !.pol = None])
  BY <1>1, <1>3, <1>4, Moving DEF Pcs
<1>. QED BY <1>1, <1>5, Stopping DEF DeletePolicy, Answered, Unanswered, Refused, Unnoticed,
            Mishap, NoMishap, mishapVars

\* Where clear_group_policy and teardown come from and go to.
LEMMA ClearMoves ==
  ASSUME TypeInv, NEW n \in Jobs, clear_group_policy(n) \/ teardown(n)
  PROVE  /\ UNCHANGED <<rows, files, mwFile, provs, apps, dns>>
         /\ \E s \in {job[n].svc, [job[n].svc EXCEPT !.pol = None]} :
              \/ Stopped(n)
              \/ clear_group_policy(n) /\ \E l \in {"clear_policy", "policy"} : Moved(n, l, s)
              \/ teardown(n) /\ \E l \in {"teardown_policy", "del_application"} : Moved(n, l, s)
         /\ clear_group_policy(n) => job[n].pc \in {"clear", "clear_policy"}
         /\ teardown(n) => job[n].pc \in {"teardown", "teardown_policy"}
<1>1. Step(n)
  BY DEF Step
<1>2. \/ clear_group_policy(n) /\ (\/ DeleteBinding(n, "clear_policy", "policy")
                                   \/ DeletePolicy(n, "policy"))
      \/ teardown(n) /\ (\/ DeleteBinding(n, "teardown_policy", "del_application")
                         \/ DeletePolicy(n, "del_application"))
  BY DEF clear_group_policy, teardown
<1>3. CASE clear_group_policy(n) /\ DeleteBinding(n, "clear_policy", "policy")
  BY <1>1, <1>3, UnbindEffect DEF clear_group_policy, teardown, At
<1>4. CASE clear_group_policy(n) /\ DeletePolicy(n, "policy")
  BY <1>1, <1>4, ClearEffect DEF clear_group_policy, teardown, At
<1>5. CASE teardown(n) /\ DeleteBinding(n, "teardown_policy", "del_application")
  BY <1>1, <1>5, UnbindEffect DEF clear_group_policy, teardown, At
<1>6. CASE teardown(n) /\ DeletePolicy(n, "del_application")
  BY <1>1, <1>6, ClearEffect DEF clear_group_policy, teardown, At
<1>. QED BY <1>2, <1>3, <1>4, <1>5, <1>6

\* The policy a coroutine binds.
PolicyOf(n) ==
  [id |-> n, app |-> IF SettingUp(n) THEN n ELSE apps[job[n].d], group |-> job[n].svc.group]

\* sync_group_policy: the group has its policy, a set-up its middleware file.
LEMMA PolicyEffect ==
  ASSUME TypeInv, NEW n \in Jobs, sync_group_policy(n)
  PROVE  /\ UNCHANGED <<rows, files, provs, apps, dns>>
         /\ \/ /\ Moved(n, "dns", job[n].svc) /\ job[n].svc.group = None
               /\ pols' = pols /\ mwFile' = (mwFile \/ SettingUp(n)) /\ seen' = seen
            \/ /\ Moved(n, "dns", [job[n].svc EXCEPT !.pol = n]) /\ job[n].svc.group # None
               /\ PolicyOf(n).app # None /\ pols' = pols \cup {PolicyOf(n)}
               /\ mwFile' = (mwFile \/ SettingUp(n)) /\ seen' = seen
            \/ /\ Stopped(n) /\ mwFile' = mwFile
               /\ pols' \in {pols, pols \cup {PolicyOf(n)},
                             pols \cup {[PolicyOf(n) EXCEPT !.app = None]}}
               /\ seen' \in {seen, seen \cup {"lost"}, seen \cup {"call"}, seen \cup {"disk"}}
<1>1. job \in [Jobs -> Job] /\ Step(n)
  BY DEF TypeInv, JobsSound, Step
<1>2. job[n].svc \in Service /\ n \in Ids /\ job[n] \in Job
  BY <1>1, StepFacts DEF sync_group_policy, At, Sound
<1>3. [job[n].svc EXCEPT !.pol = n] \in Service
  BY <1>2, ServiceChanges
<1>4. [job[n] EXCEPT !.pc = "dns", !.svc.pol = n]
        = [job[n] EXCEPT !.pc = "dns", !.svc = [job[n].svc EXCEPT !.pol = n]]
  BY <1>2 DEF Job
<1>5. /\ Become(n, [job[n] EXCEPT !.pc = "dns", !.svc.pol = n])
           => Moved(n, "dns", [job[n].svc EXCEPT !.pol = n])
      /\ Become(n, [job[n] EXCEPT !.pc = "dns"]) => Moved(n, "dns", job[n].svc)
  BY <1>1, <1>2, <1>3, <1>4, Moving DEF Pcs
<1>6. UNCHANGED <<rows, files, provs, apps, dns>>
  BY DEF sync_group_policy
<1>7. ASSUME NEW k, AfterPolicy(n, k)
      PROVE  \/ Become(n, k) /\ mwFile' = (mwFile \/ SettingUp(n)) /\ seen' = seen
             \/ Stopped(n) /\ mwFile' = mwFile /\ seen' = seen \cup {"disk"}
  BY <1>1, <1>7, Stopping DEF AfterPolicy, Answered, NoMishap, mishapVars, Mishap
<1>. QED BY <1>1, <1>5, <1>6, <1>7, Stopping DEF sync_group_policy, PolicyOf, Unanswered, Refused,
            Mishap, NoMishap, mishapVars

\* delete_application: the application of a known provider is gone.
LEMMA ApplicationGone ==
  ASSUME TypeInv, NEW n \in Jobs, delete_application(n)
  PROVE  /\ UNCHANGED <<rows, files, mwFile, provs, pols, dns>>
         /\ \/ /\ Moved(n, "del_provider", job[n].svc)
               /\ \/ /\ apps' = IF job[n].svc.prov # None
                                  THEN [apps EXCEPT ![job[n].d] = None] ELSE apps
                     /\ seen' = seen
                  \/ apps' = apps /\ "status" \in seen'
            \/ /\ Stopped(n) /\ apps' \in {apps, [apps EXCEPT ![job[n].d] = None]}
               /\ seen' \in {seen \cup {"lost"}, seen \cup {"call"}}
<1>1. job \in [Jobs -> Job] /\ Step(n)
  BY DEF TypeInv, JobsSound, Step
<1>2. job[n].svc \in Service
  BY <1>1, StepFacts
<1>3. Become(n, [job[n] EXCEPT !.pc = "del_provider"]) => Moved(n, "del_provider", job[n].svc)
  BY <1>1, <1>2, Moving DEF Pcs
<1>. QED BY <1>1, <1>3, Stopping DEF delete_application, Answered, Unanswered, Refused, Unnoticed,
            Mishap, NoMishap, mishapVars

\* The service without its provider, and the label after the deletion.
Unprovided(s) == [s EXCEPT !.prov = None, !.group = None]
\* The label after the deletion of the provider.
AfterProvider(n) == IF job[n].op = "delete" THEN "del_dns" ELSE "count"

\* delete_provider: the provider is gone, and the references with it.
LEMMA ProviderGone ==
  ASSUME TypeInv, NEW n \in Jobs, delete_provider(n)
  PROVE  /\ UNCHANGED <<rows, files, mwFile, apps, pols, dns>>
         /\ \/ /\ Moved(n, AfterProvider(n), Unprovided(job[n].svc))
               /\ \/ provs' = provs \ {job[n].svc.prov} /\ seen' = seen
                  \/ provs' = provs /\ "status" \in seen'
            \/ /\ Stopped(n) /\ provs' \in {provs, provs \ {job[n].svc.prov}}
               /\ seen' \in {seen \cup {"lost"}, seen \cup {"call"}}
<1> DEFINE k == [job[n] EXCEPT !.pc = AfterProvider(n), !.svc.prov = None, !.svc.group = None]
<1>1. job \in [Jobs -> Job] /\ Step(n)
  BY DEF TypeInv, JobsSound, Step
<1>2. job[n].svc \in Service /\ job[n] \in Job
  BY <1>1, StepFacts
<1>3. Unprovided(job[n].svc) \in Service
  BY <1>2, ServiceChanges DEF Unprovided
<1>4. k = [job[n] EXCEPT !.pc = AfterProvider(n), !.svc = Unprovided(job[n].svc)]
  BY <1>2 DEF Job, Service, Unprovided
<1>5. AfterProvider(n) \in Pcs \ {"new", "done"}
  BY DEF AfterProvider, Pcs
<1>6. Become(n, k) => Moved(n, AfterProvider(n), Unprovided(job[n].svc))
  BY <1>1, <1>3, <1>4, <1>5, Moving
<1>7. /\ UNCHANGED <<rows, files, mwFile, apps, pols, dns>>
      /\ \/ /\ Become(n, k)
            /\ \/ provs' = provs \ {job[n].svc.prov} /\ seen' = seen
               \/ provs' = provs /\ "status" \in seen'
         \/ /\ Fail(n) /\ provs' \in {provs, provs \ {job[n].svc.prov}}
            /\ seen' \in {seen \cup {"lost"}, seen \cup {"call"}}
  BY DEF delete_provider, AfterProvider, Answered, Unanswered, Refused, Unnoticed,
            Mishap, NoMishap, mishapVars
<1>. QED BY <1>1, <1>6, <1>7, Stopping

\* The label after the count of what remains.
AfterCount(n) == IF job[n].op = "delete" THEN "commit" ELSE "dns"

\* The count: the middleware file stays if another service uses Authentik.
LEMMA CountEffect ==
  ASSUME TypeInv, NEW n \in Jobs, CountServices(n)
  PROVE  /\ UNCHANGED <<rows, files, provs, apps, pols, dns>>
         /\ \/ /\ Moved(n, AfterCount(n), job[n].svc) /\ seen' = seen
               /\ mwFile' = (mwFile /\ OthersUse(job[n].svc.id))
            \/ Stopped(n) /\ mwFile' = mwFile /\ seen' = seen \cup {"disk"}
<1>1. job \in [Jobs -> Job] /\ Step(n)
  BY DEF TypeInv, JobsSound, Step
<1>2. job[n].svc \in Service
  BY <1>1, StepFacts
<1>3. AfterCount(n) \in Pcs \ {"new", "done"}
  BY DEF AfterCount, Pcs
<1>4. Goto(n, AfterCount(n)) => Moved(n, AfterCount(n), job[n].svc)
  BY <1>1, <1>2, <1>3, Moving DEF Goto
<1>5. /\ UNCHANGED <<rows, files, provs, apps, pols, dns>>
      /\ \/ /\ Goto(n, AfterCount(n)) /\ seen' = seen
            /\ mwFile' = (mwFile /\ OthersUse(job[n].svc.id))
         \/ Fail(n) /\ mwFile' = mwFile /\ seen' = seen \cup {"disk"}
  BY DEF CountServices, AfterCount, Mishap, NoMishap, mishapVars, authentikVars
<1>. QED BY <1>1, <1>4, <1>5, Stopping

\* The record a coroutine finds or makes.
RecordOf(n) == IF job[n].d \in Zoned THEN upsert_service_dns_record(n, job[n].d) ELSE None

\* sync_cloudflare_record: the record is found or made.
LEMMA RecordEffect ==
  ASSUME TypeInv, NEW n \in Jobs, sync_cloudflare_record(n)
  PROVE  /\ UNCHANGED <<rows, files, mwFile, provs, apps, pols>>
         /\ \/ /\ Moved(n, "write", [job[n].svc EXCEPT !.rec = RecordOf(n)])
               /\ dns' = [dns EXCEPT ![job[n].d] = RecordOf(n)] /\ seen' = seen
            \/ /\ Stopped(n) /\ job[n].d \in Zoned
               /\ \/ dns' = [dns EXCEPT ![job[n].d] = RecordOf(n)] /\ seen' = seen \cup {"lost"}
                  \/ dns' = dns /\ seen' = seen \cup {"call"}
<1> DEFINE k == [job[n] EXCEPT !.pc = "write", !.svc.rec = RecordOf(n)]
           s == [job[n].svc EXCEPT !.rec = RecordOf(n)]
<1>1. job \in [Jobs -> Job] /\ Step(n)
  BY DEF TypeInv, JobsSound, Step
<1>2. job[n].svc \in Service /\ job[n] \in Job /\ n \in Ids /\ job[n].d \in Domains
  BY <1>1, StepFacts DEF sync_cloudflare_record, At, Sound
<1>3. RecordOf(n) \in Ids \cup {None}
  BY <1>2 DEF RecordOf, upsert_service_dns_record, TypeInv, StoresTyped
<1>4. s \in Service
  BY <1>2, <1>3, ServiceChanges
<1>5. k = [job[n] EXCEPT !.pc = "write", !.svc = s]
  BY <1>2 DEF Job, Service
<1>6. Become(n, k) => Moved(n, "write", s)
  BY <1>1, <1>4, <1>5, Moving DEF Pcs
<1>7. /\ UNCHANGED <<rows, files, mwFile, provs, apps, pols>>
      /\ \/ /\ Become(n, k)
            /\ dns' = [dns EXCEPT ![job[n].d] = RecordOf(n)] /\ seen' = seen
         \/ /\ Fail(n) /\ job[n].d \in Zoned
            /\ \/ dns' = [dns EXCEPT ![job[n].d] = RecordOf(n)] /\ seen' = seen \cup {"lost"}
               \/ dns' = dns /\ seen' = seen \cup {"call"}
  BY DEF sync_cloudflare_record, RecordOf, Answered, Unanswered, Refused, Mishap, NoMishap,
     mishapVars, authentikVars
<1>. QED BY <1>1, <1>6, <1>7, Stopping

\* What a failure of the write or of save does: a create goes on to remove its
\* record, if it has one.
RolledBack(n) ==
  /\ files' \in {files, [files EXCEPT ![job[n].d] = None]}
  /\ \/ Stopped(n)
     \/ /\ Moved(n, "undo", job[n].svc) /\ job[n].op = "create" /\ job[n].svc.rec # None
        /\ files' = [files EXCEPT ![job[n].d] = None]

\* The same of the definition.
LEMMA RollingBack ==
  ASSUME TypeInv, NEW n \in Jobs, Step(n), RollBack(n)
  PROVE  RolledBack(n)
<1>1. job \in [Jobs -> Job] /\ job[n].svc \in Service
  BY StepFacts
<1>2. Goto(n, "undo") => Moved(n, "undo", job[n].svc)
  BY <1>1, Moving DEF Goto, Pcs
<1>. QED BY <1>1, <1>2, Stopping DEF RollBack, RolledBack

\* The write of the route file.
LEMMA WriteEffect ==
  ASSUME TypeInv, NEW n \in Jobs, WriteRoute(n)
  PROVE  /\ UNCHANGED <<rows, mwFile, provs, apps, pols, dns>>
         /\ \/ /\ Moved(n, "save", job[n].svc) /\ seen' = seen
               /\ files' = [files EXCEPT ![job[n].d] = RouteOf(job[n].svc)]
            \/ RolledBack(n) /\ seen' = seen \cup {"disk"}
<1>1. job \in [Jobs -> Job] /\ Step(n)
  BY DEF TypeInv, JobsSound, Step
<1>2. job[n].svc \in Service
  BY <1>1, StepFacts
<1>3. Goto(n, "save") => Moved(n, "save", job[n].svc)
  BY <1>1, <1>2, Moving DEF Goto, Pcs
<1>. QED BY <1>1, <1>3, RollingBack DEF WriteRoute, Mishap, NoMishap, mishapVars, authentikVars

\* rollback_cloudflare_record always ends in a failure.
LEMMA UndoEffect ==
  ASSUME TypeInv, NEW n \in Jobs, rollback_cloudflare_record(n)
  PROVE  /\ UNCHANGED <<rows, files, mwFile, provs, apps, pols>>
         /\ Stopped(n) /\ dns' \in {dns, DnsDeleted(job[n].d, job[n].svc.rec)}
         /\ seen' \in {seen, seen \cup {"lost"}, seen \cup {"call"}}
<1>1. job \in [Jobs -> Job]
  BY DEF TypeInv, JobsSound
<1>. QED BY <1>1, Stopping DEF rollback_cloudflare_record, Mishap, NoMishap, mishapVars,
            authentikVars

\* The records that are left when the one of a coroutine's service is deleted.
RecordsLeft(n) ==
  IF job[n].d \in Zoned THEN DnsDeleted(job[n].d, job[n].svc.rec) ELSE dns

\* delete_cloudflare_record: the record goes, then the file.
LEMMA RecordGone ==
  ASSUME TypeInv, NEW n \in Jobs, delete_cloudflare_record(n)
  PROVE  /\ UNCHANGED <<rows, mwFile, provs, apps, pols>>
         /\ \/ /\ Moved(n, "del_row", job[n].svc) /\ seen' = seen
               /\ dns' = RecordsLeft(n) /\ files' = [files EXCEPT ![job[n].d] = None]
            \/ /\ Stopped(n) /\ files' = files
               /\ \/ dns' = RecordsLeft(n) /\ seen' \in {seen \cup {"disk"}, seen \cup {"lost"}}
                  \/ dns' = dns /\ seen' = seen \cup {"call"}
<1>1. job \in [Jobs -> Job] /\ Step(n)
  BY DEF TypeInv, JobsSound, Step
<1>2. job[n].svc \in Service
  BY <1>1, StepFacts
<1>3. Goto(n, "del_row") => Moved(n, "del_row", job[n].svc)
  BY <1>1, <1>2, Moving DEF Goto, Pcs
<1>. QED BY <1>1, <1>3, Stopping DEF delete_cloudflare_record, RecordsLeft, Unanswered, Refused,
            Mishap, NoMishap, mishapVars, authentikVars

\* What save finds of the coroutine's service.
Found(n) ==
  IF rows[job[n].d] # None /\ rows[job[n].d].id = job[n].svc.id THEN rows[job[n].d] ELSE None

\* The coroutine has remembered the row it found.
Saved(n) ==
  /\ files' = files /\ Busy(n)' /\ failed' = failed /\ seen' = seen
  /\ job'[n] = [job[n] EXCEPT !.pc = "commit", !.base = Found(n)]
  /\ job'[n].pc = "commit" /\ job'[n].base = Found(n) /\ job'[n].svc = job[n].svc
  /\ job'[n].op = job[n].op /\ job'[n].d = job[n].d

\* save only remembers the row it found, or fails as the write does.
LEMMA SaveEffect ==
  ASSUME TypeInv, NEW n \in Jobs, save(n)
  PROVE  /\ UNCHANGED <<rows, mwFile, provs, apps, pols, dns>>
         /\ Saved(n) \/ (RolledBack(n) /\ seen' = seen \cup {"db"})
<1>1. job \in [Jobs -> Job] /\ Step(n)
  BY DEF TypeInv, JobsSound, Step
<1>2. CASE RollBack(n) /\ Mishap("db")
  BY <1>1, <1>2, RollingBack DEF save, Mishap, authentikVars
<1>3. CASE ~(RollBack(n) /\ Mishap("db"))
  <2>. DEFINE j == [job[n] EXCEPT !.pc = "commit", !.base = Found(n)]
  <2>1. /\ job' = [job EXCEPT ![n] = j] /\ failed' = failed /\ files' = files /\ seen' = seen
        /\ UNCHANGED <<rows, mwFile, provs, apps, pols, dns>>
    BY <1>3 DEF save, Found, Become, NoMishap, mishapVars, authentikVars
  <2>2. job[n] \in Job
    BY <1>1
  <2>3. /\ j.pc = "commit" /\ j.base = Found(n) /\ j.svc = job[n].svc
        /\ j.op = job[n].op /\ j.d = job[n].d
    BY <2>2 DEF Job
  <2>4. job'[n] = j
    BY <1>1, <2>1
  <2>. HIDE DEF j
  <2>5. Busy(n)'
    BY <2>3, <2>4 DEF Busy
  <2>. QED BY <2>1, <2>3, <2>4, <2>5 DEF Saved, j
<1>. QED BY <1>2, <1>3

\* The label after the deletion of the row.
AfterRow(n) == IF uses_authentik(job[n].svc) THEN "count" ELSE "commit"

\* The deletion of the row waits for the commit, or for the count.
LEMMA RowGone ==
  ASSUME TypeInv, NEW n \in Jobs, DeleteRow(n)
  PROVE  /\ UNCHANGED <<rows, files, mwFile, provs, apps, pols, dns>>
         /\ Moved(n, AfterRow(n), job[n].svc) /\ seen' = seen
<1>1. job \in [Jobs -> Job] /\ Step(n)
  BY DEF TypeInv, JobsSound, Step
<1>2. job[n].svc \in Service
  BY <1>1, StepFacts
<1>3. AfterRow(n) \in Pcs \ {"new", "done"}
  BY DEF AfterRow, Pcs
<1>4. Goto(n, AfterRow(n)) => Moved(n, AfterRow(n), job[n].svc)
  BY <1>1, <1>2, <1>3, Moving DEF Goto
<1>. QED BY <1>4 DEF DeleteRow, AfterRow, NoMishap, mishapVars, authentikVars

\* A commit that succeeds is the only step that changes a row.
LEMMA CommitEffect ==
  ASSUME TypeInv, NEW n \in Jobs, Commit(n)
  PROVE  /\ UNCHANGED <<files, mwFile, provs, apps, pols, dns>>
         /\ ~Busy(n)' /\ (n # 0 => job'[n].pc = "done")
         /\ \/ /\ Committable(n) /\ rows' = [rows EXCEPT ![job[n].d] = NewRow(n)]
               /\ failed' = failed /\ seen' = seen
            \/ /\ rows' = rows /\ Stopped(n)
               /\ ~Committable(n) \/ seen' = seen \cup {"db"}
               /\ seen' \in {seen, seen \cup {"db"}}
<1>1. job \in [Jobs -> Job]
  BY DEF TypeInv, JobsSound
<1>. QED BY <1>1, Stopping DEF Commit, Stopped, Mishap, NoMishap, mishapVars, authentikVars

\* A coroutine that has moved on still has the row of its domain to itself.
LEMMA MovedFits ==
  ASSUME NEW n \in Jobs, NEW l, NEW s, Fits(n, job[n]), Moved(n, l, s),
         l \in PcsOf(job[n].op), l = "commit" => job[n].op = "delete",
         s.id = job[n].svc.id, rows' = rows
  PROVE  Fits(n, job[n])'
BY DEF Fits, Moved

\* A step leaves its coroutine with the row of its domain to itself.
LEMMA FitsStep ==
  ASSUME TypeInv, NEW n \in Jobs, Fits(n, job[n]), Step(n), Busy(n)'
  PROVE  Fits(n, job[n])'
<1>1. job[n].op \in Ops /\ job[n].svc \in Service /\ job[n].pc \in PcsOf(job[n].op)
  BY StepFacts DEF Fits
<1>2. /\ \A i : [job[n].svc EXCEPT !.prov = i].id = job[n].svc.id
      /\ \A i : [job[n].svc EXCEPT !.pol = i].id = job[n].svc.id
      /\ \A i : [job[n].svc EXCEPT !.rec = i].id = job[n].svc.id
      /\ Unprovided(job[n].svc).id = job[n].svc.id
  BY <1>1 DEF Service, Unprovided
<1>a. CASE create_proxy_provider(n)
  <2>1. Moved(n, "application", job[n].svc) /\ rows' = rows
    BY <1>a, ProviderEffect DEF Stopped
  <2>2. "application" \in PcsOf(job[n].op)
    BY <1>a, <1>1 DEF create_proxy_provider, At, PcsOf, Ops
  <2>. QED BY <2>1, <2>2, MovedFits
<1>b. CASE create_application(n)
  <2>1. Moved(n, "clear", [job[n].svc EXCEPT !.prov = n]) /\ rows' = rows
    BY <1>b, ApplicationEffect DEF Stopped
  <2>2. "clear" \in PcsOf(job[n].op)
    BY <1>b, <1>1 DEF create_application, At, PcsOf, Ops
  <2>. QED BY <1>2, <2>1, <2>2, MovedFits
<1>c. CASE clear_group_policy(n) \/ teardown(n)
  <2>1. PICK s \in {job[n].svc, [job[n].svc EXCEPT !.pol = None]} :
          \/ clear_group_policy(n) /\ \E l \in {"clear_policy", "policy"} : Moved(n, l, s)
          \/ teardown(n) /\ \E l \in {"teardown_policy", "del_application"} : Moved(n, l, s)
    BY <1>c, ClearMoves DEF Stopped
  <2>2. PICK l \in {"clear_policy", "policy", "teardown_policy", "del_application"} :
          /\ Moved(n, l, s)
          /\ \/ clear_group_policy(n) /\ l \in {"clear_policy", "policy"}
             \/ teardown(n) /\ l \in {"teardown_policy", "del_application"}
    BY <2>1
  <2>3. l \in PcsOf(job[n].op) /\ rows' = rows
    BY <1>c, <1>1, <2>2, ClearMoves DEF PcsOf, Ops
  <2>. QED BY <1>2, <2>1, <2>2, <2>3, MovedFits
<1>e. CASE sync_group_policy(n)
  <2>1. rows' = rows /\ (\/ Moved(n, "dns", job[n].svc)
                         \/ Moved(n, "dns", [job[n].svc EXCEPT !.pol = n]))
    BY <1>e, PolicyEffect DEF Stopped
  <2>2. "dns" \in PcsOf(job[n].op)
    BY <1>e, <1>1 DEF sync_group_policy, At, PcsOf, Ops
  <2>. QED BY <1>2, <2>1, <2>2, MovedFits
<1>f. CASE delete_application(n)
  <2>1. Moved(n, "del_provider", job[n].svc) /\ rows' = rows
    BY <1>f, ApplicationGone DEF Stopped
  <2>2. "del_provider" \in PcsOf(job[n].op)
    BY <1>f, <1>1 DEF delete_application, At, PcsOf, Ops
  <2>. QED BY <2>1, <2>2, MovedFits
<1>g. CASE delete_provider(n)
  <2>1. Moved(n, AfterProvider(n), Unprovided(job[n].svc)) /\ rows' = rows
    BY <1>g, ProviderGone DEF Stopped
  <2>2. AfterProvider(n) \in PcsOf(job[n].op) /\ AfterProvider(n) # "commit"
    BY <1>g, <1>1 DEF delete_provider, AfterProvider, At, PcsOf, Ops
  <2>. QED BY <1>2, <2>1, <2>2, MovedFits
<1>h. CASE CountServices(n)
  <2>1. Moved(n, AfterCount(n), job[n].svc) /\ rows' = rows
    BY <1>h, CountEffect DEF Stopped
  <2>2. /\ AfterCount(n) \in PcsOf(job[n].op)
        /\ AfterCount(n) = "commit" => job[n].op = "delete"
    BY <1>h, <1>1 DEF CountServices, AfterCount, At, PcsOf, Ops
  <2>. QED BY <2>1, <2>2, MovedFits
<1>i. CASE sync_cloudflare_record(n)
  <2>1. Moved(n, "write", [job[n].svc EXCEPT !.rec = RecordOf(n)]) /\ rows' = rows
    BY <1>i, RecordEffect DEF Stopped
  <2>2. "write" \in PcsOf(job[n].op)
    BY <1>i, <1>1 DEF sync_cloudflare_record, At, PcsOf, Ops
  <2>. QED BY <1>2, <2>1, <2>2, MovedFits
<1>j. CASE WriteRoute(n)
  <2>1. PICK l \in {"save", "undo"} : /\ Moved(n, l, job[n].svc) /\ rows' = rows
                                      /\ l = "undo" => job[n].op = "create"
    BY <1>j, WriteEffect DEF RolledBack, Stopped
  <2>2. l \in PcsOf(job[n].op)
    BY <1>j, <1>1, <2>1 DEF WriteRoute, At, PcsOf, Ops
  <2>. QED BY <2>1, <2>2, MovedFits
<1>k. CASE rollback_cloudflare_record(n)
  BY <1>k, UndoEffect DEF Stopped
<1>l. CASE delete_cloudflare_record(n)
  <2>1. Moved(n, "del_row", job[n].svc) /\ rows' = rows
    BY <1>l, RecordGone DEF Stopped
  <2>2. "del_row" \in PcsOf(job[n].op)
    BY <1>l, <1>1 DEF delete_cloudflare_record, At, PcsOf, Ops
  <2>. QED BY <2>1, <2>2, MovedFits
<1>m. CASE save(n)
  <2>1. /\ "commit" \in PcsOf(job[n].op) /\ job[n].op # "delete"
        /\ job[n].op = "create" => "undo" \in PcsOf(job[n].op)
    BY <1>m, <1>1 DEF save, At, PcsOf, Ops
  <2>2. CASE Saved(n)
    BY <1>m, <2>1, <2>2, SaveEffect DEF Fits, Found, Saved
  <2>3. CASE RolledBack(n)
    BY <1>m, <2>1, <2>3, SaveEffect, MovedFits DEF RolledBack, Stopped
  <2>. QED BY <1>m, <2>2, <2>3, SaveEffect
<1>n. CASE DeleteRow(n)
  <2>1. Moved(n, AfterRow(n), job[n].svc) /\ rows' = rows
    BY <1>n, RowGone
  <2>2. AfterRow(n) \in PcsOf(job[n].op) /\ job[n].op = "delete"
    BY <1>n, <1>1 DEF DeleteRow, AfterRow, At, PcsOf, Ops
  <2>. QED BY <2>1, <2>2, MovedFits
<1>o. CASE Commit(n)
  BY <1>o, CommitEffect
<1>. QED BY <1>a, <1>b, <1>c, <1>e, <1>f, <1>g, <1>h, <1>i, <1>j, <1>k, <1>l, <1>m, <1>n,
            <1>o DEF Step

\* Coroutine n has started operation o on domain d, at label l with service s.
Started(n, l, o, d, s) ==
  job'[n] = [pc |-> l, op |-> o, d |-> d, svc |-> s, base |-> None]

\* The stores and the record of failures are as they were.
Untouched == UNCHANGED <<rows, files, mwFile, provs, apps, pols, dns, seen, failed>>

\* What an update leaves alone.
LEMMA UpdatedKeeps ==
  ASSUME NEW r \in Service, NEW s \in Updated(r)
  PROVE  /\ s \in Service
         /\ s.id = r.id /\ s.prov = r.prov /\ s.pol = r.pol /\ s.rec = r.rec
         /\ ~uses_authentik(s) /\ (~uses_authentik(r) => r.group = None) => s.group = None
         /\ uses_authentik(s) = uses_authentik(r) /\ s.group = r.group
              => s.auth = r.auth
<1> DEFINE Kept(s1, s2) == /\ s2 \in Service
                           /\ s2.id = s1.id /\ s2.prov = s1.prov /\ s2.pol = s1.pol
                           /\ s2.rec = s1.rec
                           /\ (~uses_authentik(s1) => s1.group = None)
                                => (~uses_authentik(s2) => s2.group = None)
<1>1. \A t \in Service, m \in Modes : Kept(t, SetMode(t, m))
  BY DEF Service, SetMode, uses_authentik
<1>2. \A t \in Service, a \in Auths : Kept(t, SetAuth(t, a))
  <2>1. SUFFICES ASSUME NEW t \in Service, NEW a \in Auths PROVE Kept(t, SetAuth(t, a))
    OBVIOUS
  <2>2. SetAuth(t, a) \in Service
    BY ServiceChanges
  <2>3. /\ SetAuth(t, a).id = t.id /\ SetAuth(t, a).prov = t.prov /\ SetAuth(t, a).pol = t.pol
        /\ SetAuth(t, a).rec = t.rec /\ SetAuth(t, a).auth = a
        /\ a # "authentik" => SetAuth(t, a).group = None
    BY DEF Service, SetAuth
  <2>. QED BY <2>2, <2>3 DEF uses_authentik
<1>3. \A t \in Service, g \in Groups \cup {None} : Kept(t, SetGroup(t, g))
  BY DEF Service, SetGroup, uses_authentik
<1>4. \A t, u, v \in Service : Kept(t, u) /\ Kept(u, v) => Kept(t, v)
  OBVIOUS
<1> HIDE DEF Kept
<1>5. \A t \in {SetMode(r, m) : m \in Modes} : t \in Service /\ Kept(r, t)
  BY <1>1, ServiceChanges
<1> DEFINE moded == {SetMode(r, m) : m \in Modes}
           authed == moded \cup {SetAuth(t, a) : t \in moded, a \in Auths}
<1>6. \A t \in authed : t \in Service /\ Kept(r, t)
  <2>1. SUFFICES ASSUME NEW u \in moded, NEW a \in Auths
                 PROVE  SetAuth(u, a) \in Service /\ Kept(r, SetAuth(u, a))
    BY <1>5
  <2>2. u \in Service /\ Kept(r, u)
    BY <1>5
  <2>3. SetAuth(u, a) \in Service /\ Kept(u, SetAuth(u, a))
    BY <1>2, <2>2, ServiceChanges
  <2>. QED BY <1>4, <2>2, <2>3
<1>7. Kept(r, s)
  <2>1. s \in authed \cup {SetGroup(t, g) : t \in authed, g \in Groups \cup {None}}
    BY DEF Updated
  <2> HIDE DEF authed
  <2>2. CASE s \in authed
    BY <1>6, <2>2
  <2>3. ASSUME NEW t \in authed, NEW g \in Groups \cup {None}, s = SetGroup(t, g)
        PROVE  Kept(r, s)
    <3>1. t \in Service /\ Kept(r, t)
      BY <1>6
    <3>2. SetGroup(t, g) \in Service /\ Kept(t, SetGroup(t, g))
      BY <1>3, <3>1, ServiceChanges
    <3>. QED BY <1>4, <2>3, <3>1, <3>2
  <2>. QED BY <2>1, <2>2, <2>3
<1>8. s.auth \in Auths /\ r.auth \in Auths
  BY <1>7 DEF Kept, Service
<1>. QED BY <1>7, <1>8 DEF Kept, uses_authentik, Auths

\* How each operation starts.
LEMMA BeginEffect ==
  ASSUME TypeInv, NEW n \in Requests, Begin(n)
  PROVE  /\ n \in Jobs /\ n # 0 /\ At(n, "new") /\ ActiveCount < MaxActive
         /\ Untouched /\ sync' = [sync EXCEPT !.alone = FALSE]
         /\ \A m \in Jobs \ {n} : job'[m] = job[m]
         /\ \/ ~Busy(n)'
            \/ \E d \in Domains, m \in Modes, a \in Auths, g \in Groups \cup {None} :
                 /\ rows[d] = None /\ NewService(n, m, a, g) \in Service
                 /\ Started(n, IF a = "authentik" THEN "provider" ELSE "dns", "create", d,
                            NewService(n, m, a, g))
            \/ \E d \in Domains : \E s \in Updated(rows[d]) :
                 /\ rows[d] \in Service /\ rows[d] # None
                 /\ Started(n, AuthentikChange(rows[d], s), "update", d, s)
            \/ \E d \in Domains :
                 /\ rows[d] \in Service /\ rows[d] # None
                 /\ Started(n, IF uses_authentik(rows[d]) THEN "teardown" ELSE "del_dns",
                            "delete", d, rows[d])
<1>0. n \in Jobs /\ n # 0 /\ n \in Ids /\ job \in [Jobs -> Job]
  BY BoundsAssumption DEF Requests, Jobs, Ids, TypeInv, JobsSound
<1>1. ASSUME NEW j, Become(n, j)
      PROVE  job'[n] = j /\ (\A m \in Jobs \ {n} : job'[m] = job[m]) /\ failed' = failed
  BY <1>0, <1>1 DEF Become
<1>2. PICK d \in Domains :
        \/ \E m \in Modes, a \in Auths, g \in Groups \cup {None} : CreateBegin(n, d, m, a, g)
        \/ UpdateBegin(n, d)
        \/ DeleteBegin(n, d)
  BY DEF Begin
<1>3. At(n, "new") /\ ActiveCount < MaxActive /\ sync' = [sync EXCEPT !.alone = FALSE]
  BY <1>2 DEF CreateBegin, UpdateBegin, DeleteBegin, Starts
<1>4. ASSUME NEW m \in Modes, NEW a \in Auths, NEW g \in Groups \cup {None},
             CreateBegin(n, d, m, a, g)
      PROVE  /\ Untouched /\ \A i \in Jobs \ {n} : job'[i] = job[i]
             /\ \/ ~Busy(n)'
                \/ /\ rows[d] = None /\ NewService(n, m, a, g) \in Service
                   /\ Started(n, IF a = "authentik" THEN "provider" ELSE "dns", "create", d,
                              NewService(n, m, a, g))
  <2>1. NewService(n, m, a, g) \in Service /\ NewService(n, m, a, g).auth = a
    BY <1>0 DEF NewService, Service
  <2>2. CASE rows[d] # None
    <3>1. Finish(n)
      BY <1>4, <2>2 DEF CreateBegin
    <3>2. ~Busy(n)'
      BY <1>0, <3>1, Stopping
    <3>. QED BY <1>1, <1>4, <3>1, <3>2 DEF CreateBegin, Finish, Untouched, authentikVars, mishapVars
  <2>3. CASE rows[d] = None
    BY <1>1, <1>4, <2>1, <2>3 DEF CreateBegin, Started, Untouched, authentikVars, mishapVars,
       uses_authentik
  <2>. QED BY <2>2, <2>3
<1>5. CASE UpdateBegin(n, d)
  <2>1. rows[d] \in Service /\ rows[d] # None
    BY <1>5 DEF UpdateBegin, TypeInv, StoresTyped
  <2>2. PICK s \in Updated(rows[d]) :
          Become(n, [pc |-> AuthentikChange(rows[d], s), op |-> "update", d |-> d, svc |-> s,
                     base |-> None])
    BY <1>5 DEF UpdateBegin
  <2>3. Untouched
    BY <1>5, <2>2, <1>1 DEF UpdateBegin, Untouched, authentikVars, mishapVars
  <2>. QED BY <1>0, <1>1, <1>3, <2>1, <2>2, <2>3 DEF Started
<1>6. CASE DeleteBegin(n, d)
  <2>1. rows[d] \in Service /\ rows[d] # None
    BY <1>6 DEF DeleteBegin, TypeInv, StoresTyped
  <2>. QED BY <1>0, <1>1, <1>3, <1>6, <2>1 DEF DeleteBegin, Started, Untouched, authentikVars,
              mishapVars
<1>. QED BY <1>0, <1>2, <1>3, <1>4, <1>5, <1>6

\* How a transition of the monitor starts.
LEMMA ExpireEffect ==
  ASSUME TypeInv, NEW d \in Domains, ExpireBegin(d)
  PROVE  /\ 0 \in Jobs /\ ActiveCount < MaxActive
         /\ Untouched /\ sync.pc = "idle" /\ sync' = [sync EXCEPT !.alone = FALSE]
         /\ \A m \in Jobs \ {0} : job'[m] = job[m]
         /\ rows[d] \in Service /\ rows[d] # None /\ SetMode(rows[d], "active") \in Service
         /\ Started(0, "write", "expire", d, SetMode(rows[d], "active"))
<1>0. 0 \in Jobs /\ job \in [Jobs -> Job]
  BY BoundsAssumption DEF Jobs, TypeInv, JobsSound
<1>1. rows[d] \in Service /\ rows[d] # None /\ SetMode(rows[d], "active") \in Service
  BY ModesAssumption, ServiceChanges DEF ExpireBegin, TypeInv, StoresTyped
<1>. QED BY <1>0, <1>1 DEF ExpireBegin, Starts, Become, Started, Untouched, authentikVars,
            mishapVars

\* A service that has just been made.
LEMMA NewServiceFields ==
  ASSUME NEW n, NEW m, NEW a, NEW g
  PROVE  /\ NewService(n, m, a, g).id = n /\ NewService(n, m, a, g).auth = a
         /\ NewService(n, m, a, g).mode = m
         /\ NewService(n, m, a, g).prov = None /\ NewService(n, m, a, g).pol = None
         /\ NewService(n, m, a, g).rec = None
         /\ a # "authentik" => NewService(n, m, a, g).group = None
BY DEF NewService

\* A new coroutine starts with the row of its domain to itself.
LEMMA BeginFits ==
  ASSUME TypeInv, NEW n \in Requests, Begin(n), Busy(n)'
  PROVE  Fits(n, job[n])'
<1>1. rows' = rows
  BY BeginEffect DEF Untouched
<1>2. ASSUME NEW d \in Domains, NEW m \in Modes, NEW a \in Auths, NEW g \in Groups \cup {None},
             rows[d] = None,
             Started(n, IF a = "authentik" THEN "provider" ELSE "dns", "create", d,
                        NewService(n, m, a, g))
      PROVE  Fits(n, job[n])'
  BY <1>1, <1>2, NewServiceFields DEF Started, Fits, PcsOf
<1>3. ASSUME NEW d \in Domains, NEW s \in Updated(rows[d]), rows[d] \in Service, rows[d] # None,
             Started(n, AuthentikChange(rows[d], s), "update", d, s)
      PROVE  Fits(n, job[n])'
  <2>1. s.id = rows[d].id
    BY <1>3, UpdatedKeeps
  <2>2. AuthentikChange(rows[d], s) \in {"teardown", "provider", "clear", "dns"}
    BY DEF AuthentikChange
  <2>. QED BY <1>1, <1>3, <2>1, <2>2 DEF Started, Fits, PcsOf
<1>4. ASSUME NEW d \in Domains, rows[d] \in Service, rows[d] # None,
             Started(n, IF uses_authentik(rows[d]) THEN "teardown" ELSE "del_dns",
                        "delete", d, rows[d])
      PROVE  Fits(n, job[n])'
  BY <1>1, <1>4 DEF Started, Fits, PcsOf
<1>. QED BY <1>2, <1>3, <1>4, BeginEffect

\* The same, field by field.
LEMMA ExpireFields ==
  ASSUME TypeInv, NEW d \in Domains, ExpireBegin(d)
  PROVE  /\ job'[0].pc = "write" /\ job'[0].op = "expire" /\ job'[0].d = d
         /\ job'[0].svc = SetMode(rows[d], "active") /\ rows' = rows /\ rows[d] # None
<1>1. /\ Started(0, "write", "expire", d, SetMode(rows[d], "active"))
      /\ Untouched /\ rows[d] # None
  BY ExpireEffect
<1>. QED BY <1>1 DEF Started, Untouched

\* A transition starts with the row of its domain to itself.
LEMMA ExpireFits ==
  ASSUME TypeInv, NEW d \in Domains, ExpireBegin(d)
  PROVE  Busy(0)' /\ Fits(0, job[0])'
<1>1. SetMode(rows[d], "active").id = rows[d].id
  BY ExpireEffect DEF SetMode, Service
<1>. QED BY <1>1, ExpireFields DEF Fits, PcsOf, Busy

\* Where the operations of a request start.
LEMMA BeginLabels ==
  ASSUME TypeInv, NEW n \in Requests, Begin(n), Busy(n)'
  PROVE  /\ job'[n].pc \in {"provider", "dns", "clear", "teardown", "del_dns"}
         /\ job'[n].d \in Domains
<1>1. ASSUME NEW l, NEW o, NEW d \in Domains, NEW s, Started(n, l, o, d, s)
      PROVE  job'[n].pc = l /\ job'[n].d \in Domains
  BY <1>1 DEF Started
<1>2. \A r, s : AuthentikChange(r, s) \in {"teardown", "provider", "clear", "dns"}
  BY DEF AuthentikChange
<1>. QED BY <1>1, <1>2, BeginEffect

\* One coroutine at a time, with the row of its domain to itself, or the
\* synchronisation, which then still has the rows as they are.
OneAtATime ==
  /\ \A m, n \in Jobs : Busy(m) /\ Busy(n) => m = n
  /\ \A n \in Jobs : Busy(n) => Fits(n, job[n])
  /\ Syncing => \A n \in Jobs : ~Busy(n)
  /\ Syncing => \A d \in Domains : sync.todo[d] \in {None, rows[d]}

\* Every action keeps coroutines one at a time.
LEMMA SerialStep ==
  ASSUME Serial, TypeInv, OneAtATime, [Next]_vars
  PROVE  OneAtATime'
<1>1. SyncTyped /\ sync = [sync EXCEPT !.pc = sync.pc]
  BY DEF TypeInv, SyncTyped
<1>2. ASSUME sync' = [sync EXCEPT !.alone = FALSE] \/ sync' = sync
      PROVE  Syncing' = Syncing /\ sync'.pc = sync.pc /\ sync'.todo = sync.todo
  BY <1>1, <1>2 DEF Syncing, SyncTyped
<1>3. ASSUME NEW n \in Jobs, \A m \in Jobs \ {n} : ~Busy(m) /\ job'[m] = job[m],
             ~Syncing', Busy(n)' => Fits(n, job[n])'
      PROVE  OneAtATime'
  BY <1>3 DEF OneAtATime, Busy
<1>4. ASSUME NEW n \in Requests, Begin(n) PROVE OneAtATime'
  <2>1. (\A m \in Jobs : ~Busy(m)) /\ ~Syncing
    BY <1>4, AloneAtStart, BeginEffect
  <2>2. ~Syncing'
    BY <1>2, <1>4, <2>1, BeginEffect
  <2>3. \A m \in Jobs \ {n} : ~Busy(m) /\ job'[m] = job[m]
    BY <1>4, <2>1, BeginEffect
  <2>4. n \in Jobs
    BY <1>4, BeginEffect
  <2>. QED BY <1>3, <1>4, <2>2, <2>3, <2>4, BeginFits
<1>5. ASSUME NEW d \in Domains, ExpireBegin(d) PROVE OneAtATime'
  <2>1. (\A m \in Jobs : ~Busy(m)) /\ ~Syncing
    BY <1>5, AloneAtStart, ExpireEffect
  <2>2. ~Syncing' /\ 0 \in Jobs
    BY <1>2, <1>5, <2>1, ExpireEffect
  <2>3. \A m \in Jobs \ {0} : ~Busy(m) /\ job'[m] = job[m]
    BY <1>5, <2>1, ExpireEffect
  <2>. QED BY <1>3, <1>5, <2>2, <2>3, ExpireFits
<1>6. ASSUME NEW n \in Jobs, Step(n) PROVE OneAtATime'
  <2>1. Busy(n) /\ UNCHANGED sync /\ \A m \in Jobs \ {n} : job'[m] = job[m]
    BY <1>6, StepFacts
  <2>2. ~Syncing' /\ Fits(n, job[n]) /\ \A m \in Jobs \ {n} : ~Busy(m)
    BY <1>2, <2>1 DEF OneAtATime
  <2>. QED BY <1>3, <1>6, <2>1, <2>2, FitsStep
<1>7. CASE SyncRead
  <2>1. (\A m \in Jobs : ~Busy(m)) /\ ~Syncing
    BY <1>7, AloneAtStart DEF SyncRead
  <2>. QED BY <1>7, <2>1 DEF SyncRead, OneAtATime, Busy
<1>8. ASSUME NEW d \in Domains, SyncWrite(d) PROVE OneAtATime'
  <2>1. \A e \in Domains : sync'.todo[e] \in {None, sync.todo[e]}
    BY <1>1, <1>8 DEF SyncWrite, SyncTyped
  <2>2. Syncing /\ UNCHANGED <<rows, job>>
    BY <1>8 DEF SyncWrite, Syncing
  <2>. QED BY <2>1, <2>2 DEF OneAtATime, Busy, Fits
<1>9. CASE SyncWritten
  <2>1. sync'.todo = sync.todo /\ Syncing
    BY <1>1, <1>9 DEF SyncWritten, SyncTyped, Syncing
  <2>. QED BY <1>9, <2>1 DEF SyncWritten, OneAtATime, Busy, Fits
<1>10. CASE SyncMiddleware \/ SyncFails
  <2>1. ~Syncing' /\ UNCHANGED <<rows, job>>
    BY <1>1, <1>10 DEF SyncMiddleware, SyncFails, Syncing, SyncTyped
  <2>. QED BY <2>1 DEF OneAtATime, Busy, Fits
<1>11. CASE Killed
  <2>1. ~Syncing' /\ \A n \in Jobs : ~Busy(n)'
    BY <1>11 DEF Killed, Syncing, Busy, Ended, NoJob
  <2>. QED BY <2>1 DEF OneAtATime
<1>12. CASE UNCHANGED vars
  BY <1>12 DEF vars, OneAtATime, Busy, Fits, Syncing
<1>. QED BY <1>4, <1>5, <1>6, <1>7, <1>8, <1>9, <1>10, <1>11, <1>12 DEF Next, SyncStep

\* Only coroutine n moves, if any, and no other runs.
Only(n) == /\ \A m \in Jobs \ {n} : ~Busy(m) /\ job'[m] = job[m]
           /\ sync'.pc = sync.pc

\* In a serial run every step is that of the only coroutine.
LEMMA OnlyOne ==
  ASSUME Serial, TypeInv, OneAtATime
  PROVE  /\ \A n \in Requests : Begin(n) => Only(n) /\ ~Busy(n) /\ n \in Jobs
         /\ \A d \in Domains : ExpireBegin(d) => Only(0) /\ ~Busy(0) /\ 0 \in Jobs
         /\ \A n \in Jobs : Step(n) => Only(n) /\ Busy(n) /\ Fits(n, job[n])
<1>1. ASSUME NEW n \in Requests, Begin(n) PROVE Only(n) /\ ~Busy(n) /\ n \in Jobs
  <2>1. sync'.pc = sync.pc
    BY <1>1, BeginEffect DEF TypeInv, SyncTyped
  <2>. QED BY <1>1, <2>1, BeginEffect, AloneAtStart DEF Only
<1>2. ASSUME NEW d \in Domains, ExpireBegin(d) PROVE Only(0) /\ ~Busy(0) /\ 0 \in Jobs
  <2>1. sync'.pc = sync.pc
    BY <1>2, ExpireEffect DEF TypeInv, SyncTyped
  <2>. QED BY <1>2, <2>1, ExpireEffect, AloneAtStart DEF Only
<1>3. ASSUME NEW n \in Jobs, Step(n) PROVE Only(n) /\ Busy(n) /\ Fits(n, job[n])
  <2>1. Busy(n) /\ sync' = sync /\ \A m \in Jobs \ {n} : job'[m] = job[m]
    BY <1>3, StepFacts
  <2>. QED BY <2>1 DEF OneAtATime, Only
<1>. QED BY <1>1, <1>2, <1>3

\* What a coroutine makes of the row of its domain.
Target(j) == IF j.op = "delete" THEN None ELSE j.svc

\* In a serial run every commit finds the row as the coroutine left it.
LEMMA CommitResult ==
  ASSUME TypeInv, NEW n \in Jobs, Fits(n, job[n]), Commit(n)
  PROVE  Committable(n) /\ NewRow(n) = Target(job[n])
<1> DEFINE j == job[n]
           r == rows[job[n].d]
<1>1. /\ j.op \in Ops /\ j.svc \in Service /\ j.d \in Domains /\ j.pc = "commit"
      /\ j.svc # None /\ r \in Service \cup {None}
  BY StepFacts, NoServiceAssumption DEF Step, Commit, At, TypeInv, StoresTyped
<1>2. CASE j.op = "delete"
  BY <1>1, <1>2 DEF Fits, Committable, NewRow, Target
<1>3. CASE j.op = "create"
  BY <1>1, <1>3 DEF Fits, Committable, NewRow, Target
<1>4. CASE j.op \in {"update", "expire"}
  <2>1. j.base = r /\ r \in Service /\ r.id = j.svc.id /\ r # None
    BY <1>1, <1>4 DEF Fits
  <2>2. Committable(n)
    BY <1>4, <2>1 DEF Committable
  <2>3. CASE r = j.svc
    <3>1. NewRow(n) = r
      BY <1>4, <2>1, <2>3 DEF NewRow
    <3>. QED BY <1>4, <2>2, <2>3, <3>1 DEF Target
  <2>4. CASE r # j.svc
    <3>1. NewRow(n) = [f \in DOMAIN r |-> IF j.svc[f] # r[f] THEN j.svc[f] ELSE r[f]]
      BY <1>4, <2>1, <2>4 DEF NewRow
    <3>2. [f \in DOMAIN r |-> IF j.svc[f] # r[f] THEN j.svc[f] ELSE r[f]] = j.svc
      BY <1>1, <2>1 DEF Service
    <3>. QED BY <1>4, <3>1, <3>2, <2>2 DEF Target
  <2>. QED BY <2>2, <2>3, <2>4
<1>. QED BY <1>1, <1>2, <1>3, <1>4 DEF Ops

-----------------------------------------------------------------------------
(* Route files.                                                            *)

\* Past the write, or the removal, of its file.
Written(j) == j.pc \in {"save", "commit", "del_row"} \/ (j.op = "delete" /\ j.pc = "count")

\* The coroutines at work on a domain.
Working(d) == {n \in Jobs : Busy(n) /\ job[n].d = d}

\* A file follows the row, or what the coroutine past its write will make of it.
RoutesFollow ==
  /\ sync.pc = "idle"
  /\ \A d \in Domains : (\A n \in Working(d) : ~Written(job[n])) => files[d] = RouteOf(rows[d])
  /\ \A n \in Jobs : Busy(n) /\ Written(job[n]) => files[job[n].d] = RouteOf(Target(job[n]))

\* The mishaps that leave the route files right.
FileMishaps == {"call", "lost", "status"}

\* Mishaps and failures are never forgotten.
LEMMA SeenGrows ==
  ASSUME TypeInv, [Next]_vars
  PROVE  seen \subseteq seen' /\ failed \subseteq failed'
<1>1. ASSUME NEW n \in Requests, Begin(n) PROVE seen \subseteq seen' /\ failed \subseteq failed'
  BY <1>1, BeginEffect DEF Untouched
<1>2. ASSUME NEW d \in Domains, ExpireBegin(d)
      PROVE  seen \subseteq seen' /\ failed \subseteq failed'
  BY <1>2, ExpireEffect DEF Untouched
<1>3. ASSUME NEW n \in Jobs, Step(n) PROVE seen \subseteq seen' /\ failed \subseteq failed'
  BY <1>3 DEF Step, create_proxy_provider, create_application, clear_group_policy,
     sync_group_policy, teardown, DeleteBinding, DeletePolicy, delete_application, delete_provider,
     CountServices, sync_cloudflare_record, WriteRoute, RollBack, rollback_cloudflare_record,
     delete_cloudflare_record,
     save, DeleteRow, Commit, AfterPolicy, Answered, Unanswered, Refused, Unnoticed, Goto,
     Finish, Fail, Become, Mishap, NoMishap, mishapVars
<1>4. SyncStep \/ Killed \/ UNCHANGED vars => seen \subseteq seen' /\ failed \subseteq failed'
  BY DEF SyncStep, SyncRead, SyncWrite, SyncWritten, SyncMiddleware, SyncFails, Killed, Mishap,
     NoMishap, mishapVars, vars
<1>. QED BY <1>1, <1>2, <1>3, <1>4 DEF Next

\* Steps before the write of the file, and steps after it.
LEMMA RoutesBefore ==
  ASSUME RoutesFollow, NEW n \in Jobs, Only(n), UNCHANGED <<rows, files>>,
         Busy(n) => ~Written(job[n]), Busy(n)' => ~Written(job'[n])
  PROVE  RoutesFollow'
BY DEF RoutesFollow, Only, Working, Busy

\* A step past the write of the file.
LEMMA RoutesAfter ==
  ASSUME RoutesFollow, NEW n \in Jobs, Only(n), UNCHANGED <<rows, files>>,
         Busy(n), Busy(n)', Written(job[n]), Written(job'[n]),
         job'[n].d = job[n].d, Target(job'[n]) = Target(job[n])
  PROVE  RoutesFollow'
<1>1. files'[job'[n].d] = RouteOf(Target(job'[n]))
  BY DEF RoutesFollow
<1>2. ASSUME NEW d \in Domains, \A m \in Working(d)' : ~Written(job'[m])
      PROVE  files'[d] = RouteOf(rows'[d])
  BY <1>2 DEF RoutesFollow, Only, Working, Busy
<1>. QED BY <1>1, <1>2 DEF RoutesFollow, Only, Working, Busy

\* The step that writes the file, and the one that commits.
LEMMA RoutesSet ==
  ASSUME TypeInv, RoutesFollow, NEW n \in Jobs, Only(n), Busy(n), job[n].d \in Domains,
         ~Written(job[n]), UNCHANGED rows, Busy(n)', Written(job'[n]), job'[n].d = job[n].d,
         files' = [files EXCEPT ![job[n].d] = RouteOf(Target(job'[n]))]
  PROVE  RoutesFollow'
<1>1. files'[job'[n].d] = RouteOf(Target(job'[n]))
  BY DEF TypeInv, StoresTyped
<1>2. ASSUME NEW d \in Domains, \A m \in Working(d)' : ~Written(job'[m])
      PROVE  files'[d] = RouteOf(rows'[d])
  BY <1>2 DEF RoutesFollow, Only, Working, Busy, TypeInv, StoresTyped
<1>. QED BY <1>1, <1>2 DEF RoutesFollow, Only, Working, Busy

\* A commit past the write of the file.
LEMMA RoutesCommitted ==
  ASSUME TypeInv, RoutesFollow, NEW n \in Jobs, Only(n), Busy(n), job[n].d \in Domains,
         Written(job[n]), UNCHANGED files, ~Busy(n)',
         rows' = [rows EXCEPT ![job[n].d] = Target(job[n])]
  PROVE  RoutesFollow'
<1>1. files[job[n].d] = RouteOf(Target(job[n]))
  BY DEF RoutesFollow
<1>2. ASSUME NEW d \in Domains PROVE files'[d] = RouteOf(rows'[d])
  BY <1>1 DEF RoutesFollow, Only, Working, Busy, TypeInv, StoresTyped
<1>. QED BY <1>2 DEF RoutesFollow, Only, Working, Busy

\* Every action keeps the route files in step with the rows.
LEMMA RoutesStep ==
  ASSUME Serial, TypeInv, OneAtATime, RoutesFollow, [Next]_vars, seen' \subseteq FileMishaps
  PROVE  RoutesFollow'
<1>1. ASSUME NEW n \in Requests, Begin(n) PROVE RoutesFollow'
  <2>1. Only(n) /\ ~Busy(n) /\ n \in Jobs /\ UNCHANGED <<rows, files>>
    BY <1>1, OnlyOne, BeginEffect DEF Untouched
  <2>2. Busy(n)' => ~Written(job'[n])
    BY <1>1, BeginLabels DEF Written
  <2>. QED BY <2>1, <2>2, RoutesBefore
<1>2. ASSUME NEW d \in Domains, ExpireBegin(d) PROVE RoutesFollow'
  <2>1. Only(0) /\ ~Busy(0) /\ 0 \in Jobs /\ UNCHANGED <<rows, files>>
    BY <1>2, OnlyOne, ExpireEffect DEF Untouched
  <2>2. ~Written(job'[0])
    BY <1>2, ExpireFields DEF Written
  <2>. QED BY <2>1, <2>2, RoutesBefore
<1>3. ASSUME NEW n \in Jobs, Step(n) PROVE RoutesFollow'
  <2>1. /\ Only(n) /\ Busy(n) /\ Fits(n, job[n]) /\ job[n].d \in Domains
        /\ job[n].op \in Ops /\ job[n].pc \in PcsOf(job[n].op)
    BY <1>3, OnlyOne, StepFacts DEF Fits
  <2>2. "disk" \notin seen' /\ "db" \notin seen'
    BY DEF FileMishaps
  <2>3. ASSUME UNCHANGED <<rows, files>>, ~Written(job[n]), Busy(n)' => ~Written(job'[n])
        PROVE  RoutesFollow'
    BY <2>1, <2>3, RoutesBefore
  <2>a. CASE create_proxy_provider(n)
    BY <2>a, <2>3, ProviderEffect DEF create_proxy_provider, At, Written, Moved, Stopped
  <2>b. CASE create_application(n)
    BY <2>b, <2>3, ApplicationEffect DEF create_application, At, Written, Moved, Stopped
  <2>c. CASE clear_group_policy(n) \/ teardown(n)
    BY <2>c, <2>3, ClearMoves DEF Written, Moved, Stopped
  <2>e. CASE sync_group_policy(n)
    BY <2>e, <2>3, PolicyEffect DEF sync_group_policy, At, Written, Moved, Stopped
  <2>f. CASE delete_application(n)
    BY <2>f, <2>3, ApplicationGone DEF delete_application, At, Written, Moved, Stopped
  <2>g. CASE delete_provider(n)
    BY <2>g, <2>3, ProviderGone DEF delete_provider, At, Written, Moved, Stopped, AfterProvider
  <2>h. CASE CountServices(n)
    <3>1. UNCHANGED <<rows, files>> /\ Moved(n, AfterCount(n), job[n].svc) /\ job[n].pc = "count"
      BY <2>2, <2>h, CountEffect DEF CountServices, At
    <3>2. CASE job[n].op = "delete"
      BY <2>1, <3>1, <3>2, RoutesAfter DEF Moved, Written, AfterCount, Target
    <3>3. CASE job[n].op # "delete"
      BY <2>3, <3>1, <3>3 DEF Moved, Written, AfterCount
    <3>. QED BY <3>2, <3>3
  <2>i. CASE sync_cloudflare_record(n)
    BY <2>i, <2>3, RecordEffect DEF sync_cloudflare_record, At, Written, Moved, Stopped
  <2>j. CASE WriteRoute(n)
    <3>1. /\ Moved(n, "save", job[n].svc) /\ UNCHANGED rows /\ job[n].pc = "write"
          /\ files' = [files EXCEPT ![job[n].d] = RouteOf(job[n].svc)]
      BY <2>2, <2>j, WriteEffect DEF WriteRoute, At
    <3>2. job[n].op # "delete"
      BY <2>1, <3>1 DEF PcsOf
    <3>. QED BY <2>1, <3>1, <3>2, RoutesSet DEF Moved, Written, Target
  <2>k. CASE rollback_cloudflare_record(n)
    BY <2>k, <2>3, UndoEffect DEF rollback_cloudflare_record, At, Written, Stopped
  <2>l. CASE delete_cloudflare_record(n)
    <3>1. job[n].pc = "del_dns" /\ UNCHANGED rows
      BY <2>l, RecordGone DEF delete_cloudflare_record, At
    <3>2. job[n].op = "delete"
      BY <2>1, <3>1 DEF PcsOf, Ops
    <3>3. CASE Moved(n, "del_row", job[n].svc) /\ files' = [files EXCEPT ![job[n].d] = None]
      <4>1. RouteOf(Target(job'[n])) = None
        BY <3>2, <3>3 DEF Moved, Target, RouteOf
      <4>. QED BY <2>1, <3>1, <3>3, <4>1, RoutesSet DEF Moved, Written
    <3>4. CASE Stopped(n) /\ files' = files
      BY <2>3, <3>1, <3>2, <3>4 DEF Stopped, Written
    <3>. QED BY <2>l, <3>3, <3>4, RecordGone
  <2>m. CASE save(n)
    <3>1. job[n].pc = "save"
      BY <2>m DEF save, At
    <3>2. Saved(n)
      BY <2>2, <2>m, SaveEffect
    <3>. QED BY <2>1, <2>m, <3>1, <3>2, SaveEffect, RoutesAfter DEF Written, Target, Saved
  <2>n. CASE DeleteRow(n)
    <3>1. job[n].pc = "del_row" /\ job[n].op = "delete"
      BY <2>1, <2>n DEF DeleteRow, At, PcsOf, Ops
    <3>. QED BY <2>1, <2>n, <3>1, RowGone, RoutesAfter DEF Moved, Written, Target, AfterRow
  <2>o. CASE Commit(n)
    <3>1. job[n].pc = "commit"
      BY <2>o DEF Commit, At
    <3>2. Committable(n) /\ NewRow(n) = Target(job[n])
      BY <2>1, <2>o, CommitResult
    <3>3. UNCHANGED files /\ ~Busy(n)' /\ rows' = [rows EXCEPT ![job[n].d] = Target(job[n])]
      BY <2>2, <2>o, <3>2, CommitEffect
    <3>. QED BY <2>1, <3>1, <3>3, RoutesCommitted DEF Written
  <2>. QED BY <1>3, <2>a, <2>b, <2>c, <2>e, <2>f, <2>g, <2>h, <2>i, <2>j, <2>k, <2>l, <2>m,
              <2>n, <2>o DEF Step
<1>4. ~SyncStep
  <2>1. sync.pc = "idle"
    BY DEF RoutesFollow
  <2>. QED BY <2>1 DEF SyncStep, SyncRead, SyncWrite, SyncWritten, SyncMiddleware, SyncFails
<1>5. ~Killed
  BY DEF Killed, Mishap, FileMishaps
<1>6. CASE UNCHANGED vars
  BY <1>6 DEF vars, RoutesFollow, Working, Busy
<1>. QED BY <1>1, <1>2, <1>3, <1>4, <1>5, <1>6 DEF Next

-----------------------------------------------------------------------------
(* Cloudflare records.                                                     *)

\* Past the change of its record.
Recorded(j) ==
  \/ j.op \in {"create", "update"} /\ j.pc \in {"write", "save", "commit"}
  \/ j.op = "delete" /\ j.pc \in {"del_row", "count", "commit"}

\* The record a row names.
RecOf(s) == IF s = None THEN None ELSE s.rec

\* A record follows the row, or what the coroutine past its change will make
\* of it; before that the coroutine's service names the record of the row.
RecordsFollow ==
  /\ \A d \in Zoned : (\A n \in Working(d) : ~Recorded(job[n])) => dns[d] = RecOf(rows[d])
  /\ \A n \in Jobs : Busy(n) /\ Recorded(job[n]) /\ job[n].d \in Zoned =>
       dns[job[n].d] = RecOf(Target(job[n]))
  /\ \A n \in Jobs : Busy(n) /\ ~Recorded(job[n]) =>
       job[n].pc # "undo" /\ job[n].svc.rec = RecOf(rows[job[n].d])

\* The mishaps that leave the Cloudflare records right.
RecordMishaps == {"call", "status"}

\* Steps before the change of the record, and steps after it.
LEMMA RecordsBefore ==
  ASSUME RecordsFollow, NEW n \in Jobs, Only(n), UNCHANGED <<rows, dns>>,
         Busy(n) => ~Recorded(job[n]),
         Busy(n)' => ~Recorded(job'[n]) /\ job'[n].pc # "undo"
                     /\ job'[n].svc.rec = RecOf(rows[job'[n].d])
  PROVE  RecordsFollow'
BY DEF RecordsFollow, Only, Working, Busy

\* A step past the change of the record.
LEMMA RecordsAfter ==
  ASSUME RecordsFollow, NEW n \in Jobs, Only(n), UNCHANGED <<rows, dns>>,
         Busy(n), Busy(n)', Recorded(job[n]), Recorded(job'[n]),
         job'[n].d = job[n].d, Target(job'[n]) = Target(job[n])
  PROVE  RecordsFollow'
<1>1. job'[n].d \in Zoned => dns'[job'[n].d] = RecOf(Target(job'[n]))
  BY DEF RecordsFollow
<1>2. ASSUME NEW d \in Zoned, \A m \in Working(d)' : ~Recorded(job'[m])
      PROVE  dns'[d] = RecOf(rows'[d])
  BY <1>2 DEF RecordsFollow, Only, Working, Busy
<1>. QED BY <1>1, <1>2 DEF RecordsFollow, Only, Working, Busy

\* The step that changes the record, and the one that commits.
LEMMA RecordsSet ==
  ASSUME TypeInv, RecordsFollow, NEW n \in Jobs, Only(n), Busy(n), job[n].d \in Domains,
         ~Recorded(job[n]), UNCHANGED rows, Busy(n)', Recorded(job'[n]), job'[n].d = job[n].d,
         \E r : /\ dns' = [dns EXCEPT ![job[n].d] = r] \/ (job[n].d \notin Zoned /\ dns' = dns)
                /\ job[n].d \in Zoned => r = RecOf(Target(job'[n]))
  PROVE  RecordsFollow'
<1>1. job'[n].d \in Zoned => dns'[job'[n].d] = RecOf(Target(job'[n]))
  BY DEF TypeInv, StoresTyped
<1>2. ASSUME NEW d \in Zoned, \A m \in Working(d)' : ~Recorded(job'[m])
      PROVE  dns'[d] = RecOf(rows'[d])
  BY <1>2, ZonedAssumption DEF RecordsFollow, Only, Working, Busy, TypeInv, StoresTyped
<1>. QED BY <1>1, <1>2 DEF RecordsFollow, Only, Working, Busy

\* A commit past the change of the record, or of a transition, which has none.
LEMMA RecordsCommitted ==
  ASSUME TypeInv, RecordsFollow, NEW n \in Jobs, Only(n), Busy(n), job[n].d \in Domains,
         Recorded(job[n]) \/ (job[n].op = "expire" /\ Target(job[n]) # None),
         UNCHANGED dns, ~Busy(n)', rows' = [rows EXCEPT ![job[n].d] = Target(job[n])]
  PROVE  RecordsFollow'
<1>1. job[n].d \in Zoned => dns[job[n].d] = RecOf(Target(job[n]))
  <2>1. CASE Recorded(job[n])
    BY <2>1 DEF RecordsFollow
  <2>2. CASE ~Recorded(job[n])
    <3>1. job[n].svc.rec = RecOf(rows[job[n].d]) /\ Target(job[n]) = job[n].svc
      BY <2>2 DEF RecordsFollow, Target
    <3>2. job[n].d \in Zoned => dns[job[n].d] = RecOf(rows[job[n].d])
      BY <2>2 DEF RecordsFollow, Only, Working
    <3>. QED BY <2>2, <3>1, <3>2 DEF RecOf
  <2>. QED BY <2>1, <2>2
<1>2. ASSUME NEW d \in Zoned PROVE dns'[d] = RecOf(rows'[d])
  BY <1>1, ZonedAssumption DEF RecordsFollow, Only, Working, Busy, TypeInv, StoresTyped
<1>. QED BY <1>2 DEF RecordsFollow, Only, Working, Busy

\* The record a new coroutine's service names is the one of the row.
LEMMA BeginRecord ==
  ASSUME TypeInv, NEW n \in Requests, Begin(n), Busy(n)'
  PROVE  job'[n].svc.rec = RecOf(rows[job'[n].d])
<1>1. ASSUME NEW l, NEW o, NEW d \in Domains, NEW s, Started(n, l, o, d, s), s.rec = RecOf(rows[d])
      PROVE  job'[n].svc.rec = RecOf(rows[job'[n].d])
  BY <1>1 DEF Started
<1>2. ASSUME NEW d \in Domains, rows[d] \in Service
      PROVE  /\ rows[d].rec = RecOf(rows[d])
             /\ \A s \in Updated(rows[d]) : s.rec = RecOf(rows[d])
  BY <1>2, UpdatedKeeps, NoServiceAssumption DEF RecOf
<1>3. \A d, m, a, g : rows[d] = None => NewService(n, m, a, g).rec = RecOf(rows[d])
  BY NewServiceFields DEF RecOf
<1>. QED BY <1>1, <1>2, <1>3, BeginEffect

\* Every action keeps the records in step with the rows.
LEMMA RecordsStep ==
  ASSUME Serial, TypeInv, OneAtATime, RecordsFollow, [Next]_vars, seen' \subseteq RecordMishaps
  PROVE  RecordsFollow'
<1>1. ASSUME NEW n \in Requests, Begin(n) PROVE RecordsFollow'
  <2>1. Only(n) /\ ~Busy(n) /\ n \in Jobs /\ UNCHANGED <<rows, dns>>
    BY <1>1, OnlyOne, BeginEffect DEF Untouched
  <2>2. Busy(n)' => ~Recorded(job'[n]) /\ job'[n].pc # "undo"
    BY <1>1, BeginLabels DEF Recorded
  <2>. QED BY <1>1, <2>1, <2>2, RecordsBefore, BeginRecord
<1>2. ASSUME NEW d \in Domains, ExpireBegin(d) PROVE RecordsFollow'
  <2>1. Only(0) /\ ~Busy(0) /\ 0 \in Jobs /\ UNCHANGED <<rows, dns>>
    BY <1>2, OnlyOne, ExpireEffect DEF Untouched
  <2>2. ~Recorded(job'[0]) /\ job'[0].pc # "undo"
    BY <1>2, ExpireFields DEF Recorded
  <2>3. SetMode(rows[d], "active").rec = rows[d].rec
    BY <1>2, ExpireEffect DEF SetMode, Service
  <2>. QED BY <1>2, <2>1, <2>2, <2>3, RecordsBefore, ExpireFields DEF RecOf
<1>3. ASSUME NEW n \in Jobs, Step(n) PROVE RecordsFollow'
  <2>1. /\ Only(n) /\ Busy(n) /\ Fits(n, job[n]) /\ job[n].d \in Domains
        /\ job[n].op \in Ops /\ job[n].pc \in PcsOf(job[n].op) /\ job[n].svc \in Service
    BY <1>3, OnlyOne, StepFacts DEF Fits
  <2>2. "disk" \notin seen' /\ "db" \notin seen' /\ "lost" \notin seen' /\ job[n].svc # None
    BY <2>1, NoServiceAssumption DEF RecordMishaps
  <2>3. ASSUME UNCHANGED <<rows, dns>>, ~Recorded(job[n]), NEW l, NEW s,
               ~Busy(n)' \/ Moved(n, l, s), s.rec = job[n].svc.rec,
               l \notin {"undo", "write", "save", "commit", "del_row", "count"}
                 \/ (job[n].op \in {"update", "expire"} /\ l \in {"count", "save"}
                       /\ ~Recorded(job'[n]))
        PROVE  RecordsFollow'
    <3>1. job[n].svc.rec = RecOf(rows[job[n].d])
      BY <2>1, <2>3 DEF RecordsFollow
    <3>. QED BY <2>1, <2>3, <3>1, RecordsBefore DEF Moved, Recorded
  <2>4. /\ \A i : [job[n].svc EXCEPT !.prov = i].rec = job[n].svc.rec
        /\ \A i : [job[n].svc EXCEPT !.pol = i].rec = job[n].svc.rec
        /\ Unprovided(job[n].svc).rec = job[n].svc.rec
    BY <2>1 DEF Service, Unprovided
  <2>a. CASE create_proxy_provider(n)
    BY <2>a, <2>3, ProviderEffect DEF create_proxy_provider, At, Recorded, Moved, Stopped
  <2>b. CASE create_application(n)
    <3>1. /\ UNCHANGED <<rows, dns>> /\ ~Recorded(job[n])
          /\ ~Busy(n)' \/ Moved(n, "clear", [job[n].svc EXCEPT !.prov = n])
      BY <2>b, ApplicationEffect DEF create_application, At, Recorded, Stopped
    <3>. QED BY <2>3, <2>4, <3>1
  <2>c. CASE clear_group_policy(n) \/ teardown(n)
    <3>1. PICK s \in {job[n].svc, [job[n].svc EXCEPT !.pol = None]} :
            \/ ~Busy(n)'
            \/ \E l \in {"clear_policy", "policy", "teardown_policy", "del_application"} :
                 Moved(n, l, s)
      BY <2>c, ClearMoves DEF Stopped
    <3>2. UNCHANGED <<rows, dns>> /\ ~Recorded(job[n]) /\ s.rec = job[n].svc.rec
      BY <2>4, <2>c, <3>1, ClearMoves DEF Recorded
    <3>3. PICK l \in {"clear_policy", "policy", "teardown_policy", "del_application"} :
            ~Busy(n)' \/ Moved(n, l, s)
      BY <3>1
    <3>. QED BY <2>3, <3>2, <3>3
  <2>e. CASE sync_group_policy(n)
    <3>1. /\ UNCHANGED <<rows, dns>> /\ ~Recorded(job[n])
          /\ \/ ~Busy(n)' \/ Moved(n, "dns", job[n].svc)
             \/ Moved(n, "dns", [job[n].svc EXCEPT !.pol = n])
      BY <2>e, PolicyEffect DEF sync_group_policy, At, Recorded, Stopped
    <3>. QED BY <2>3, <2>4, <3>1
  <2>f. CASE delete_application(n)
    BY <2>f, <2>3, ApplicationGone DEF delete_application, At, Recorded, Moved, Stopped
  <2>g. CASE delete_provider(n)
    <3>1. /\ UNCHANGED <<rows, dns>> /\ job[n].pc = "del_provider" /\ ~Recorded(job[n])
          /\ ~Busy(n)' \/ Moved(n, AfterProvider(n), Unprovided(job[n].svc))
      BY <2>g, ProviderGone DEF delete_provider, At, Recorded, Stopped
    <3>2. AfterProvider(n) = "del_dns" \/ (AfterProvider(n) = "count" /\ job[n].op = "update")
      BY <2>1, <3>1 DEF AfterProvider, PcsOf, Ops
    <3>3. ~Busy(n)' \/ ~Recorded(job'[n])
      BY <3>1, <3>2 DEF Moved, Recorded
    <3>4. CASE ~Busy(n)'
      BY <2>3, <3>1, <3>4
    <3>. QED BY <2>3, <2>4, <3>1, <3>2, <3>3, <3>4
  <2>h. CASE CountServices(n)
    <3>1. UNCHANGED <<rows, dns>> /\ Moved(n, AfterCount(n), job[n].svc) /\ job[n].pc = "count"
      BY <2>2, <2>h, CountEffect DEF CountServices, At
    <3>2. CASE job[n].op = "delete"
      BY <2>1, <3>1, <3>2, RecordsAfter DEF Moved, Recorded, AfterCount, Target
    <3>3. CASE job[n].op # "delete"
      BY <2>3, <3>1, <3>3 DEF Moved, Recorded, AfterCount
    <3>. QED BY <3>2, <3>3
  <2>i. CASE sync_cloudflare_record(n)
    <3>1. job[n].pc = "dns" /\ UNCHANGED rows /\ job[n].op \in {"create", "update"}
      BY <2>1, <2>i, RecordEffect DEF sync_cloudflare_record, At, PcsOf, Ops
    <3>2. CASE Moved(n, "write", [job[n].svc EXCEPT !.rec = RecordOf(n)])
               /\ dns' = [dns EXCEPT ![job[n].d] = RecordOf(n)]
      <4>1. [job[n].svc EXCEPT !.rec = RecordOf(n)].rec = RecordOf(n)
        BY <2>1 DEF Service
      <4>2. [job[n].svc EXCEPT !.rec = RecordOf(n)] # None
        <5>1. n \in Ids
          BY <2>1, <3>1, <1>3, StepFacts DEF Sound
        <5>2. RecordOf(n) \in Ids \cup {None}
          BY <2>1, <5>1 DEF RecordOf, upsert_service_dns_record, TypeInv, StoresTyped
        <5>. QED BY <2>1, <5>2, ServiceChanges, NoServiceAssumption
      <4>3. RecOf(Target(job'[n])) = RecordOf(n)
        BY <3>1, <3>2, <4>1, <4>2 DEF Moved, Target, RecOf
      <4>. QED BY <2>1, <3>1, <3>2, <4>3, RecordsSet DEF Moved, Recorded
    <3>3. CASE Stopped(n) /\ dns' = dns
      BY <2>3, <3>1, <3>3 DEF Recorded, Stopped
    <3>. QED BY <2>2, <2>i, <3>2, <3>3, RecordEffect
  <2>j. CASE WriteRoute(n)
    <3>1. /\ Moved(n, "save", job[n].svc) /\ UNCHANGED <<rows, dns>> /\ job[n].pc = "write"
          /\ job[n].op # "delete"
      BY <2>1, <2>2, <2>j, WriteEffect DEF WriteRoute, At, PcsOf
    <3>2. CASE job[n].op = "expire"
      BY <2>3, <3>1, <3>2 DEF Moved, Recorded
    <3>3. CASE job[n].op # "expire"
      BY <2>1, <3>1, <3>3, RecordsAfter DEF Moved, Recorded, Target, Ops
    <3>. QED BY <3>2, <3>3
  <2>k. CASE rollback_cloudflare_record(n)
    BY <2>1, <2>k DEF rollback_cloudflare_record, At, RecordsFollow, Recorded
  <2>l. CASE delete_cloudflare_record(n)
    <3>1. job[n].pc = "del_dns" /\ UNCHANGED rows /\ job[n].op = "delete"
      BY <2>1, <2>l, RecordGone DEF delete_cloudflare_record, At, PcsOf, Ops
    <3>2. CASE Moved(n, "del_row", job[n].svc) /\ dns' = RecordsLeft(n)
      <4>1. RecOf(Target(job'[n])) = None
        BY <3>1, <3>2 DEF Moved, Target, RecOf
      <4>2. job[n].d \in Zoned => dns' = [dns EXCEPT ![job[n].d] = None]
        <5>1. ~Recorded(job[n])
          BY <3>1 DEF Recorded
        <5>2. job[n].d \in Zoned => dns[job[n].d] = job[n].svc.rec
          BY <2>1, <5>1 DEF RecordsFollow, Only, Working
        <5>. QED BY <3>2, <5>2 DEF RecordsLeft, DnsDeleted
      <4>3. job[n].d \notin Zoned => dns' = dns
        BY <3>2 DEF RecordsLeft
      <4>. QED BY <2>1, <3>1, <3>2, <4>1, <4>2, <4>3, RecordsSet DEF Moved, Recorded
    <3>3. CASE Stopped(n) /\ dns' = dns
      BY <2>3, <3>1, <3>3 DEF Stopped, Recorded
    <3>. QED BY <2>2, <2>l, <3>2, <3>3, RecordGone
  <2>m. CASE save(n)
    <3>1. job[n].pc = "save" /\ job[n].op # "delete"
      BY <2>1, <2>m DEF save, At, PcsOf
    <3>2. /\ UNCHANGED <<rows, dns>> /\ Busy(n)' /\ job'[n].op = job[n].op
          /\ job'[n].d = job[n].d /\ job'[n].svc = job[n].svc /\ job'[n].pc = "commit"
      BY <2>2, <2>m, SaveEffect DEF Saved
    <3>3. CASE job[n].op = "expire"
      <4>1. ~Recorded(job[n]) /\ ~Recorded(job'[n])
        BY <3>2, <3>3 DEF Recorded
      <4>2. job[n].svc.rec = RecOf(rows[job[n].d])
        BY <2>1, <4>1 DEF RecordsFollow
      <4>. QED BY <2>1, <3>2, <4>1, <4>2, RecordsBefore
    <3>4. CASE job[n].op # "expire"
      BY <2>1, <3>1, <3>2, <3>4, RecordsAfter DEF Recorded, Target, Ops
    <3>. QED BY <3>3, <3>4
  <2>n. CASE DeleteRow(n)
    <3>1. job[n].pc = "del_row" /\ job[n].op = "delete"
      BY <2>1, <2>n DEF DeleteRow, At, PcsOf, Ops
    <3>. QED BY <2>1, <2>n, <3>1, RowGone, RecordsAfter DEF Moved, Recorded, Target, AfterRow
  <2>o. CASE Commit(n)
    <3>1. job[n].pc = "commit"
      BY <2>o DEF Commit, At
    <3>2. Committable(n) /\ NewRow(n) = Target(job[n])
      BY <2>1, <2>o, CommitResult
    <3>3. UNCHANGED dns /\ ~Busy(n)' /\ rows' = [rows EXCEPT ![job[n].d] = Target(job[n])]
      BY <2>2, <2>o, <3>2, CommitEffect
    <3>4. Recorded(job[n]) \/ (job[n].op = "expire" /\ Target(job[n]) # None)
      BY <2>1, <2>2, <3>1 DEF Recorded, Target, Ops
    <3>. QED BY <2>1, <3>3, <3>4, RecordsCommitted
  <2>. QED BY <1>3, <2>a, <2>b, <2>c, <2>e, <2>f, <2>g, <2>h, <2>i, <2>j, <2>k, <2>l, <2>m,
              <2>n, <2>o DEF Step
<1>4. ASSUME SyncStep PROVE RecordsFollow'
  <2>1. UNCHANGED <<rows, dns, job>>
    BY <1>4 DEF SyncStep, SyncRead, SyncWrite, SyncWritten, SyncMiddleware, SyncFails
  <2>. QED BY <2>1 DEF RecordsFollow, Working, Busy
<1>5. ~Killed
  BY DEF Killed, Mishap, RecordMishaps
<1>6. CASE UNCHANGED vars
  BY <1>6 DEF vars, RecordsFollow, Working, Busy
<1>. QED BY <1>1, <1>2, <1>3, <1>4, <1>5, <1>6 DEF Next

-----------------------------------------------------------------------------
(* What a deletion leaves.                                                 *)

\* A service without Authentik refers to nothing of it.
Owned(s) == s # None /\ ~uses_authentik(s) => s.prov = None /\ s.pol = None

\* Domain d with service s, or none: nothing is there without a service, and
\* no record or application that the service does not know.
Tidy(d, s) ==
  /\ s = None => files[d] = None /\ dns[d] = None /\ apps[d] = None
  /\ s # None => /\ d \notin Zoned => dns[d] = None
                 /\ s.rec = None \/ dns[d] \in {None, s.rec}
                 /\ s.prov = None => apps[d] = None

\* When domain d has service s and the others have their rows, each provider
\* (but for extra ones), each policy and the middleware file (unless it is
\* about to be counted for) belongs to some service.
Accounted(d, s, extra, leaving) ==
  /\ \A i \in provs : \/ i \in extra \/ (s # None /\ s.prov = i)
                      \/ \E e \in Domains \ {d} : rows[e] # None /\ rows[e].prov = i
  /\ \A p \in pols : \/ s # None /\ s.pol = p.id
                     \/ \E e \in Domains \ {d} : rows[e] # None /\ rows[e].pol = p.id
  /\ mwFile => \/ leaving \/ (s # None /\ uses_authentik(s))
               \/ \E e \in Domains \ {d} : rows[e] # None /\ uses_authentik(rows[e])
  /\ Tidy(d, s)
  /\ \A e \in Domains \ {d} : Tidy(e, rows[e])

\* The same when every domain has its row.
AllAccounted ==
  /\ \A i \in provs : \E d \in Domains : rows[d] # None /\ rows[d].prov = i
  /\ \A p \in pols : \E d \in Domains : rows[d] # None /\ rows[d].pol = p.id
  /\ mwFile => \E d \in Domains : rows[d] # None /\ uses_authentik(rows[d])
  /\ \A d \in Domains : Tidy(d, rows[d])

\* The service a coroutine answers for, the provider nobody refers to yet,
\* and whether the middleware file is still to be counted for.
Held(j) == IF j.op = "delete" /\ j.pc = "commit" THEN None ELSE j.svc
\* The provider that no service refers to yet.
Extra(n, j) == IF j.pc = "application" THEN {n} ELSE {}
\* Whether the middleware file is still to be counted for.
Leaving(j) ==
  /\ j.op = "update"
  /\ j.pc \in {"teardown", "teardown_policy", "del_application", "del_provider", "count"}

\* What is known of the service and of the stores at each label.
LeftHere(j) ==
  /\ j.pc \in {"provider", "application"} =>
       j.svc.prov = None /\ j.svc.pol = None /\ uses_authentik(j.svc)
  /\ j.pc \in {"clear", "clear_policy", "policy"} => uses_authentik(j.svc)
  /\ j.pc \in {"policy", "del_application", "del_provider"} => j.svc.pol = None
  /\ j.pc = "del_provider" => apps[j.d] = None
  /\ Leaving(j) => ~uses_authentik(j.svc)
  /\ j.pc = "count" /\ j.op = "update" => j.svc.prov = None /\ j.svc.pol = None
  /\ j.op = "delete" =>
       /\ j.svc.rec = rows[j.d].rec /\ j.svc.auth = rows[j.d].auth
       /\ j.svc.prov \in {None, rows[j.d].prov} /\ j.svc.pol \in {None, rows[j.d].pol}
       /\ j.pc \in {"del_dns", "del_row", "count", "commit"} =>
            j.svc.prov = None /\ j.svc.pol = None
       /\ j.pc \in {"del_row", "count", "commit"} => files[j.d] = None /\ dns[j.d] = None
  /\ j.pc \in {"dns", "write", "save", "commit"} /\ j.op # "delete" => Owned(j.svc)

\* Nothing is left over while only deletions fail.
NothingLeft ==
  /\ \A d \in Domains : Owned(rows[d])
  /\ (\A n \in Jobs : ~Busy(n)) => AllAccounted
  /\ \A n \in Jobs : Busy(n) /\ job[n].pc # "undo" =>
       /\ LeftHere(job[n])
       /\ Accounted(job[n].d, Held(job[n]), Extra(n, job[n]), Leaving(job[n]))

\* To account for a domain with its own row is to account for all.
LEMMA AccountedAll ==
  ASSUME NEW d \in Domains
  PROVE  AllAccounted <=> Accounted(d, rows[d], {}, FALSE)
BY DEF AllAccounted, Accounted

\* The same in the next state.
LEMMA AccountedAllNext ==
  ASSUME NEW d \in Domains
  PROVE  AllAccounted' <=> Accounted(d, rows[d], {}, FALSE)'
BY DEF AllAccounted, Accounted

\* A step after which coroutine n still runs, and one after which none does.
LEMMA LeftMoved ==
  ASSUME NothingLeft, NEW n \in Jobs, Only(n), UNCHANGED rows,
         NEW d \in Domains, NEW j, job'[n] = j, j.d = d, Busy(n)',
         LeftHere(j)', Accounted(d, Held(j), Extra(n, j), Leaving(j))'
  PROVE  NothingLeft'
<1>1. \A e \in Domains : Owned(rows[e])'
  BY DEF NothingLeft, Owned
<1>2. Accounted(job[n].d, Held(job[n]), Extra(n, job[n]), Leaving(job[n]))' /\ LeftHere(job[n])'
  BY DEF LeftHere, Accounted, Held, Extra, Leaving
<1>3. \A m \in Jobs : Busy(m)' => m = n
  BY DEF Only, Busy
<1>. QED BY <1>1, <1>2, <1>3 DEF NothingLeft

\* A step after which no coroutine runs.
LEMMA LeftIdle ==
  ASSUME NEW n \in Jobs, Only(n), ~Busy(n)', AllAccounted', \A e \in Domains : Owned(rows[e])'
  PROVE  NothingLeft'
BY DEF NothingLeft, Only, Busy

\* Only the objects of one domain go, a policy perhaps without its binding.
LEMMA Unbinds ==
  ASSUME NEW d \in Domains, NEW s, NEW extra, NEW leaving, Accounted(d, s, extra, leaving),
         UNCHANGED <<rows, mwFile>>, provs' \subseteq provs,
         \A p \in pols' : \E q \in pols : q.id = p.id,
         \A e \in Domains : /\ files'[e] \in {files[e], None} /\ dns'[e] \in {dns[e], None}
                            /\ apps'[e] \in {apps[e], None}
  PROVE  Accounted(d, s, extra, leaving)'
<1>1. ASSUME NEW e \in Domains, NEW t, Tidy(e, t)
      PROVE  Tidy(e, t)'
  BY <1>1 DEF Tidy
<1>. QED BY <1>1 DEF Accounted

\* Only the objects of one domain go.
LEMMA Shrinks ==
  ASSUME NEW d \in Domains, NEW s, NEW extra, NEW leaving, Accounted(d, s, extra, leaving),
         UNCHANGED <<rows, mwFile>>, provs' \subseteq provs, pols' \subseteq pols,
         \A e \in Domains : /\ files'[e] \in {files[e], None} /\ dns'[e] \in {dns[e], None}
                            /\ apps'[e] \in {apps[e], None}
  PROVE  Accounted(d, s, extra, leaving)'
<1>1. ASSUME NEW e \in Domains, NEW t, Tidy(e, t)
      PROVE  Tidy(e, t)'
  BY <1>1 DEF Tidy
<1>. QED BY <1>1 DEF Accounted

\* A deletion that ends early leaves the row with all there still is.
LEMMA LeftWithRow ==
  ASSUME NEW d \in Domains, NEW s, NEW r, r = rows[d], r # None, rows' = rows,
         Accounted(d, s, {}, FALSE)',
         s # None => s.rec = r.rec /\ s.auth = r.auth /\ s.prov \in {None, r.prov}
                     /\ s.pol \in {None, r.pol},
         provs' \subseteq Ids, pols' \subseteq Policy
  PROVE  AllAccounted'
<1>1. \A i \in provs' : i # None
  BY NoneAssumption DEF Ids, Requests
<1>2. \A p \in pols' : p.id # None
  BY NoneAssumption DEF Ids, Requests, Policy
<1>3. Tidy(d, r)'
  BY DEF Accounted, Tidy
<1>4. Accounted(d, r, {}, FALSE)'
  BY <1>1, <1>2, <1>3 DEF Accounted, uses_authentik
<1>5. Accounted(d, rows[d], {}, FALSE)'
  BY <1>4 DEF Accounted
<1>. QED BY <1>5, AccountedAllNext

\* A commit: the row is what the coroutine answered for.
LEMMA LeftCommitted ==
  ASSUME TypeInv, NEW d \in Domains, NEW t, Accounted(d, t, {}, FALSE),
         rows' = [rows EXCEPT ![d] = t], UNCHANGED <<files, mwFile, provs, apps, pols, dns>>
  PROVE  AllAccounted'
<1>1. rows'[d] = t /\ \A e \in Domains \ {d} : rows'[e] = rows[e]
  BY DEF TypeInv, StoresTyped
<1>2. Tidy(d, t)' /\ \A e \in Domains \ {d} : Tidy(e, rows[e])'
  BY <1>1 DEF Accounted, Tidy
<1>3. Accounted(d, rows[d], {}, FALSE)'
  BY <1>1, <1>2 DEF Accounted
<1>. QED BY <1>3, AccountedAllNext

\* Every step accounts for what it makes and for what it deletes.
LEMMA LeftStep ==
  ASSUME Serial, TypeInv, OneAtATime, NothingLeft, NEW n \in Jobs, Step(n),
         failed' \subseteq {"delete"}, "status" \notin seen'
  PROVE  NothingLeft'
<1>1. /\ Only(n) /\ Busy(n) /\ Fits(n, job[n]) /\ job[n].d \in Domains
      /\ job[n].op \in Ops /\ job[n].pc \in PcsOf(job[n].op) /\ job[n].svc \in Service
      /\ job[n] \in Job
  BY OnlyOne, StepFacts DEF Fits
<1>2. PICK j : j = job[n]
  OBVIOUS
<1>3. PICK k : k = job'[n]
  OBVIOUS
<1>4. PICK d \in Domains, s \in Service : d = j.d /\ s = j.svc
  BY <1>1, <1>2
<1>5. /\ s # None /\ provs \subseteq Ids /\ provs' \subseteq Ids /\ pols \subseteq Policy
      /\ pols' \subseteq Policy /\ apps \in [Domains -> Ids \cup {None}]
      /\ dns \in [Domains -> Ids \cup {None}] /\ files \in [Domains -> Routes \cup {None}]
      /\ rows \in [Domains -> Service \cup {None}]
  BY NoServiceAssumption, StepTyped DEF TypeInv, StoresTyped
<1>6. /\ \A i \in Ids : i # None
      /\ \A p \in Policy : p.id # None
  BY NoneAssumption DEF Ids, Requests, Policy
<1>7. j.pc # "undo" => LeftHere(j) /\ Accounted(d, Held(j), Extra(n, j), Leaving(j))
  BY <1>1, <1>2, <1>4 DEF NothingLeft
<1>8. Stopped(n) => j.op = "delete"
  BY <1>2 DEF Stopped
<1>9. ASSUME Busy(n)', rows' = rows, k.d = d, LeftHere(k)',
             Accounted(d, Held(k), Extra(n, k), Leaving(k))'
      PROVE  NothingLeft'
  BY <1>1, <1>3, <1>9, LeftMoved
<1>10. ASSUME ~Busy(n)', rows' = rows, j.op = "delete", NEW t, Accounted(d, t, {}, FALSE)',
              t \in {None, s}
       PROVE  NothingLeft'
  <2>1. PICK r : r = rows[d]
    OBVIOUS
  <2>2. r # None /\ (t # None => /\ s.rec = r.rec /\ s.auth = r.auth /\ s.prov \in {None, r.prov}
                                 /\ s.pol \in {None, r.pol})
    BY <1>1, <1>2, <1>4, <1>7, <1>10, <2>1 DEF LeftHere, Fits, PcsOf
  <2>3. AllAccounted'
    BY <1>5, <1>10, <2>1, <2>2, LeftWithRow
  <2>4. \A e \in Domains : Owned(rows[e])'
    BY <1>10 DEF NothingLeft, Owned
  <2>. QED BY <1>1, <1>10, <2>3, <2>4, LeftIdle
<1>a. CASE create_proxy_provider(n)
  <2>1. j.pc = "provider" /\ j.op # "delete" /\ j.op # "expire"
    BY <1>a, <1>1, <1>2 DEF create_proxy_provider, At, PcsOf
  <2>2. /\ Moved(n, "application", job[n].svc) /\ provs' = provs \cup {n}
        /\ UNCHANGED <<rows, files, mwFile, apps, pols, dns>>
    BY <1>a, <1>8, <2>1, ProviderEffect
  <2>3. k.pc = "application" /\ k.op = j.op /\ k.d = d /\ k.svc = s /\ Busy(n)'
    BY <1>2, <1>3, <1>4, <2>2 DEF Moved
  <2>4. Accounted(d, s, {}, FALSE)
    BY <1>4, <1>7, <2>1 DEF Held, Extra, Leaving
  <2>5. Accounted(d, s, {n}, FALSE)'
    BY <2>2, <2>4 DEF Accounted, Tidy
  <2>6. LeftHere(k)'
    BY <1>4, <1>7, <2>1, <2>3 DEF LeftHere, Leaving
  <2>. QED BY <1>9, <2>1, <2>2, <2>3, <2>5, <2>6 DEF Held, Extra, Leaving
<1>b. CASE create_application(n)
  <2>1. j.pc = "application" /\ j.op # "delete" /\ j.op # "expire"
    BY <1>b, <1>1, <1>2 DEF create_application, At, PcsOf
  <2>2. PICK t : t = [s EXCEPT !.prov = n]
    OBVIOUS
  <2>3. /\ Moved(n, "clear", t) /\ apps' = [apps EXCEPT ![d] = n]
        /\ UNCHANGED <<rows, files, mwFile, provs, pols, dns>>
    BY <1>b, <1>2, <1>4, <1>8, <2>1, <2>2, ApplicationEffect
  <2>4. k.pc = "clear" /\ k.op = j.op /\ k.d = d /\ k.svc = t /\ Busy(n)'
    BY <1>2, <1>3, <1>4, <2>3 DEF Moved
  <2>5. /\ t.prov = n /\ t.pol = s.pol /\ t.rec = s.rec /\ t.auth = s.auth /\ n \in Ids
        /\ t \in Service /\ t # None
    <3>1. n \in Ids
      BY <1>b, <1>1, StepFacts DEF create_application, At, Sound
    <3>2. t \in Service
      BY <2>2, <3>1, ServiceChanges
    <3>. QED BY <2>2, <3>1, <3>2, NoServiceAssumption DEF Service
  <2>6. Accounted(d, s, {n}, FALSE) /\ s.prov = None
    BY <1>4, <1>7, <2>1 DEF Held, Extra, Leaving, LeftHere
  <2>7. Accounted(d, t, {}, FALSE)'
    BY <1>5, <1>6, <2>3, <2>5, <2>6 DEF Accounted, Tidy, uses_authentik
  <2>8. LeftHere(k)'
    BY <1>4, <1>7, <2>1, <2>4, <2>5 DEF LeftHere, Leaving, uses_authentik
  <2>. QED BY <1>9, <2>1, <2>3, <2>4, <2>7, <2>8 DEF Held, Extra, Leaving
<1>c. ASSUME NEW next \in {"policy", "del_application"}, DeletePolicy(n, next),
             j.pc = (IF next = "policy" THEN "clear_policy" ELSE "teardown_policy"),
             next = "policy" => j.op # "delete", j.op \in {"create", "update", "delete"},
             next = "del_application" => j.op # "create"
      PROVE  NothingLeft'
  <2>1. PICK t : t = [s EXCEPT !.pol = None]
    OBVIOUS
  <2>2. /\ t.prov = s.prov /\ t.pol = None /\ t.rec = s.rec /\ t.auth = s.auth
        /\ t \in Service /\ t # None
    <3>1. t \in Service
      BY <2>1, ServiceChanges
    <3>. QED BY <2>1, <3>1, NoServiceAssumption DEF Service
  <2>3. Accounted(d, s, {}, Leaving(j)) /\ LeftHere(j)
    BY <1>4, <1>7, <1>c DEF Held, Extra
  <2>4. UNCHANGED <<rows, files, mwFile, provs, apps, dns>>
    BY <1>c, ClearEffect
  <2>5. CASE Stopped(n)
    <3>1. pols' \subseteq pols
      BY <1>c, ClearEffect
    <3>2. ~Leaving(j) /\ j.op = "delete" /\ ~Busy(n)'
      BY <1>8, <2>5 DEF Leaving, Stopped
    <3>3. Leaving(j) = FALSE
      BY <3>2 DEF Leaving
    <3>4. Accounted(d, s, {}, FALSE)
      BY <2>3, <3>3
    <3>5. Accounted(d, s, {}, FALSE)'
      BY <1>5, <2>4, <3>1, <3>4, Shrinks
    <3>. QED BY <1>10, <2>4, <3>2, <3>5
  <2>6. CASE ~Stopped(n)
    <3>1. Moved(n, next, t) /\ pols' = {p \in pols : p.id # s.pol}
      BY <1>2, <1>4, <1>c, <2>1, <2>6, ClearEffect
    <3>2. k.pc = next /\ k.op = j.op /\ k.d = d /\ k.svc = t /\ Busy(n)'
      BY <1>2, <1>3, <1>4, <3>1 DEF Moved
    <3>3. Leaving(k) = Leaving(j) /\ Held(k) = t /\ Extra(n, k) = {}
      BY <1>c, <3>2 DEF Leaving, Held, Extra
    <3>4. Accounted(d, t, {}, Leaving(j))'
      <4>1. Tidy(d, t)' /\ \A e \in Domains \ {d} : Tidy(e, rows[e])'
        BY <2>2, <2>3, <2>4, <1>5 DEF Accounted, Tidy
      <4>2. /\ \A i \in provs' : \/ t.prov = i
                                 \/ \E e \in Domains \ {d} : rows'[e] # None /\ rows'[e].prov = i
            /\ mwFile' => \/ Leaving(j) \/ uses_authentik(t)
                          \/ \E e \in Domains \ {d} : rows'[e] # None /\ uses_authentik(rows'[e])
        BY <1>5, <2>2, <2>3, <2>4 DEF Accounted, uses_authentik
      <4>3. \A p \in pols' : \E e \in Domains \ {d} : rows'[e] # None /\ rows'[e].pol = p.id
        BY <1>5, <2>3, <2>4, <3>1 DEF Accounted
      <4>4. Leaving(j)' = Leaving(j)
        BY DEF Leaving
      <4>. QED BY <2>2, <4>1, <4>2, <4>3, <4>4 DEF Accounted, uses_authentik
    <3>5. LeftHere(k)'
      BY <1>4, <1>c, <2>2, <2>3, <2>4, <3>2, <3>3 DEF LeftHere, Leaving, uses_authentik
    <3>6. Accounted(d, Held(k), Extra(n, k), Leaving(k))'
      BY <3>3, <3>4
    <3>. QED BY <1>9, <2>4, <3>2, <3>5, <3>6
  <2>. QED BY <2>5, <2>6
<1>11. ASSUME NEW deleting \in {"clear_policy", "teardown_policy"},
              NEW cleared \in {"policy", "del_application"}, DeleteBinding(n, deleting, cleared),
              deleting = (IF cleared = "policy" THEN "clear_policy" ELSE "teardown_policy"),
              j.pc = (IF cleared = "policy" THEN "clear" ELSE "teardown"),
              cleared = "policy" => j.op # "delete", j.op \in {"create", "update", "delete"},
              cleared = "del_application" => j.op # "create"
       PROVE  NothingLeft'
  <2>1. Accounted(d, s, {}, Leaving(j)) /\ LeftHere(j)
    BY <1>4, <1>7, <1>11 DEF Held, Extra
  <2>2. UNCHANGED <<rows, files, mwFile, provs, apps, dns>>
    BY <1>11, UnbindEffect
  <2>3. \A p \in pols' : \E q \in pols : q.id = p.id
    <3>1. pols' \in {pols, BindingGone(s.pol)}
      BY <1>2, <1>4, <1>11, UnbindEffect
    <3>. QED BY <1>5, <3>1, BindingFacts
  <2>4. ASSUME NEW leaving, Accounted(d, s, {}, leaving) PROVE Accounted(d, s, {}, leaving)'
    BY <2>2, <2>3, <2>4, Unbinds
  <2>5. CASE Stopped(n)
    <3>1. Leaving(j) = FALSE /\ j.op = "delete" /\ ~Busy(n)'
      BY <1>8, <2>5 DEF Leaving, Stopped
    <3>2. Accounted(d, s, {}, FALSE)'
      BY <2>1, <2>4, <3>1
    <3>. QED BY <1>10, <2>2, <3>1, <3>2
  <2>6. CASE ~Stopped(n)
    <3>1. PICK l \in {deleting, cleared} : Moved(n, l, s) /\ (l = cleared => s.pol = None)
      BY <1>2, <1>4, <1>11, <2>6, UnbindEffect
    <3>2. k.pc = l /\ k.op = j.op /\ k.d = d /\ k.svc = s /\ Busy(n)'
      BY <1>2, <1>3, <1>4, <3>1 DEF Moved
    <3>3. Leaving(k) = Leaving(j) /\ Held(k) = s /\ Extra(n, k) = {}
      BY <1>11, <3>1, <3>2 DEF Leaving, Held, Extra
    <3>4. PICK leaving : leaving = Leaving(j)
      OBVIOUS
    <3>5. Accounted(d, s, {}, leaving)'
      BY <2>1, <2>4, <3>4
    <3>6. LeftHere(k)'
      BY <1>4, <1>11, <2>1, <2>2, <3>1, <3>2, <3>3 DEF LeftHere, Leaving, uses_authentik
    <3>7. Accounted(d, Held(k), Extra(n, k), Leaving(k))'
      <4>1. Held(k)' = s /\ Extra(n, k)' = {} /\ Leaving(k)' = leaving
        BY <3>3, <3>4 DEF Held, Extra, Leaving
      <4>. QED BY <3>5, <4>1 DEF Accounted
    <3>. QED BY <1>9, <2>2, <3>2, <3>6, <3>7
  <2>. QED BY <2>5, <2>6
<1>d. CASE clear_group_policy(n)
  BY <1>c, <1>11, <1>d, <1>1, <1>2 DEF clear_group_policy, At, PcsOf, Ops
<1>e. CASE teardown(n)
  BY <1>c, <1>11, <1>e, <1>1, <1>2 DEF teardown, At, PcsOf, Ops
<1>f. CASE sync_group_policy(n)
  <2>1. j.pc = "policy" /\ j.op # "delete" /\ j.op # "expire"
    BY <1>f, <1>1, <1>2 DEF sync_group_policy, At, PcsOf
  <2>2. UNCHANGED <<rows, files, provs, apps, dns>> /\ ~Stopped(n)
    BY <1>f, <1>8, <2>1, PolicyEffect
  <2>3. Accounted(d, s, {}, FALSE) /\ s.pol = None /\ uses_authentik(s)
    BY <1>4, <1>7, <2>1 DEF Held, Extra, Leaving, LeftHere
  <2>4. PICK t \in Service : /\ Moved(n, "dns", t)
                             /\ t.prov = s.prov /\ t.rec = s.rec /\ t.auth = s.auth
                             /\ \A p \in pols' : p \in pols \/ p.id = t.pol
    <3>1. CASE Moved(n, "dns", job[n].svc) /\ pols' = pols
      BY <1>2, <1>4, <3>1
    <3>2. CASE Moved(n, "dns", [job[n].svc EXCEPT !.pol = n]) /\ pols' = pols \cup {PolicyOf(n)}
      <4>1. n \in Ids
        BY <1>f, <1>1, StepFacts DEF sync_group_policy, At, Sound
      <4>2. [s EXCEPT !.pol = n] \in Service
        BY <4>1, ServiceChanges
      <4>3. /\ [s EXCEPT !.pol = n].prov = s.prov /\ [s EXCEPT !.pol = n].rec = s.rec
            /\ [s EXCEPT !.pol = n].auth = s.auth /\ [s EXCEPT !.pol = n].pol = n
        BY DEF Service
      <4>4. PolicyOf(n).id = n
        BY DEF PolicyOf
      <4>. QED BY <1>2, <1>4, <3>2, <4>2, <4>3, <4>4
    <3>. QED BY <1>f, <2>2, <3>1, <3>2, PolicyEffect
  <2>5. k.pc = "dns" /\ k.op = j.op /\ k.d = d /\ k.svc = t /\ Busy(n)' /\ t # None
    BY <1>2, <1>3, <1>4, <2>4, NoServiceAssumption DEF Moved
  <2>6. Accounted(d, t, {}, FALSE)'
    <3>1. Tidy(d, t)' /\ \A e \in Domains \ {d} : Tidy(e, rows[e])'
      BY <1>5, <2>2, <2>3, <2>4, <2>5 DEF Accounted, Tidy
    <3>2. \A i \in provs' : \/ t.prov = i
                            \/ \E e \in Domains \ {d} : rows'[e] # None /\ rows'[e].prov = i
      BY <1>5, <2>2, <2>3, <2>4 DEF Accounted
    <3>3. \A p \in pols' : \/ t.pol = p.id
                           \/ \E e \in Domains \ {d} : rows'[e] # None /\ rows'[e].pol = p.id
      BY <1>5, <1>6, <2>2, <2>3, <2>4 DEF Accounted
    <3>4. uses_authentik(t)
      BY <2>3, <2>4 DEF uses_authentik
    <3>. QED BY <2>5, <3>1, <3>2, <3>3, <3>4 DEF Accounted
  <2>7. LeftHere(k)'
    BY <2>1, <2>3, <2>4, <2>5 DEF LeftHere, Leaving, Owned, uses_authentik
  <2>. QED BY <1>9, <2>1, <2>2, <2>5, <2>6, <2>7 DEF Held, Extra, Leaving
<1>g. CASE delete_application(n)
  <2>1. j.pc = "del_application" /\ j.op \in {"update", "delete"}
    BY <1>g, <1>1, <1>2 DEF delete_application, At, PcsOf, Ops
  <2>2. Accounted(d, s, {}, Leaving(j)) /\ LeftHere(j)
    BY <1>4, <1>7, <2>1 DEF Held, Extra
  <2>3. /\ UNCHANGED <<rows, files, mwFile, provs, pols, dns>>
        /\ \A e \in Domains : apps'[e] \in {apps[e], None}
    BY <1>1, <1>5, <1>g, ApplicationGone
  <2>4. Accounted(d, s, {}, Leaving(j))'
    BY <2>2, <2>3, Shrinks DEF Leaving
  <2>5. CASE Stopped(n)
    BY <1>8, <1>10, <2>3, <2>4, <2>5 DEF Stopped, Leaving
  <2>6. CASE ~Stopped(n)
    <3>1. /\ Moved(n, "del_provider", s)
          /\ apps' = IF s.prov # None THEN [apps EXCEPT ![d] = None] ELSE apps
      BY <1>2, <1>4, <1>g, <2>6, ApplicationGone
    <3>2. k.pc = "del_provider" /\ k.op = j.op /\ k.d = d /\ k.svc = s /\ Busy(n)'
      BY <1>2, <1>3, <1>4, <3>1 DEF Moved
    <3>3. Leaving(k) = Leaving(j) /\ Held(k) = s /\ Extra(n, k) = {} /\ Leaving(j)' = Leaving(j)
      BY <2>1, <3>2 DEF Leaving, Held, Extra
    <3>4. apps'[d] = None
      BY <1>5, <2>2, <3>1 DEF Accounted, Tidy
    <3>5. LeftHere(k)'
      BY <1>4, <2>1, <2>2, <2>3, <3>2, <3>3, <3>4 DEF LeftHere, Leaving
    <3>6. Accounted(d, Held(k), Extra(n, k), Leaving(k))'
      BY <2>4, <3>3
    <3>. QED BY <1>9, <2>3, <3>2, <3>5, <3>6
  <2>. QED BY <2>5, <2>6
<1>h. CASE delete_provider(n)
  <2>1. j.pc = "del_provider" /\ j.op \in {"update", "delete"}
    BY <1>h, <1>1, <1>2 DEF delete_provider, At, PcsOf, Ops
  <2>2. Accounted(d, s, {}, Leaving(j)) /\ LeftHere(j)
    BY <1>4, <1>7, <2>1 DEF Held, Extra
  <2>3. UNCHANGED <<rows, files, mwFile, apps, pols, dns>> /\ provs' \subseteq provs
    BY <1>h, ProviderGone
  <2>4. CASE Stopped(n)
    <3>1. Leaving(j) = FALSE
      BY <1>8, <2>4 DEF Leaving
    <3>a. Accounted(d, s, {}, FALSE)
      BY <2>2, <3>1
    <3>2. Accounted(d, s, {}, FALSE)'
      BY <1>5, <2>3, <3>a, Shrinks
    <3>. QED BY <1>8, <1>10, <2>3, <2>4, <3>2 DEF Stopped
  <2>5. CASE ~Stopped(n)
    <3>1. PICK t : t = Unprovided(s)
      OBVIOUS
    <3>2. Moved(n, AfterProvider(n), t) /\ provs' = provs \ {s.prov}
      BY <1>2, <1>4, <1>h, <2>5, <3>1, ProviderGone
    <3>3. /\ t \in Service /\ t # None /\ t.prov = None /\ t.pol = s.pol /\ t.rec = s.rec
          /\ t.auth = s.auth
      <4>1. t \in Service
        BY <3>1, ServiceChanges DEF Unprovided
      <4>. QED BY <3>1, <4>1, NoServiceAssumption DEF Unprovided, Service
    <3>4. /\ k.pc = (IF j.op = "delete" THEN "del_dns" ELSE "count") /\ k.op = j.op /\ k.d = d
          /\ k.svc = t /\ Busy(n)'
      BY <1>2, <1>3, <1>4, <3>2 DEF Moved, AfterProvider
    <3>5. Leaving(k) = Leaving(j) /\ Held(k) = t /\ Extra(n, k) = {} /\ Leaving(j)' = Leaving(j)
      BY <2>1, <3>4 DEF Leaving, Held, Extra
    <3>6. Accounted(d, t, {}, Leaving(j))'
      <4>1. Tidy(d, t)' /\ \A e \in Domains \ {d} : Tidy(e, rows[e])'
        BY <1>4, <2>1, <2>2, <2>3, <3>3, <1>5 DEF Accounted, Tidy, LeftHere
      <4>2. \A i \in provs' : \E e \in Domains \ {d} : rows'[e] # None /\ rows'[e].prov = i
        BY <1>5, <2>2, <2>3, <3>2 DEF Accounted
      <4>3. \A p \in pols' : \E e \in Domains \ {d} : rows'[e] # None /\ rows'[e].pol = p.id
        BY <1>4, <1>5, <1>6, <2>1, <2>2, <2>3 DEF Accounted, LeftHere
      <4>4. mwFile' => \/ Leaving(j) \/ uses_authentik(t)
                       \/ \E e \in Domains \ {d} : rows'[e] # None /\ uses_authentik(rows'[e])
        BY <1>5, <2>2, <2>3, <3>3 DEF Accounted, uses_authentik
      <4>. QED BY <3>3, <3>5, <4>1, <4>2, <4>3, <4>4 DEF Accounted
    <3>7. LeftHere(k)'
      BY <1>4, <2>1, <2>2, <2>3, <3>3, <3>4, <3>5 DEF LeftHere, Leaving, uses_authentik
    <3>8. Accounted(d, Held(k), Extra(n, k), Leaving(k))'
      BY <3>5, <3>6
    <3>. QED BY <1>9, <2>3, <3>4, <3>7, <3>8
  <2>. QED BY <2>4, <2>5
<1>i. CASE CountServices(n)
  <2>1. /\ j.pc = "count" /\ j.op \in {"update", "delete"}
        /\ UNCHANGED <<rows, files, provs, apps, pols, dns>>
    BY <1>i, <1>1, <1>2, CountEffect DEF CountServices, At, PcsOf, Ops
  <2>2. Accounted(d, s, {}, Leaving(j)) /\ LeftHere(j) /\ s.prov = None /\ s.pol = None
    BY <1>4, <1>7, <2>1 DEF Held, Extra, LeftHere
  <2>3. CASE Stopped(n)
    <3>1. Leaving(j) = FALSE /\ mwFile' = mwFile
      BY <1>8, <1>i, <2>3, CountEffect DEF Leaving, Stopped, Moved
    <3>2. Accounted(d, s, {}, FALSE)
      BY <2>2, <3>1
    <3>3. Accounted(d, s, {}, FALSE)'
      BY <2>1, <3>1, <3>2, Shrinks
    <3>. QED BY <1>8, <1>10, <2>1, <2>3, <3>3 DEF Stopped
  <2>4. CASE ~Stopped(n)
    <3>1. /\ Moved(n, AfterCount(n), s)
          /\ mwFile' = (mwFile /\ OthersUse(s.id))
      BY <1>2, <1>4, <1>i, <2>4, CountEffect
    <3>2. /\ k.pc = (IF j.op = "delete" THEN "commit" ELSE "dns") /\ k.op = j.op /\ k.d = d
          /\ k.svc = s /\ Busy(n)'
      BY <1>2, <1>3, <1>4, <3>1 DEF Moved, AfterCount
    <3>3. rows[d].id = s.id
      BY <1>1, <1>2, <1>4, <2>1 DEF Fits
    <3>4. PICK t : t = Held(k)
      OBVIOUS
    <3>5. t = (IF j.op = "delete" THEN None ELSE s) /\ Extra(n, k) = {} /\ Leaving(k) = FALSE
      BY <2>1, <3>2, <3>4 DEF Leaving, Held, Extra
    <3>6. Accounted(d, t, {}, FALSE)'
      <4>1. Tidy(d, t)' /\ \A e \in Domains \ {d} : Tidy(e, rows[e])'
        BY <1>4, <1>5, <2>1, <2>2, <3>5 DEF Accounted, Tidy, LeftHere
      <4>2. mwFile' => \E e \in Domains \ {d} : rows'[e] # None /\ uses_authentik(rows'[e])
        BY <2>1, <3>1, <3>3 DEF OthersUse
      <4>3. /\ \A i \in provs' : \E e \in Domains \ {d} : rows'[e] # None /\ rows'[e].prov = i
            /\ \A p \in pols' : \E e \in Domains \ {d} : rows'[e] # None /\ rows'[e].pol = p.id
        BY <1>5, <1>6, <2>1, <2>2 DEF Accounted
      <4>. QED BY <4>1, <4>2, <4>3 DEF Accounted
    <3>7. LeftHere(k)'
      BY <1>4, <2>1, <2>2, <3>2 DEF LeftHere, Leaving, Owned
    <3>8. Accounted(d, Held(k), Extra(n, k), Leaving(k))'
      BY <3>4, <3>5, <3>6
    <3>. QED BY <1>9, <2>1, <3>2, <3>7, <3>8
  <2>. QED BY <2>3, <2>4
<1>j. CASE sync_cloudflare_record(n)
  <2>1. /\ j.pc = "dns" /\ j.op \in {"create", "update"}
        /\ UNCHANGED <<rows, files, mwFile, provs, apps, pols>>
    BY <1>j, <1>1, <1>2, RecordEffect DEF sync_cloudflare_record, At, PcsOf, Ops
  <2>2. Accounted(d, s, {}, FALSE) /\ LeftHere(j) /\ Owned(s)
    BY <1>4, <1>7, <2>1 DEF Held, Extra, Leaving, LeftHere
  <2>3. PICK t, i : i = RecordOf(n) /\ t = [s EXCEPT !.rec = i]
    OBVIOUS
  <2>4. Moved(n, "write", t) /\ dns' = [dns EXCEPT ![d] = i]
    BY <1>2, <1>4, <1>8, <1>j, <2>1, <2>3, RecordEffect
  <2>5. /\ t \in Service /\ t # None /\ t.prov = s.prov /\ t.pol = s.pol /\ t.rec = i
        /\ t.auth = s.auth
    <3>1. n \in Ids
      BY <1>j, <1>1, StepFacts DEF sync_cloudflare_record, At, Sound
    <3>2. i \in Ids \cup {None}
      BY <1>1, <1>5, <2>3, <3>1 DEF RecordOf, upsert_service_dns_record
    <3>3. t \in Service
      BY <2>3, <3>2, ServiceChanges
    <3>. QED BY <2>3, <3>3, NoServiceAssumption DEF Service
  <2>6. k.pc = "write" /\ k.op = j.op /\ k.d = d /\ k.svc = t /\ Busy(n)'
    BY <1>2, <1>3, <1>4, <2>4 DEF Moved
  <2>7. d \notin Zoned => i = None
    BY <1>2, <1>4, <2>3 DEF RecordOf
  <2>8. Accounted(d, t, {}, FALSE)'
    <3>1. Tidy(d, t)' /\ \A e \in Domains \ {d} : Tidy(e, rows[e])'
      BY <1>5, <2>1, <2>2, <2>4, <2>5, <2>7 DEF Accounted, Tidy
    <3>. QED BY <1>5, <2>1, <2>2, <2>5, <3>1 DEF Accounted, uses_authentik
  <2>9. LeftHere(k)'
    <3>1. Owned(t)
      BY <1>5, <2>2, <2>5 DEF Owned, uses_authentik
    <3>. QED BY <2>1, <2>6, <3>1 DEF LeftHere, Leaving
  <2>. QED BY <1>9, <2>1, <2>6, <2>8, <2>9 DEF Held, Extra, Leaving
<1>k. CASE WriteRoute(n)
  <2>1. j.pc = "write" /\ j.op # "delete" /\ UNCHANGED <<rows, mwFile, provs, apps, pols, dns>>
    BY <1>k, <1>1, <1>2, WriteEffect DEF WriteRoute, At, PcsOf
  <2>2. Accounted(d, s, {}, FALSE) /\ LeftHere(j) /\ Owned(s)
    BY <1>4, <1>7, <2>1 DEF Held, Extra, Leaving, LeftHere
  <2>3. CASE Moved(n, "save", s) /\ files' = [files EXCEPT ![d] = RouteOf(s)]
    <3>1. k.pc = "save" /\ k.op = j.op /\ k.d = d /\ k.svc = s /\ Busy(n)'
      BY <1>2, <1>3, <1>4, <2>3 DEF Moved
    <3>2. Accounted(d, s, {}, FALSE)'
      <4>1. Tidy(d, s)' /\ \A e \in Domains \ {d} : Tidy(e, rows[e])'
        BY <1>5, <2>1, <2>2, <2>3 DEF Accounted, Tidy
      <4>. QED BY <2>1, <2>2, <4>1 DEF Accounted
    <3>3. LeftHere(k)'
      BY <2>1, <2>2, <3>1 DEF LeftHere, Leaving
    <3>. QED BY <1>9, <2>1, <3>1, <3>2, <3>3 DEF Held, Extra, Leaving
  <2>4. CASE Moved(n, "undo", s)
    <3>1. job'[n].pc = "undo" /\ Busy(n)'
      BY <2>4 DEF Moved
    <3>2. \A m \in Jobs : Busy(m)' => m = n
      BY <1>1 DEF Only, Busy
    <3>3. \A e \in Domains : Owned(rows[e])'
      BY <2>1 DEF NothingLeft, Owned
    <3>. QED BY <3>1, <3>2, <3>3 DEF NothingLeft
  <2>. QED BY <1>2, <1>4, <1>8, <1>k, <2>1, <2>3, <2>4, WriteEffect DEF RolledBack
<1>l. CASE rollback_cloudflare_record(n)
  BY <1>1, <1>2, <1>8, <1>l, UndoEffect DEF rollback_cloudflare_record, At, PcsOf
<1>m. CASE delete_cloudflare_record(n)
  <2>1. j.pc = "del_dns" /\ j.op = "delete" /\ UNCHANGED <<rows, mwFile, provs, apps, pols>>
    BY <1>m, <1>1, <1>2, RecordGone DEF delete_cloudflare_record, At, PcsOf, Ops
  <2>2. Accounted(d, s, {}, FALSE) /\ LeftHere(j)
    BY <1>4, <1>7, <2>1 DEF Held, Extra, Leaving
  <2>3. /\ RecordsLeft(n) = [dns EXCEPT ![d] = None]
        /\ \A e \in Domains : RecordsLeft(n)[e] \in {dns[e], None}
    <3>1. d \in Zoned => s.rec \in {None, dns[d]} \/ dns[d] = None
      BY <1>5, <2>2 DEF Accounted, Tidy
    <3>2. d \notin Zoned => dns[d] = None
      BY <1>5, <2>2 DEF Accounted, Tidy
    <3>. QED BY <1>2, <1>4, <1>5, <3>1, <3>2 DEF RecordsLeft, DnsDeleted
  <2>4. /\ dns' = dns \/ dns' = RecordsLeft(n)
        /\ \A e \in Domains : files'[e] \in {files[e], None}
    BY <1>2, <1>4, <1>5, <1>m, RecordGone
  <2>5. Accounted(d, s, {}, FALSE)'
    BY <2>1, <2>2, <2>3, <2>4, Shrinks
  <2>6. CASE Stopped(n)
    BY <1>10, <2>1, <2>5, <2>6 DEF Stopped
  <2>7. CASE ~Stopped(n)
    <3>1. Moved(n, "del_row", s) /\ dns' = RecordsLeft(n) /\ files' = [files EXCEPT ![d] = None]
      BY <1>2, <1>4, <1>m, <2>7, RecordGone
    <3>2. k.pc = "del_row" /\ k.op = j.op /\ k.d = d /\ k.svc = s /\ Busy(n)'
      BY <1>2, <1>3, <1>4, <3>1 DEF Moved
    <3>3. files'[d] = None /\ dns'[d] = None
      BY <1>5, <2>3, <3>1
    <3>4. LeftHere(k)'
      BY <1>4, <2>1, <2>2, <3>2, <3>3 DEF LeftHere, Leaving
    <3>. QED BY <1>9, <2>1, <2>5, <3>2, <3>4 DEF Held, Extra, Leaving
  <2>. QED BY <2>6, <2>7
<1>n. CASE save(n)
  <2>1. j.pc = "save" /\ j.op # "delete" /\ UNCHANGED <<rows, mwFile, provs, apps, pols, dns>>
    BY <1>n, <1>1, <1>2, SaveEffect DEF save, At, PcsOf
  <2>2. Accounted(d, s, {}, FALSE) /\ LeftHere(j) /\ Owned(s)
    BY <1>4, <1>7, <2>1 DEF Held, Extra, Leaving, LeftHere
  <2>3. CASE Saved(n)
    <3>1. /\ k.pc = "commit" /\ k.op = j.op /\ k.d = d /\ k.svc = s /\ Busy(n)'
          /\ files' = files
      BY <1>2, <1>3, <1>4, <2>3 DEF Saved
    <3>2. Accounted(d, s, {}, FALSE)'
      BY <2>1, <2>2, <3>1, Shrinks
    <3>3. LeftHere(k)'
      BY <2>1, <2>2, <3>1 DEF LeftHere, Leaving
    <3>. QED BY <1>9, <2>1, <3>1, <3>2, <3>3 DEF Held, Extra, Leaving
  <2>4. CASE Moved(n, "undo", s)
    <3>1. job'[n].pc = "undo" /\ Busy(n)'
      BY <2>4 DEF Moved
    <3>2. \A m \in Jobs : Busy(m)' => m = n
      BY <1>1 DEF Only, Busy
    <3>3. \A e \in Domains : Owned(rows[e])'
      BY <2>1 DEF NothingLeft, Owned
    <3>. QED BY <3>1, <3>2, <3>3 DEF NothingLeft
  <2>. QED BY <1>2, <1>4, <1>8, <1>n, <2>1, <2>3, <2>4, SaveEffect DEF RolledBack
<1>o. CASE DeleteRow(n)
  <2>1. /\ j.pc = "del_row" /\ j.op = "delete"
        /\ UNCHANGED <<rows, files, mwFile, provs, apps, pols, dns>>
    BY <1>o, <1>1, <1>2, RowGone DEF DeleteRow, At, PcsOf, Ops
  <2>2. Accounted(d, s, {}, FALSE) /\ LeftHere(j) /\ s.prov = None /\ s.pol = None
    BY <1>4, <1>7, <2>1 DEF Held, Extra, Leaving, LeftHere
  <2>3. /\ k.pc = (IF uses_authentik(s) THEN "count" ELSE "commit") /\ k.op = j.op /\ k.d = d
        /\ k.svc = s /\ Busy(n)'
    BY <1>2, <1>3, <1>4, <1>o, RowGone DEF Moved, AfterRow
  <2>4. Accounted(d, s, {}, FALSE)'
    BY <2>1, <2>2, Shrinks
  <2>5. LeftHere(k)'
    BY <1>4, <2>1, <2>2, <2>3 DEF LeftHere, Leaving
  <2>6. PICK t : t = Held(k)
    OBVIOUS
  <2>7. Accounted(d, t, {}, FALSE)'
    <3>1. CASE t = s
      BY <2>4, <3>1
    <3>2. CASE t # s
      <4>1. t = None /\ ~uses_authentik(s)
        BY <2>1, <2>3, <2>6, <3>2 DEF Held
      <4>2. Tidy(d, None)'
        BY <1>4, <1>5, <2>1, <2>2, <2>4 DEF LeftHere, Accounted, Tidy
      <4>3. /\ \A i \in provs' : \E e \in Domains \ {d} : rows'[e] # None /\ rows'[e].prov = i
            /\ \A p \in pols' : \E e \in Domains \ {d} : rows'[e] # None /\ rows'[e].pol = p.id
        BY <1>5, <1>6, <2>1, <2>2 DEF Accounted
      <4>4. mwFile' => \E e \in Domains \ {d} : rows'[e] # None /\ uses_authentik(rows'[e])
        BY <2>1, <2>2, <4>1 DEF Accounted
      <4>5. \A e \in Domains \ {d} : Tidy(e, rows[e])'
        BY <2>4 DEF Accounted
      <4>. QED BY <4>1, <4>2, <4>3, <4>4, <4>5 DEF Accounted
    <3>. QED BY <3>1, <3>2
  <2>8. Extra(n, k) = {} /\ Leaving(k) = FALSE
    BY <2>1, <2>3 DEF Extra, Leaving
  <2>. QED BY <1>9, <2>1, <2>3, <2>5, <2>6, <2>7, <2>8
<1>p. CASE Commit(n)
  <2>1. j.pc = "commit" /\ ~Busy(n)' /\ UNCHANGED <<files, mwFile, provs, apps, pols, dns>>
    BY <1>p, <1>2, CommitEffect DEF Commit, At
  <2>2. PICK t : t = Held(j)
    OBVIOUS
  <2>3. t = Target(j) /\ t \in {None, s} /\ Accounted(d, t, {}, FALSE) /\ LeftHere(j)
    BY <1>4, <1>7, <2>1, <2>2 DEF Held, Extra, Leaving, Target
  <2>4. CASE rows' = rows
    <3>1. j.op = "delete" \/ rows' = [rows EXCEPT ![d] = t]
      BY <1>1, <1>2, <1>4, <1>8, <1>p, <2>3, CommitEffect, CommitResult
    <3>2. CASE j.op = "delete"
      <4>1. Accounted(d, t, {}, FALSE)'
        BY <2>1, <2>3, <2>4, Shrinks
      <4>. QED BY <1>10, <2>1, <2>3, <2>4, <3>2, <4>1
    <3>3. CASE rows' = [rows EXCEPT ![d] = t]
      <4>1. AllAccounted'
        BY <2>1, <2>3, <3>3, LeftCommitted
      <4>2. \A e \in Domains : Owned(rows[e])'
        BY <2>4 DEF NothingLeft, Owned
      <4>. QED BY <1>1, <2>1, <4>1, <4>2, LeftIdle
    <3>. QED BY <3>1, <3>2, <3>3
  <2>5. CASE rows' # rows
    <3>1. rows' = [rows EXCEPT ![d] = t]
      BY <1>1, <1>2, <1>4, <1>p, <2>3, <2>5, CommitEffect, CommitResult
    <3>2. AllAccounted'
      BY <2>1, <2>3, <3>1, LeftCommitted
    <3>3. Owned(t)
      BY <1>4, <2>1, <2>2, <2>3 DEF LeftHere, Owned, Held
    <3>4. \A e \in Domains : Owned(rows[e])'
      BY <1>5, <3>1, <3>3 DEF NothingLeft, Owned
    <3>. QED BY <1>1, <2>1, <3>2, <3>4, LeftIdle
  <2>. QED BY <2>4, <2>5
<1>. QED BY <1>a, <1>b, <1>d, <1>e, <1>f, <1>g, <1>h, <1>i, <1>j, <1>k, <1>l, <1>m, <1>n, <1>o,
            <1>p DEF Step

\* A new coroutine, when every domain has its row.
LEMMA LeftBegun ==
  ASSUME Serial, TypeInv, OneAtATime, NothingLeft, NEW n \in Requests, Begin(n)
  PROVE  NothingLeft'
<1>1. /\ Only(n) /\ ~Busy(n) /\ n \in Jobs
      /\ UNCHANGED <<rows, files, mwFile, provs, apps, pols, dns>>
  BY OnlyOne, BeginEffect DEF Untouched
<1>2. AllAccounted /\ AllAccounted' /\ \A d \in Domains : Owned(rows[d]) /\ Owned(rows[d])'
  <2>1. AllAccounted /\ \A d \in Domains : Owned(rows[d])
    BY <1>1, AloneAtStart, BeginEffect DEF NothingLeft
  <2>. QED BY <1>1, <2>1 DEF AllAccounted, Tidy
<1>3. CASE ~Busy(n)'
  BY <1>1, <1>2, <1>3, LeftIdle
<1>4. ASSUME NEW l, NEW o, NEW d \in Domains, NEW s, Started(n, l, o, d, s), Busy(n)',
             l \in {"provider", "dns", "clear", "teardown", "del_dns"},
             NEW v, v = (o = "update" /\ l = "teardown"), Accounted(d, s, {}, v)',
             l = "provider" => s.prov = None /\ s.pol = None /\ uses_authentik(s),
             l = "clear" => uses_authentik(s),
             o = "update" /\ l = "teardown" => ~uses_authentik(s),
             l = "dns" => o # "delete" /\ Owned(s),
             o = "delete" => s = rows[d] /\ (l = "del_dns" => s.prov = None /\ s.pol = None)
      PROVE  NothingLeft'
  <2>1. PICK k : k = job'[n]
    OBVIOUS
  <2>2. k.pc = l /\ k.op = o /\ k.d = d /\ k.svc = s
    BY <1>4, <2>1 DEF Started
  <2>3. Held(k) = s /\ Extra(n, k) = {} /\ Leaving(k) = v
    BY <1>4, <2>2 DEF Held, Extra, Leaving
  <2>4. LeftHere(k)'
    BY <1>1, <1>4, <2>2, <2>3 DEF LeftHere
  <2>5. Accounted(d, Held(k), Extra(n, k), Leaving(k))'
    BY <1>4, <2>3
  <2>. QED BY <1>1, <1>4, <2>1, <2>2, <2>4, <2>5, LeftMoved
<1>5. ASSUME NEW d \in Domains, NEW m \in Modes, NEW a \in Auths, NEW g \in Groups \cup {None},
             rows[d] = None, NewService(n, m, a, g) \in Service, Busy(n)',
             Started(n, IF a = "authentik" THEN "provider" ELSE "dns", "create", d,
                        NewService(n, m, a, g))
      PROVE  NothingLeft'
  <2>1. PICK s : s = NewService(n, m, a, g)
    OBVIOUS
  <2>2. s.prov = None /\ s.pol = None /\ s.rec = None /\ s.auth = a /\ s # None
    BY <1>5, <2>1, NewServiceFields, NoServiceAssumption
  <2>3. Accounted(d, None, {}, FALSE)'
    BY <1>1, <1>2, <1>5, AccountedAllNext
  <2>4. Accounted(d, s, {}, FALSE)'
    BY <2>2, <2>3 DEF Accounted, Tidy
  <2>5. PICK l, v : /\ l = (IF a = "authentik" THEN "provider" ELSE "dns")
                    /\ v = ("create" = "update" /\ l = "teardown")
    OBVIOUS
  <2>6. Accounted(d, s, {}, v)' /\ Started(n, l, "create", d, s)
    <3>1. v = FALSE
      BY <2>5
    <3>. QED BY <1>5, <2>1, <2>4, <2>5, <3>1
  <2>7. Owned(s) \/ l = "provider"
    BY <2>2 DEF Owned
  <2>8. l = "provider" => uses_authentik(s)
    BY <2>2, <2>5 DEF uses_authentik
  <2>. QED BY <1>4, <1>5, <2>2, <2>5, <2>6, <2>7, <2>8
<1>6. ASSUME NEW d \in Domains, rows[d] \in Service, rows[d] # None
      PROVE  Accounted(d, rows[d], {}, FALSE)
  BY <1>2, AccountedAll
<1>7. ASSUME NEW d \in Domains, NEW s \in Updated(rows[d]), rows[d] \in Service, rows[d] # None,
             Started(n, AuthentikChange(rows[d], s), "update", d, s), Busy(n)'
      PROVE  NothingLeft'
  <2>1. PICK r \in Service : r = rows[d]
    BY <1>7
  <2>2. PICK l : l = AuthentikChange(r, s)
    OBVIOUS
  <2>3. /\ s # None /\ r # None /\ s.prov = r.prov /\ s.pol = r.pol /\ s.rec = r.rec
    BY <1>7, <2>1, UpdatedKeeps, NoServiceAssumption
  <2>4. /\ l \in {"provider", "dns", "clear", "teardown"}
        /\ l = "provider" => uses_authentik(s) /\ ~uses_authentik(r)
        /\ l = "clear" => uses_authentik(s)
        /\ l = "dns" => uses_authentik(s) = uses_authentik(r)
        /\ l = "teardown" <=> ~uses_authentik(s) /\ uses_authentik(r)
    BY <2>2 DEF AuthentikChange, uses_authentik
  <2>5. Owned(r) /\ Accounted(d, r, {}, FALSE)
    BY <1>2, <1>6, <1>7, <2>1
  <2>a. PICK v : v = (l = "teardown")
    OBVIOUS
  <2>6. Accounted(d, s, {}, v)'
    <3>1. /\ \A i \in provs' : \/ s.prov = i
                               \/ \E e \in Domains \ {d} : rows'[e] # None /\ rows'[e].prov = i
          /\ \A p \in pols' : \/ s.pol = p.id
                              \/ \E e \in Domains \ {d} : rows'[e] # None /\ rows'[e].pol = p.id
          /\ mwFile' => \/ v \/ uses_authentik(s)
                        \/ \E e \in Domains \ {d} : rows'[e] # None /\ uses_authentik(rows'[e])
      BY <1>1, <2>3, <2>4, <2>5, <2>a DEF Accounted
    <3>2. Tidy(d, s)' /\ \A e \in Domains \ {d} : Tidy(e, rows[e])'
      BY <1>1, <2>3, <2>5 DEF Accounted, Tidy
    <3>. QED BY <2>3, <3>1, <3>2 DEF Accounted
  <2>7. l = "provider" \/ (l = "dns" /\ ~uses_authentik(s)) => s.prov = None /\ s.pol = None
    BY <2>3, <2>4, <2>5 DEF Owned
  <2>8. l = "dns" => Owned(s)
    BY <2>7 DEF Owned
  <2>9. Started(n, l, "update", d, s)
    BY <1>7, <2>1, <2>2
  <2>. QED BY <1>4, <1>7, <2>4, <2>6, <2>7, <2>8, <2>9, <2>a
<1>8. ASSUME NEW d \in Domains, rows[d] \in Service, rows[d] # None, Busy(n)',
             Started(n, IF uses_authentik(rows[d]) THEN "teardown" ELSE "del_dns",
                        "delete", d, rows[d])
      PROVE  NothingLeft'
  <2>1. PICK r \in Service : r = rows[d]
    BY <1>8
  <2>2. Owned(r) /\ Accounted(d, rows[d], {}, FALSE)'
    BY <1>2, <2>1, AccountedAllNext
  <2>3. Accounted(d, r, {}, FALSE)'
    BY <1>1, <2>1, <2>2 DEF Accounted
  <2>4. ~uses_authentik(r) => r.prov = None /\ r.pol = None
    BY <1>8, <2>1, <2>2 DEF Owned
  <2>5. PICK l : l = IF uses_authentik(r) THEN "teardown" ELSE "del_dns"
    OBVIOUS
  <2>6. Started(n, l, "delete", d, r)
    BY <1>8, <2>1, <2>5
  <2>7. PICK v : v = ("delete" = "update" /\ l = "teardown")
    OBVIOUS
  <2>8. Accounted(d, r, {}, v)'
    <3>1. v = FALSE
      BY <2>7
    <3>. QED BY <2>3, <3>1
  <2>. QED BY <1>4, <1>8, <2>1, <2>4, <2>5, <2>6, <2>7, <2>8
<1>. QED BY <1>3, <1>5, <1>7, <1>8, BeginEffect

\* The monitor begins a transition.
LEMMA LeftExpired ==
  ASSUME Serial, TypeInv, OneAtATime, NothingLeft, NEW d \in Domains, ExpireBegin(d)
  PROVE  NothingLeft'
<1>1. /\ Only(0) /\ ~Busy(0) /\ 0 \in Jobs
      /\ UNCHANGED <<rows, files, mwFile, provs, apps, pols, dns>>
  BY OnlyOne, ExpireEffect DEF Untouched
<1>2. AllAccounted /\ \A e \in Domains : Owned(rows[e])
  BY <1>1, AloneAtStart, ExpireEffect DEF NothingLeft
<1>3. PICK r \in Service, s \in Service : r = rows[d] /\ s = SetMode(r, "active") /\ r # None
  BY ExpireEffect
<1>4. s.prov = r.prov /\ s.pol = r.pol /\ s.rec = r.rec /\ s.auth = r.auth /\ s # None
  BY <1>3, NoServiceAssumption DEF SetMode, Service
<1>5. PICK k : k = job'[0]
  OBVIOUS
<1>6. k.pc = "write" /\ k.op = "expire" /\ k.d = d /\ k.svc = s /\ Busy(0)'
  BY <1>3, <1>5, ExpireFields, ExpireFits
<1>7. Accounted(d, r, {}, FALSE) /\ Owned(r)
  BY <1>2, <1>3, AccountedAll
<1>8. Accounted(d, s, {}, FALSE)'
  <2>1. Tidy(d, s)' /\ \A e \in Domains \ {d} : Tidy(e, rows[e])'
    BY <1>1, <1>3, <1>4, <1>7 DEF Accounted, Tidy
  <2>. QED BY <1>1, <1>3, <1>4, <1>7, <2>1 DEF Accounted, uses_authentik
<1>9. Owned(s)
  BY <1>3, <1>4, <1>7 DEF Owned, uses_authentik
<1>10. LeftHere(k)' /\ Held(k) = s /\ Extra(0, k) = {} /\ Leaving(k) = FALSE
  BY <1>6, <1>9 DEF LeftHere, Held, Extra, Leaving
<1>. QED BY <1>1, <1>5, <1>6, <1>8, <1>10, LeftMoved

\* The synchronisation writes the files of rows, and the middleware file for one.
LEMMA LeftSynchronised ==
  ASSUME Serial, TypeInv, OneAtATime, NothingLeft, SyncStep
  PROVE  NothingLeft'
<1>1. UNCHANGED <<rows, provs, apps, pols, dns, job>>
  BY DEF SyncStep, SyncRead, SyncWrite, SyncWritten, SyncMiddleware, SyncFails, authentikVars
<1>2. CASE UNCHANGED <<files, mwFile>>
  BY <1>1, <1>2 DEF NothingLeft, AllAccounted, Accounted, Tidy, LeftHere, Held, Extra, Leaving,
     Owned, Busy
<1>3. ASSUME ~(UNCHANGED <<files, mwFile>>) PROVE NothingLeft'
  <2>1. Syncing /\ \A n \in Jobs : ~Busy(n)
    BY <1>3 DEF SyncStep, SyncRead, SyncWrite, SyncWritten, SyncMiddleware, SyncFails, Syncing,
       OneAtATime
  <2>2. /\ mwFile' => \/ mwFile
                      \/ \E d \in Domains : rows[d] # None /\ uses_authentik(rows[d])
        /\ \A d \in Domains : rows[d] = None => files'[d] = files[d]
    <3>1. ASSUME NEW d \in Domains, SyncWrite(d)
          PROVE  mwFile' = mwFile /\ \A e \in Domains : rows[e] = None => files'[e] = files[e]
      <4>1. rows[d] # None
        BY <2>1, <3>1 DEF SyncWrite, OneAtATime
      <4>. QED BY <3>1, <4>1 DEF SyncWrite, TypeInv, StoresTyped
    <3>2. SyncRead \/ SyncWritten \/ SyncFails => UNCHANGED <<files, mwFile>>
      BY DEF SyncRead, SyncWritten, SyncFails
    <3>3. ASSUME SyncMiddleware
          PROVE  /\ files' = files
                 /\ mwFile' => \/ mwFile
                               \/ \E d \in Domains : rows[d] # None /\ uses_authentik(rows[d])
      BY <3>3 DEF SyncMiddleware, OthersUse
    <3>. QED BY <3>1, <3>2, <3>3 DEF SyncStep
  <2>3. AllAccounted'
    <3>1. AllAccounted
      BY <2>1 DEF NothingLeft
    <3>2. \A d \in Domains : Tidy(d, rows[d])'
      BY <1>1, <2>2, <3>1 DEF AllAccounted, Tidy
    <3>. QED BY <1>1, <2>2, <3>1, <3>2 DEF AllAccounted
  <2>. QED BY <1>1, <2>1, <2>3 DEF NothingLeft, Owned, Busy
<1>. QED BY <1>2, <1>3

\* A deletion that is killed leaves its row with all there still is.
LEMMA LeftKilled ==
  ASSUME Serial, TypeInv, OneAtATime, NothingLeft, Killed, failed' \subseteq {"delete"}
  PROVE  NothingLeft'
<1>1. /\ UNCHANGED <<rows, files, mwFile, provs, apps, pols, dns>>
      /\ failed' = failed \cup {job[n].op : n \in {m \in Jobs : Busy(m)}}
      /\ \A n \in Jobs : ~Busy(n)'
  BY DEF Killed, authentikVars, Busy, Ended, NoJob
<1>2. \A d \in Domains : Owned(rows[d])'
  BY <1>1 DEF NothingLeft, Owned
<1>3. AllAccounted'
  <2>1. CASE \A n \in Jobs : ~Busy(n)
    BY <1>1, <2>1 DEF NothingLeft, AllAccounted, Tidy
  <2>2. ASSUME NEW n \in Jobs, Busy(n) PROVE AllAccounted'
    <3>1. /\ job[n].op = "delete" /\ Fits(n, job[n]) /\ job[n].pc # "undo"
          /\ job[n].d \in Domains /\ job[n].svc \in Service
      <4>1. job[n].op = "delete"
        BY <1>1, <2>2
      <4>. QED BY <2>2, <4>1 DEF OneAtATime, Fits, PcsOf, TypeInv, JobsSound, Sound, Busy
    <3>2. PICK j : j = job[n]
      OBVIOUS
    <3>3. PICK d, r, t : d \in Domains /\ d = j.d /\ r = rows[d] /\ t = Held(j)
      BY <3>1, <3>2
    <3>4. LeftHere(j) /\ Accounted(d, t, Extra(n, j), Leaving(j))
      BY <2>2, <3>1, <3>2, <3>3 DEF NothingLeft
    <3>5. Extra(n, j) = {} /\ Leaving(j) = FALSE
      BY <3>1, <3>2 DEF Extra, Leaving, Fits, PcsOf
    <3>6. Accounted(d, t, {}, FALSE)'
      BY <1>1, <3>3, <3>4, <3>5, Shrinks
    <3>7. r # None /\ (t # None => t.rec = r.rec /\ t.auth = r.auth /\ t.prov \in {None, r.prov}
                                   /\ t.pol \in {None, r.pol})
      BY <3>1, <3>2, <3>3, <3>4 DEF Fits, Held, LeftHere
    <3>8. provs' \subseteq Ids /\ pols' \subseteq Policy
      BY <1>1 DEF TypeInv, StoresTyped
    <3>. QED BY <1>1, <3>3, <3>6, <3>7, <3>8, LeftWithRow
  <2>. QED BY <2>1, <2>2
<1>. QED BY <1>1, <1>2, <1>3 DEF NothingLeft

\* At the start everything belongs to some service.
LEMMA LeftInit == Init => NothingLeft
<1> SUFFICES ASSUME Init PROVE NothingLeft
  OBVIOUS
<1>1. \A n \in Jobs : ~Busy(n)
  BY DEF Init, Busy, NoJob
<1>2. ASSUME NEW d \in Domains
      PROVE  /\ Owned(rows[d]) /\ Tidy(d, rows[d])
             /\ d \in provs <=> rows[d] # None /\ uses_authentik(rows[d])
             /\ d \in provs => rows[d].prov = d
             /\ rows[d] # None /\ rows[d].group # None => rows[d].pol = d
  <2>1. rows[d] \in SettledRows(d) /\ rows[d] \in Service \cup {None}
    BY TypeInit DEF Init, TypeInv, StoresTyped
  <2>2. CASE rows[d] = None
    BY <2>2 DEF Init, Owned, Tidy, RouteOf
  <2>3. ASSUME NEW m \in Modes, NEW a \in Auths, NEW g \in Groups \cup {None},
               a # "authentik" => g = None, rows[d] = Settled(d, m, a, g), rows[d] # None
        PROVE  /\ Owned(rows[d]) /\ Tidy(d, rows[d])
               /\ d \in provs <=> rows[d] # None /\ uses_authentik(rows[d])
               /\ d \in provs => rows[d].prov = d
               /\ rows[d] # None /\ rows[d].group # None => rows[d].pol = d
    <3>1. /\ rows[d].auth = a /\ rows[d].group = g
          /\ rows[d].prov = (IF a = "authentik" THEN d ELSE None)
          /\ rows[d].pol = (IF g # None THEN d ELSE None)
          /\ rows[d].rec = (IF d \in Zoned THEN d ELSE None)
      BY <2>3 DEF Settled
    <3>2. d \in provs <=> a = "authentik"
      BY <2>3, <3>1 DEF Init, uses_authentik
    <3>3. apps[d] = (IF d \in provs THEN d ELSE None) /\ dns[d] = rows[d].rec
      BY <2>3 DEF Init
    <3>4. d # None
      BY NoneAssumption
    <3>. QED BY <2>3, <3>1, <3>2, <3>3, <3>4 DEF Owned, Tidy, uses_authentik
  <2>. QED BY <2>1, <2>2, <2>3 DEF SettledRows, Auths
<1>3. AllAccounted
  <2>1. /\ provs \subseteq Domains
        /\ \A p \in pols : p.id \in Domains /\ rows[p.id] # None /\ rows[p.id].group # None
        /\ mwFile => \E d \in Domains : rows[d] # None /\ uses_authentik(rows[d])
    BY DEF Init
  <2>. QED BY <1>2, <2>1 DEF AllAccounted
<1>. QED BY <1>1, <1>2, <1>3 DEF NothingLeft

-----------------------------------------------------------------------------
(* The invariant of serial runs, each part as far as the failures allow.   *)

\* Coroutines come one at a time.
OrderInv == Serial => OneAtATime
\* The route files, as far as calls of other systems fail.
RoutesInv == Serial /\ seen \subseteq FileMishaps => RoutesFollow
\* The Cloudflare records, as far as calls are refused.
RecordsInv == Serial /\ seen \subseteq RecordMishaps => RecordsFollow
\* What is left over, as far as only deletions fail.
LeftInv == Serial /\ failed \subseteq {"delete"} /\ "status" \notin seen => NothingLeft

\* The inductive invariant of DeletionLeavesNothing.
LeftoverInv == TypeInv /\ OrderInv /\ LeftInv

\* No coroutine runs at the start.
LEMMA OrderInit == Init => OneAtATime
BY DEF Init, OneAtATime, Busy, NoJob, Syncing

\* Every action leaves nothing over.
LEMMA LeftNext ==
  ASSUME Serial, TypeInv, OneAtATime, NothingLeft, [Next]_vars, failed' \subseteq {"delete"},
         "status" \notin seen'
  PROVE  NothingLeft'
<1>1. CASE UNCHANGED vars
  BY <1>1 DEF vars, authentikVars, NothingLeft, AllAccounted, Accounted, Tidy, LeftHere, Held,
     Extra, Leaving, Owned, Busy
<1>. QED BY <1>1, LeftBegun, LeftExpired, LeftStep, LeftSynchronised, LeftKilled DEF Next

\* A deletion that failed part way can be repeated until it succeeds, and then
\* nothing of the service is left anywhere.
THEOREM DeletionLeavesNothing == Spec => []DeleteIsComplete
<1>1. Init => LeftoverInv
  BY TypeInit, OrderInit, LeftInit DEF LeftoverInv, OrderInv, LeftInv
<1>2. LeftoverInv /\ [Next]_vars => LeftoverInv'
  <2> SUFFICES ASSUME LeftoverInv, [Next]_vars PROVE LeftoverInv'
    OBVIOUS
  <2>1. TypeInv /\ TypeInv' /\ (Serial => OneAtATime /\ OneAtATime') /\ (Serial' <=> Serial)
    BY TypeStep, SerialStep DEF LeftoverInv, OrderInv, Serial
  <2>2. failed \subseteq failed' /\ seen \subseteq seen'
    BY <2>1, SeenGrows
  <2>3. Serial /\ failed' \subseteq {"delete"} /\ "status" \notin seen' => NothingLeft'
    BY <2>1, <2>2, LeftNext DEF LeftoverInv, LeftInv
  <2>. QED BY <2>1, <2>3 DEF LeftoverInv, OrderInv, LeftInv
<1>3. LeftoverInv => DeleteIsComplete
  <2> SUFFICES ASSUME LeftoverInv, Serial, Quiet, failed \subseteq {"delete"}, "status" \notin seen
               PROVE  DeleteIsComplete
    BY DEF DeleteIsComplete
  <2>1. AllAccounted
    BY QuietMeansIdle DEF LeftoverInv, LeftInv, NothingLeft
  <2>2. \A d \in Domains : rows[d] = None => files[d] = None /\ dns[d] = None /\ apps[d] = None
    BY <2>1 DEF AllAccounted, Tidy
  <2>. QED BY <2>1, <2>2 DEF DeleteIsComplete, AllAccounted
<1>. QED BY <1>1, <1>2, <1>3, PTL DEF Spec

-----------------------------------------------------------------------------
(* Fresh ids.                                                              *)

\* Request n has made no application yet.
Unmade(n) == job[n].pc \in {"new", "provider", "application"}
\* Request n has bound no policy yet.
Unbound(n) ==
  job[n].pc \in {"new", "provider", "application", "clear", "clear_policy", "policy"}

\* What a request is yet to make does not exist, and nothing has two owners.
IdsFresh ==
  /\ \A n \in Requests : Unmade(n) => /\ \A d \in Domains : apps[d] # n
                                      /\ \A p \in pols : p.app # n
  /\ \A n \in Requests : Unbound(n) => \A p \in pols : p.id # n
  /\ \A n \in Requests : At(n, "new") \/ (Busy(n) /\ job[n].op = "create") =>
       \A d \in Domains : rows[d] # None => rows[d].id # n
  /\ \A n \in Requests : At(n, "new") =>
       /\ \A d \in Domains : rows[d] # None => rows[d].prov # n
       /\ \A m \in Jobs : Busy(m) => job[m].svc.prov # n
  /\ \A d, e \in Domains : rows[d] # None /\ rows[e] # None /\ rows[d].id = rows[e].id => d = e
  /\ \A p, q \in pols : p.id = q.id => p = q
  /\ \A d, e \in Domains : apps[d] # None /\ apps[d] = apps[e] => d = e

\* How far a step takes its coroutine, and which provider its service names.
Advances(n) ==
  /\ n # 0 => job'[n].pc # "new"
  /\ Busy(n)' => /\ job'[n].op = job[n].op
                 /\ job'[n].svc.prov \in {job[n].svc.prov, None, n}
  /\ n # 0 => (Unmade(n)' => Unmade(n)) /\ (Unbound(n)' => Unbound(n))

\* Labels only go forward, and a service changes its provider only to the new one.
LEMMA StepAdvances ==
  ASSUME TypeInv, NEW n \in Jobs, Fits(n, job[n]), Step(n)
  PROVE  Advances(n)
<1>1. /\ Busy(n) /\ job[n].d \in Domains /\ job[n].op \in Ops /\ job[n].pc \in PcsOf(job[n].op)
      /\ job[n].svc \in Service
  BY StepFacts DEF Fits
<1>2. ASSUME ~Busy(n)', n # 0 => job'[n].pc = "done"
      PROVE  Advances(n)
  BY <1>2 DEF Advances, Unmade, Unbound
<1>3. ASSUME NEW l, NEW s, Stopped(n) \/ Moved(n, l, s), s.prov \in {job[n].svc.prov, None, n},
             l \in {"new", "provider", "application"} => Unmade(n),
             l \in {"new", "provider", "application", "clear", "clear_policy", "policy"} =>
               Unbound(n)
      PROVE  Advances(n)
  <2>1. CASE Stopped(n)
    BY <1>2, <2>1 DEF Stopped
  <2>2. CASE Moved(n, l, s)
    BY <1>3, <2>2 DEF Moved, Unmade, Unbound, Busy, Advances
  <2>. QED BY <1>3, <2>1, <2>2
<1>4. /\ \A i : [job[n].svc EXCEPT !.prov = i].prov = i
      /\ \A i : [job[n].svc EXCEPT !.pol = i].prov = job[n].svc.prov
      /\ \A i : [job[n].svc EXCEPT !.rec = i].prov = job[n].svc.prov
      /\ Unprovided(job[n].svc).prov = None
  BY <1>1 DEF Service, Unprovided
<1>a. CASE create_proxy_provider(n)
  <2>1. PICK s : s = job[n].svc
    OBVIOUS
  <2>2. (Stopped(n) \/ Moved(n, "application", s)) /\ s.prov \in {job[n].svc.prov, None, n}
    BY <1>a, <2>1, ProviderEffect
  <2>3. Unmade(n) /\ Unbound(n)
    BY <1>a DEF create_proxy_provider, At, Unmade, Unbound
  <2>. QED BY <1>3, <2>2, <2>3
<1>b. CASE create_application(n)
  <2>1. PICK s : s = [job[n].svc EXCEPT !.prov = n]
    OBVIOUS
  <2>2. (Stopped(n) \/ Moved(n, "clear", s)) /\ s.prov \in {job[n].svc.prov, None, n}
    BY <1>b, <1>4, <2>1, ApplicationEffect
  <2>3. Unbound(n)
    BY <1>b DEF create_application, At, Unmade, Unbound
  <2>. QED BY <1>3, <2>2, <2>3
<1>c. CASE clear_group_policy(n) \/ teardown(n)
  <2>1. PICK s \in {job[n].svc, [job[n].svc EXCEPT !.pol = None]} :
          \/ Stopped(n)
          \/ clear_group_policy(n) /\ \E l \in {"clear_policy", "policy"} : Moved(n, l, s)
          \/ \E l \in {"teardown_policy", "del_application"} : Moved(n, l, s)
    BY <1>c, ClearMoves
  <2>2. PICK l \in {"clear_policy", "policy", "teardown_policy", "del_application"} :
          /\ Stopped(n) \/ Moved(n, l, s)
          /\ l \in {"clear_policy", "policy"} => clear_group_policy(n) \/ Stopped(n)
    BY <2>1
  <2>3. CASE Stopped(n)
    BY <1>2, <2>3 DEF Stopped
  <2>4. CASE ~Stopped(n)
    <3>1. clear_group_policy(n) => Unbound(n)
      BY ClearMoves DEF Unbound
    <3>2. s.prov = job[n].svc.prov
      BY <1>4, <2>1
    <3>. QED BY <1>3, <2>2, <2>4, <3>1, <3>2
  <2>. QED BY <2>3, <2>4
<1>e. CASE sync_group_policy(n)
  <2>1. PICK s : s = [job[n].svc EXCEPT !.pol = n]
    OBVIOUS
  <2>2. /\ Stopped(n) \/ Moved(n, "dns", job[n].svc) \/ Moved(n, "dns", s)
        /\ s.prov = job[n].svc.prov
    BY <1>e, <1>4, <2>1, PolicyEffect
  <2>. QED BY <1>3, <2>2
<1>f. CASE delete_application(n)
  <2>1. PICK s : s = job[n].svc
    OBVIOUS
  <2>2. (Stopped(n) \/ Moved(n, "del_provider", s)) /\ s.prov \in {job[n].svc.prov, None, n}
    BY <1>f, <2>1, ApplicationGone
  <2>. QED BY <1>3, <2>2
<1>g. CASE delete_provider(n)
  <2>1. PICK s : s = Unprovided(job[n].svc)
    OBVIOUS
  <2>2. (Stopped(n) \/ Moved(n, AfterProvider(n), s)) /\ s.prov \in {job[n].svc.prov, None, n}
    BY <1>g, <1>4, <2>1, ProviderGone
  <2>. QED BY <1>3, <2>2 DEF AfterProvider
<1>h. CASE CountServices(n)
  <2>1. PICK s : s = job[n].svc
    OBVIOUS
  <2>2. (Stopped(n) \/ Moved(n, AfterCount(n), s)) /\ s.prov \in {job[n].svc.prov, None, n}
    BY <1>h, <2>1, CountEffect
  <2>. QED BY <1>3, <2>2 DEF AfterCount
<1>i. CASE sync_cloudflare_record(n)
  <2>1. PICK s : s = [job[n].svc EXCEPT !.rec = RecordOf(n)]
    OBVIOUS
  <2>2. (Stopped(n) \/ Moved(n, "write", s)) /\ s.prov \in {job[n].svc.prov, None, n}
    BY <1>i, <1>4, <2>1, RecordEffect
  <2>. QED BY <1>3, <2>2
<1>p. ASSUME RolledBack(n) PROVE Advances(n)
  BY <1>p, <1>2, <1>3 DEF RolledBack, Stopped
<1>j. CASE WriteRoute(n)
  BY <1>j, <1>3, <1>p, WriteEffect
<1>k. CASE rollback_cloudflare_record(n)
  BY <1>k, <1>2, UndoEffect DEF Stopped
<1>l. CASE delete_cloudflare_record(n)
  BY <1>l, <1>3, RecordGone
<1>m. CASE save(n)
  BY <1>m, <1>p, SaveEffect DEF Saved, Advances, Unmade, Unbound
<1>n. CASE DeleteRow(n)
  BY <1>n, <1>3, RowGone DEF AfterRow
<1>o. CASE Commit(n)
  BY <1>o, <1>2, CommitEffect
<1>. QED BY <1>a, <1>b, <1>c, <1>e, <1>f, <1>g, <1>h, <1>i, <1>j, <1>k, <1>l, <1>m, <1>n,
            <1>o DEF Step

\* Only two steps make something new at Authentik.
LEMMA StepMakes ==
  ASSUME TypeInv, NEW n \in Jobs, Step(n)
  PROVE  /\ create_application(n) \/ \A d \in Domains : apps'[d] \in {apps[d], None}
         /\ \/ sync_group_policy(n)
            \/ pols' \subseteq pols
            \/ pols' = BindingGone(job[n].svc.pol)
<1>1. apps \in [Domains -> Ids \cup {None}] /\ job[n].d \in Domains
  BY StepFacts DEF TypeInv, StoresTyped
<1>. QED BY <1>1 DEF Step, create_proxy_provider, clear_group_policy,
   teardown, DeleteBinding, DeletePolicy, delete_application, delete_provider, CountServices,
   sync_cloudflare_record, WriteRoute, rollback_cloudflare_record, delete_cloudflare_record,
   save, DeleteRow, Commit, create_application, sync_group_policy, authentikVars

\* The provider a new coroutine's service names is the one of the row.
LEMMA BeginProvider ==
  ASSUME TypeInv, NEW n \in Requests, Begin(n), Busy(n)'
  PROVE  \/ job'[n].svc.prov = None
         \/ \E d \in Domains : rows[d] # None /\ job'[n].svc.prov = rows[d].prov
<1>1. ASSUME NEW l, NEW o, NEW d \in Domains, NEW s, Started(n, l, o, d, s)
      PROVE  job'[n].svc = s
  BY <1>1 DEF Started
<1>2. ASSUME NEW d \in Domains, rows[d] \in Service
      PROVE  \A s \in Updated(rows[d]) : s.prov = rows[d].prov
  BY <1>2, UpdatedKeeps
<1>3. \A m, a, g : NewService(n, m, a, g).prov = None
  BY NewServiceFields
<1>. QED BY <1>1, <1>2, <1>3, BeginEffect

\* The objects there are at the start are known by their domain.
LEMMA IdsInit == Init => IdsFresh
<1> SUFFICES ASSUME Init PROVE IdsFresh
  OBVIOUS
<1>1. \A n \in Requests : n \notin Domains /\ n # None
  BY IdsAssumption, NoneAssumption, BoundsAssumption DEF Requests
<1>2. \A d \in Domains : /\ apps[d] \in {d, None}
                         /\ rows[d] # None => rows[d].id = d /\ rows[d].prov \in {d, None}
  BY DEF Init, SettledRows, Settled
<1>3. \A p \in pols : \E d \in Domains : p = [id |-> d, app |-> d, group |-> rows[d].group]
  BY DEF Init
<1>4. \A n \in Jobs : ~Busy(n)
  BY DEF Init, Busy, NoJob
<1>5. \A p \in pols : p.id \in Domains /\ p.app \in Domains
  BY <1>3
<1>6. \A p, q \in pols : p.id = q.id => p = q
  BY <1>3
<1>7. \A n \in Requests : n \in Jobs
  BY BoundsAssumption DEF Requests, Jobs
<1>. QED BY <1>1, <1>2, <1>4, <1>5, <1>6, <1>7 DEF IdsFresh

\* Every object made carries the number of its request, and is made once.
LEMMA IdsStep ==
  ASSUME Serial, TypeInv, OneAtATime, IdsFresh, [Next]_vars
  PROVE  IdsFresh'
<1>0. \A n \in Requests : n \in Jobs /\ n # 0
  BY BoundsAssumption DEF Requests, Jobs
<1>1. ASSUME NEW n \in Jobs, UNCHANGED <<rows, apps, pols>>, Only(n),
             n # 0 => At(n, "new") /\ ~At(n, "new")', ~Busy(n),
             Busy(n)' => \/ job'[n].svc.prov = None
                         \/ \E d \in Domains : rows[d] # None /\ job'[n].svc.prov = rows[d].prov
      PROVE  IdsFresh'
  <2>1. \A m \in Jobs \ {n} : job'[m] = job[m] /\ ~Busy(m)
    BY <1>1 DEF Only
  <2>2. \A m \in Requests : m # n => (At(m, "new")' <=> At(m, "new")) /\ (Unmade(m)' <=> Unmade(m))
                                     /\ (Unbound(m)' <=> Unbound(m)) /\ ~Busy(m)'
    BY <1>0, <2>1 DEF At, Unmade, Unbound, Busy
  <2>3. n # 0 => Unmade(n) /\ Unbound(n)
    BY <1>1 DEF At, Unmade, Unbound
  <2>4. \A m \in Requests : (Unmade(m)' => Unmade(m)) /\ (Unbound(m)' => Unbound(m))
                            /\ (At(m, "new")' => At(m, "new") /\ m # n)
                            /\ (~At(m, "new")' /\ Busy(m)' => At(m, "new"))
    BY <1>0, <1>1, <2>2, <2>3
  <2>5. \A m \in Jobs : Busy(m)' => m = n
    BY <2>1 DEF Busy
  <2>6. \A m \in Requests : m # None
    BY NoneAssumption, BoundsAssumption DEF Requests
  <2>7. ASSUME NEW m \in Requests, At(m, "new")', NEW i \in Jobs, Busy(i)'
        PROVE  job'[i].svc.prov # m
    BY <1>1, <2>4, <2>5, <2>6, <2>7 DEF IdsFresh
  <2>. QED BY <1>1, <2>4, <2>7 DEF IdsFresh
<1>2. ASSUME NEW n \in Requests, Begin(n) PROVE IdsFresh'
  <2>1. Only(n) /\ ~Busy(n) /\ n \in Jobs /\ At(n, "new") /\ UNCHANGED <<rows, apps, pols>>
    BY <1>2, OnlyOne, BeginEffect DEF Untouched
  <2>2. ~At(n, "new")'
    <3>1. ASSUME NEW l, NEW o, NEW d \in Domains, NEW s, Started(n, l, o, d, s), l # "new"
          PROVE  ~At(n, "new")'
      BY <3>1 DEF Started, At
    <3>2. \A r, s : AuthentikChange(r, s) # "new"
      BY DEF AuthentikChange
    <3>3. CASE ~Busy(n)'
      <4>1. PICK d \in Domains :
              \/ \E m \in Modes, a \in Auths, g \in Groups \cup {None} : CreateBegin(n, d, m, a, g)
              \/ UpdateBegin(n, d)
              \/ DeleteBegin(n, d)
        BY <1>2 DEF Begin
      <4>. QED BY <1>0, <4>1, <3>2, <2>1 DEF CreateBegin, UpdateBegin, DeleteBegin, Become, Finish,
                  Ended, NoJob, At, TypeInv, JobsSound
    <3>. QED BY <1>2, <3>1, <3>2, <3>3, BeginEffect
  <2>. QED BY <1>1, <1>2, <2>1, <2>2, BeginProvider
<1>3. ASSUME NEW d \in Domains, ExpireBegin(d) PROVE IdsFresh'
  <2>1. Only(0) /\ ~Busy(0) /\ 0 \in Jobs /\ UNCHANGED <<rows, apps, pols>> /\ rows[d] # None
    BY <1>3, OnlyOne, ExpireEffect DEF Untouched
  <2>2. SetMode(rows[d], "active").prov = rows[d].prov
    BY <1>3, ExpireEffect DEF SetMode, Service
  <2>. QED BY <1>1, <1>3, <2>1, <2>2, ExpireFields
<1>4. ASSUME NEW n \in Jobs, Step(n) PROVE IdsFresh'
  <2>1. /\ Only(n) /\ Busy(n) /\ Fits(n, job[n]) /\ Advances(n) /\ job[n].d \in Domains
        /\ job[n].svc \in Service /\ (n # 0 => n \in Requests /\ n \in Ids)
        /\ job[n].op \in Ops /\ job[n].pc \in PcsOf(job[n].op)
    BY <1>4, OnlyOne, StepAdvances, StepFacts, RequestIds DEF Fits
  <2>2. \A m \in Jobs \ {n} : job'[m] = job[m] /\ ~Busy(m) /\ ~Busy(m)'
    BY <2>1 DEF Only, Busy
  <2>3. \A m \in Requests : /\ Unmade(m)' => Unmade(m)
                            /\ Unbound(m)' => Unbound(m)
                            /\ At(m, "new")' => At(m, "new") /\ m # n
                            /\ Busy(m)' /\ job'[m].op = "create" => Busy(m) /\ job[m].op = "create"
    BY <1>0, <2>1, <2>2 DEF Advances, At, Unmade, Unbound
  <2>4. /\ apps \in [Domains -> Ids \cup {None}] /\ rows \in [Domains -> Service \cup {None}]
        /\ pols \subseteq Policy
    BY DEF TypeInv, StoresTyped
  <2>5. \A m \in Requests : m # None
    BY NoneAssumption, BoundsAssumption DEF Requests
  <2>a. /\ \A m \in Requests : Unmade(m)' => \A d \in Domains : apps'[d] # m
        /\ \A d, e \in Domains : apps'[d] # None /\ apps'[d] = apps'[e] => d = e
    <3>1. CASE create_application(n)
      <4>1. /\ apps' \in {apps, [apps EXCEPT ![job[n].d] = n]}
            /\ ~Unmade(n)' /\ Unmade(n) /\ n # 0
        <5>1. Unmade(n) /\ n # 0
          BY <3>1, <2>1 DEF create_application, At, Unmade, PcsOf, TypeInv, JobsSound, Sound
        <5>. QED BY <2>1, <3>1, <5>1, ApplicationEffect DEF Moved, Stopped, Unmade
      <4>. QED BY <2>1, <2>3, <2>4, <4>1 DEF IdsFresh
    <3>2. CASE \A d \in Domains : apps'[d] \in {apps[d], None}
      BY <2>3, <2>5, <3>2 DEF IdsFresh
    <3>. QED BY <1>4, <3>1, <3>2, StepMakes
  <2>b. /\ \A m \in Requests : Unmade(m)' => \A p \in pols' : p.app # m
        /\ \A m \in Requests : Unbound(m)' => \A p \in pols' : p.id # m
        /\ \A p, q \in pols' : p.id = q.id => p = q
    <3>1. CASE sync_group_policy(n)
      <4>1. n # 0 /\ ~Unmade(n) /\ Unbound(n) /\ ~Unbound(n)'
        <5>1. Unbound(n) /\ n # 0 /\ ~Unmade(n)
          BY <3>1, <2>1 DEF sync_group_policy, At, Unbound, Unmade, PcsOf, TypeInv, JobsSound,
             Sound
        <5>. QED BY <2>1, <3>1, <5>1, PolicyEffect DEF Moved, Stopped, Unbound
      <4>2. PICK q : /\ pols' \in {pols, pols \cup {q}}
                     /\ q.id = n /\ q.app \in {n, apps[job[n].d], None}
        <5> DEFINE loose == [PolicyOf(n) EXCEPT !.app = None]
        <5>1. pols' \in {pols, pols \cup {PolicyOf(n)}, pols \cup {loose}}
          BY <3>1, PolicyEffect
        <5>2. /\ PolicyOf(n).id = n /\ PolicyOf(n).app \in {n, apps[job[n].d]}
              /\ loose.id = n /\ loose.app = None
          BY DEF PolicyOf
        <5>. HIDE DEF loose
        <5>. QED BY <5>1, <5>2
      <4>. QED BY <2>1, <2>3, <2>4, <2>5, <4>1, <4>2 DEF IdsFresh
    <3>2. CASE pols' \subseteq pols
      BY <2>3, <3>2 DEF IdsFresh
    <3>3. CASE pols' = BindingGone(job[n].svc.pol)
      <4> DEFINE Bare(p) == IF p.id = job[n].svc.pol THEN [p EXCEPT !.app = None] ELSE p
      <4>a. \A p \in pols : Bare(p).id = p.id /\ Bare(p).app \in {p.app, None}
        BY <2>4 DEF Policy
      <4>b. \A p \in pols' : \E q \in pols : p = Bare(q)
        BY <3>3 DEF BindingGone
      <4>. HIDE DEF Bare
      <4>1. /\ \A p \in pols' : \E q \in pols : q.id = p.id /\ p.app \in {q.app, None}
            /\ \A p, q \in pols' : p.id = q.id => p = q
        BY <4>a, <4>b DEF IdsFresh
      <4>. QED BY <2>3, <2>5, <4>1 DEF IdsFresh
    <3>. QED BY <1>4, <3>1, <3>2, <3>3, StepMakes
  <2>c. CASE UNCHANGED rows
    <3>1. ASSUME NEW m \in Requests, At(m, "new")', NEW i \in Jobs, Busy(i)'
          PROVE  job'[i].svc.prov # m
      BY <2>1, <2>2, <2>3, <2>5, <3>1 DEF IdsFresh, Advances
    <3>. QED BY <2>3, <2>a, <2>b, <2>c, <3>1 DEF IdsFresh
  <2>d. CASE Commit(n)
    <3>1. NewRow(n) = Target(job[n]) /\ ~Busy(n)'
      BY <2>1, <2>d, CommitResult, CommitEffect
    <3>2. \/ UNCHANGED rows
          \/ rows' = [rows EXCEPT ![job[n].d] = None]
          \/ rows' = [rows EXCEPT ![job[n].d] = job[n].svc]
      BY <2>d, <3>1, CommitEffect DEF Target
    <3>3. CASE rows' = [rows EXCEPT ![job[n].d] = None]
      BY <2>2, <2>3, <2>4, <2>a, <2>b, <3>1, <3>3 DEF IdsFresh
    <3>4. CASE rows' = [rows EXCEPT ![job[n].d] = job[n].svc]
      <4>1. PICK d \in Domains, s \in Service : d = job[n].d /\ s = job[n].svc
        BY <2>1
      <4>2. \A e \in Domains \ {d} : rows[e] # None => rows[e].id # s.id
        <5>1. CASE job[n].op = "create"
          <6>1. n \in Requests
            BY <2>1, <5>1, <1>4, StepFacts DEF Sound, Busy
          <6>. QED BY <2>1, <4>1, <5>1, <6>1 DEF IdsFresh, Fits
        <5>2. CASE job[n].op # "create"
          <6>1. rows[d] # None /\ rows[d].id = s.id
            BY <2>1, <4>1, <5>2 DEF Fits
          <6>. QED BY <6>1 DEF IdsFresh
        <5>. QED BY <5>1, <5>2
      <4>3. \A m \in Requests : At(m, "new")' => s.id # m /\ s.prov # m
        BY <2>1, <2>3, <4>1 DEF IdsFresh, Fits
      <4>4. rows'[d] = s /\ \A e \in Domains \ {d} : rows'[e] = rows[e]
        BY <2>4, <3>4, <4>1
      <4>5. \A m \in Jobs : ~Busy(m)'
        BY <2>2, <3>1
      <4>6. \A e, f \in Domains :
              rows'[e] # None /\ rows'[f] # None /\ rows'[e].id = rows'[f].id => e = f
        BY <4>2, <4>4 DEF IdsFresh
      <4>7. \A m \in Requests : At(m, "new")' =>
              \A e \in Domains : rows'[e] # None => rows'[e].id # m /\ rows'[e].prov # m
        BY <2>3, <4>3, <4>4 DEF IdsFresh
      <4>. QED BY <1>0, <2>a, <2>b, <4>5, <4>6, <4>7 DEF IdsFresh
    <3>. QED BY <2>c, <3>2, <3>3, <3>4
  <2>. QED BY <1>4, <2>c, <2>d, RowsStep
<1>5. CASE SyncStep \/ UNCHANGED vars
  <2>1. UNCHANGED <<rows, apps, pols, job>>
    BY <1>5 DEF SyncStep, SyncRead, SyncWrite, SyncWritten, SyncMiddleware, SyncFails,
       authentikVars, vars
  <2>. QED BY <2>1 DEF IdsFresh, Unmade, Unbound, At, Busy
<1>6. CASE Killed
  <2>1. UNCHANGED <<rows, apps, pols>> /\ \A n \in Jobs : ~Busy(n)'
    BY <1>6 DEF Killed, authentikVars, Busy, Ended, NoJob
  <2>2. \A n \in Requests : job'[n] = job[n] \/ job'[n].pc = "done"
    BY <1>0, <1>6 DEF Killed, Ended, NoJob
  <2>3. \A n \in Requests : (Unmade(n)' => Unmade(n)) /\ (Unbound(n)' => Unbound(n))
                            /\ (At(n, "new")' => At(n, "new"))
    BY <2>2 DEF Unmade, Unbound, At
  <2>. QED BY <1>0, <2>1, <2>3 DEF IdsFresh
<1>. QED BY <1>2, <1>3, <1>4, <1>5, <1>6 DEF Next

-----------------------------------------------------------------------------
(* Authentik.                                                              *)

\* Domain d has just what service s, or none, says: its application, the
\* policy of its group and the middleware file, or no application at all.
Matched(d, s) ==
  /\ s # None /\ uses_authentik(s) =>
       /\ apps[d] # None /\ s.prov # None /\ mwFile
       /\ s.group = None => s.pol = None /\ \A p \in pols : p.app # apps[d]
       /\ s.group # None =>
            /\ [id |-> s.pol, app |-> apps[d], group |-> s.group] \in pols
            /\ \A p \in pols : p.app = apps[d] =>
                 p = [id |-> s.pol, app |-> apps[d], group |-> s.group]
  /\ s # None /\ ~uses_authentik(s) => s.prov = None /\ s.pol = None /\ s.group = None
  /\ s = None \/ ~uses_authentik(s) => apps[d] = None

\* The policy the service knows, if any, is bound to no other application.
PolicyKnown(d, s) ==
  /\ apps[d] # None
  /\ \A p \in pols : p.id = s.pol => p.app \in {apps[d], None}

\* What coroutine n, in state j, finds at Authentik.
Expects(n, j) ==
  /\ j.pc \in {"provider", "application"} =>
       uses_authentik(j.svc) /\ apps[j.d] = None /\ j.svc.prov = None /\ j.svc.pol = None
  /\ j.pc \in {"clear", "clear_policy", "policy"} =>
       /\ uses_authentik(j.svc) /\ PolicyKnown(j.d, j.svc) /\ j.svc.prov # None
       /\ IF j.svc.prov = n THEN apps[j.d] = n ELSE mwFile
  /\ j.pc = "clear" => \A p \in pols : p.app = apps[j.d] => p.id = j.svc.pol
  /\ j.pc \in {"clear_policy", "policy"} => \A p \in pols : p.app # apps[j.d]
  /\ j.pc = "policy" => j.svc.pol = None
  /\ j.pc \in {"teardown", "teardown_policy", "del_application"} =>
       PolicyKnown(j.d, j.svc) /\ j.svc.prov # None
  /\ j.pc \in {"del_application", "del_provider"} => j.svc.pol = None
  /\ j.pc \in {"teardown", "teardown_policy", "del_application", "del_provider", "count"} =>
       j.op = "delete" \/ (~uses_authentik(j.svc) /\ j.svc.group = None)
  /\ j.pc \in {"del_provider", "count", "del_dns", "del_row"} => apps[j.d] = None
  /\ j.pc \in {"dns", "write", "save"} => Matched(j.d, j.svc)
  /\ j.pc = "count" /\ j.op # "delete" => Matched(j.d, j.svc)
  /\ j.pc = "commit" => Matched(j.d, Target(j))

\* Authentik follows the rows of the domains nobody works on, and every coroutine
\* finds what it expects.
AuthentikFollows ==
  /\ \A d \in Domains : Working(d) = {} => Matched(d, rows[d])
  /\ \A n \in Jobs : Busy(n) => Expects(n, job[n])

\* A step at one domain is none at another.
LEMMA OthersMatched ==
  ASSUME TypeInv, IdsFresh, NEW d \in Domains, NEW e \in Domains \ {d}, NEW s, Matched(e, s),
         apps'[e] = apps[e],
         s # None /\ uses_authentik(s) =>
           /\ mwFile'
           /\ \A p : p.app = apps[e] => (p \in pols' <=> p \in pols)
  PROVE  Matched(e, s)'
BY DEF Matched

\* A step after which the coroutine still runs.
LEMMA AuthentikMoved ==
  ASSUME AuthentikFollows, NEW n \in Jobs, Only(n), UNCHANGED rows, Busy(n), Busy(n)',
         NEW d \in Domains, NEW j, job[n].d = d, job'[n] = j, j.d = d,
         \A e \in Domains \ {d} : Matched(e, rows[e]) => Matched(e, rows[e])',
         Expects(n, j)'
  PROVE  AuthentikFollows'
<1>1. \A m \in Jobs : Busy(m)' => m = n
  BY DEF Only, Busy
<1>2. \A m \in Jobs : Busy(m) => m = n
  BY DEF Only
<1>3. Expects(n, job[n])'
  BY DEF Expects, Matched, PolicyKnown, Target
<1>4. ASSUME NEW e \in Domains, Working(e)' = {} PROVE Matched(e, rows[e])'
  <2>1. e # d
    BY <1>4 DEF Working
  <2>2. Working(e) = {}
    BY <1>2, <2>1 DEF Working
  <2>. QED BY <2>1, <2>2 DEF AuthentikFollows
<1>. QED BY <1>1, <1>3, <1>4 DEF AuthentikFollows

\* The policies that matter to another domain stay.
LEMMA OtherPolicies ==
  ASSUME TypeInv, IdsFresh, NEW d \in Domains, NEW e \in Domains \ {d}, apps[d] # None
  PROVE  apps[e] # apps[d]
BY DEF IdsFresh

\* Every step of a coroutine leaves the next one what it expects.
LEMMA AuthentikStep ==
  ASSUME Serial, TypeInv, OneAtATime, IdsFresh, AuthentikFollows, NEW n \in Jobs, Step(n),
         failed' = {}, "status" \notin seen'
  PROVE  AuthentikFollows'
<1>1. /\ Only(n) /\ Busy(n) /\ Fits(n, job[n]) /\ job[n].d \in Domains
      /\ job[n].op \in Ops /\ job[n].pc \in PcsOf(job[n].op) /\ job[n].svc \in Service
      /\ job[n] \in Job
  BY OnlyOne, StepFacts DEF Fits
<1>2. PICK j : j = job[n]
  OBVIOUS
<1>3. PICK k : k = job'[n]
  OBVIOUS
<1>4. PICK d \in Domains, s \in Service : d = j.d /\ s = j.svc
  BY <1>1, <1>2
<1>5. /\ s # None /\ pols \subseteq Policy /\ apps \in [Domains -> Ids \cup {None}]
      /\ rows \in [Domains -> Service \cup {None}]
  BY NoServiceAssumption DEF TypeInv, StoresTyped
<1>6. /\ \A i \in Ids : i # None
      /\ \A p \in Policy : p.id # None
      /\ n # 0 => n \in Ids /\ n \in Requests
  BY NoneAssumption, RequestIds DEF Ids, Requests, Policy
<1>7. Expects(n, j)
  BY <1>1, <1>2 DEF AuthentikFollows
<1>8. ~Stopped(n)
  BY DEF Stopped
<1>9. ASSUME Busy(n)', rows' = rows, k.d = d, Expects(n, k)',
             \A e \in Domains \ {d} : Matched(e, rows[e]) => Matched(e, rows[e])'
      PROVE  AuthentikFollows'
  BY <1>1, <1>2, <1>3, <1>4, <1>9, AuthentikMoved
<1>10. ASSUME rows' = rows, NEW e \in Domains \ {d}, Matched(e, rows[e]), apps'[e] = apps[e],
              \/ mwFile'
              \/ mwFile' = mwFile
              \/ rows[e] # None /\ uses_authentik(rows[e]) => mwFile',
              \A p : apps[e] # None /\ p.app = apps[e] => (p \in pols' <=> p \in pols)
       PROVE  Matched(e, rows[e])'
  <2>1. PICK r : r = rows[e]
    OBVIOUS
  <2>2. r # None /\ uses_authentik(r) =>
          /\ mwFile' /\ apps[e] # None
          /\ \A p : p.app = apps[e] => (p \in pols' <=> p \in pols)
    BY <1>10, <2>1 DEF Matched
  <2>3. Matched(e, r)'
    BY <1>10, <2>1, <2>2, OthersMatched
  <2>. QED BY <1>10, <2>1, <2>3 DEF Matched
<1>a. CASE create_proxy_provider(n)
  <2>1. j.pc = "provider"
    BY <1>a, <1>2 DEF create_proxy_provider, At
  <2>2. Moved(n, "application", s) /\ UNCHANGED <<rows, mwFile, apps, pols>>
    BY <1>a, <1>2, <1>4, <1>8, ProviderEffect
  <2>3. k.pc = "application" /\ k.op = j.op /\ k.d = d /\ k.svc = s /\ Busy(n)'
    BY <1>2, <1>3, <1>4, <2>2 DEF Moved
  <2>4. Expects(n, k)'
    BY <1>4, <1>7, <2>1, <2>2, <2>3 DEF Expects
  <2>. QED BY <1>9, <1>10, <2>2, <2>3, <2>4
<1>b. CASE create_application(n)
  <2>1. j.pc = "application" /\ n # 0
    BY <1>b, <1>1, <1>2, StepFacts DEF create_application, At, Sound
  <2>2. PICK t : t = [s EXCEPT !.prov = n]
    OBVIOUS
  <2>3. /\ Moved(n, "clear", t) /\ apps[d] = None /\ apps' = [apps EXCEPT ![d] = n]
        /\ UNCHANGED <<rows, mwFile, pols>>
    BY <1>b, <1>2, <1>4, <1>8, <2>2, ApplicationEffect
  <2>4. k.pc = "clear" /\ k.op = j.op /\ k.d = d /\ k.svc = t /\ Busy(n)'
    BY <1>2, <1>3, <1>4, <2>3 DEF Moved
  <2>5. t.prov = n /\ t.pol = s.pol /\ t.auth = s.auth
    BY <2>2 DEF Service
  <2>6. uses_authentik(s) /\ s.pol = None
    BY <1>4, <1>7, <2>1 DEF Expects
  <2>7. \A p \in pols : p.app # n
    BY <1>2, <1>6, <2>1 DEF IdsFresh, Unmade
  <2>8. apps'[d] = n /\ n # None
    BY <1>5, <1>6, <2>1, <2>3
  <2>9. Expects(n, k)'
    BY <1>5, <1>6, <2>3, <2>4, <2>5, <2>6, <2>7, <2>8 DEF Expects, PolicyKnown, uses_authentik
  <2>. QED BY <1>5, <1>9, <1>10, <2>3, <2>4, <2>9
<1>11. ASSUME rows' = rows, NEW e \in Domains \ {d}, Matched(e, rows[e]), apps' = apps,
              mwFile' = mwFile, PolicyKnown(d, s),
              pols' \in {pols, BindingGone(s.pol), {p \in pols : p.id # s.pol}}
       PROVE  Matched(e, rows[e])'
  <2>1. apps[e] # apps[d]
    BY <1>11, OtherPolicies DEF PolicyKnown
  <2>2. \A p : apps[e] # None /\ p.app = apps[e] => (p \in pols' <=> p \in pols)
    BY <1>5, <1>11, <2>1, BindingFacts DEF PolicyKnown
  <2>. QED BY <1>10, <1>11, <2>2
<1>13. ASSUME PolicyKnown(d, s), s.prov # None,
              \/ j.pc = "clear_policy" /\ DeletePolicy(n, "policy")
              \/ j.pc = "teardown_policy" /\ DeletePolicy(n, "del_application")
       PROVE  AuthentikFollows'
  <2>1. PICK l \in {"policy", "del_application"} :
          DeletePolicy(n, l) /\ j.pc = IF l = "policy" THEN "clear_policy" ELSE "teardown_policy"
    BY <1>13
  <2>2. PICK t : t = [s EXCEPT !.pol = None]
    OBVIOUS
  <2>3. /\ Moved(n, l, t) /\ pols' = {p \in pols : p.id # s.pol}
        /\ UNCHANGED <<rows, mwFile, apps>>
    BY <1>2, <1>4, <1>8, <2>1, <2>2, ClearEffect
  <2>4. k.pc = l /\ k.op = j.op /\ k.d = d /\ k.svc = t /\ Busy(n)'
    BY <1>2, <1>3, <1>4, <2>3 DEF Moved
  <2>5. t.prov = s.prov /\ t.pol = None /\ t.auth = s.auth /\ t.group = s.group
    BY <2>2 DEF Service
  <2>6. PolicyKnown(k.d, k.svc)'
    BY <1>5, <1>6, <1>13, <2>3, <2>4, <2>5 DEF PolicyKnown
  <2>7. CASE l = "policy"
    <3>1. /\ uses_authentik(s) /\ IF s.prov = n THEN apps[d] = n ELSE mwFile
          /\ \A p \in pols : p.app # apps[d]
      BY <1>4, <1>7, <2>1, <2>7 DEF Expects
    <3>2. Expects(n, k)'
      BY <1>13, <2>3, <2>4, <2>5, <2>6, <2>7, <3>1 DEF Expects, uses_authentik
    <3>. QED BY <1>9, <1>11, <1>13, <2>3, <2>4, <3>2
  <2>8. CASE l = "del_application"
    <3>1. j.op = "delete" \/ (~uses_authentik(s) /\ s.group = None)
      BY <1>4, <1>7, <2>1, <2>8 DEF Expects
    <3>2. Expects(n, k)'
      BY <1>13, <2>3, <2>4, <2>5, <2>6, <2>8, <3>1 DEF Expects, uses_authentik
    <3>. QED BY <1>9, <1>11, <1>13, <2>3, <2>4, <3>2
  <2>. QED BY <2>7, <2>8
<1>14. ASSUME PolicyKnown(d, s), s.prov # None,
              \/ j.pc = "clear" /\ DeleteBinding(n, "clear_policy", "policy")
              \/ j.pc = "teardown" /\ DeleteBinding(n, "teardown_policy", "del_application")
       PROVE  AuthentikFollows'
  <2>1. PICK l \in {"clear_policy", "teardown_policy"}, m \in {"policy", "del_application"} :
          /\ DeleteBinding(n, l, m)
          /\ \/ j.pc = "clear" /\ l = "clear_policy" /\ m = "policy"
             \/ j.pc = "teardown" /\ l = "teardown_policy" /\ m = "del_application"
    BY <1>14
  <2>2. /\ UNCHANGED <<rows, mwFile, apps>>
        /\ \/ Moved(n, m, s) /\ s.pol = None /\ pols' = pols
           \/ Moved(n, l, s) /\ pols' = BindingGone(s.pol)
    BY <1>2, <1>4, <1>8, <2>1, UnbindEffect
  <2>3. PICK x \in {l, m} : k.pc = x /\ k.op = j.op /\ k.d = d /\ k.svc = s /\ Busy(n)'
                           /\ (x = m => s.pol = None /\ pols' = pols)
                           /\ (x = l => pols' = BindingGone(s.pol))
    <3>1. l # m
      BY <2>1
    <3>. QED BY <1>2, <1>3, <1>4, <2>2, <3>1 DEF Moved
  <2>4. PolicyKnown(k.d, k.svc)'
    BY <1>5, <1>14, <2>2, <2>3, BindingFacts DEF PolicyKnown
  <2>5. CASE j.pc = "clear"
    <3>1. /\ uses_authentik(s) /\ IF s.prov = n THEN apps[d] = n ELSE mwFile
          /\ \A p \in pols : p.app = apps[d] => p.id = s.pol
      BY <1>4, <1>7, <2>5 DEF Expects
    <3>2. \A p \in pols' : p.app # apps[d]
      BY <1>5, <1>6, <1>14, <2>3, <3>1, BindingFacts DEF PolicyKnown
    <3>3. Expects(n, k)'
      BY <1>14, <2>1, <2>2, <2>3, <2>4, <2>5, <3>1, <3>2 DEF Expects
    <3>. QED BY <1>9, <1>11, <1>14, <2>2, <2>3, <3>3
  <2>6. CASE j.pc = "teardown"
    <3>1. j.op = "delete" \/ (~uses_authentik(s) /\ s.group = None)
      BY <1>4, <1>7, <2>6 DEF Expects
    <3>2. Expects(n, k)'
      BY <1>14, <2>1, <2>2, <2>3, <2>4, <2>6, <3>1 DEF Expects
    <3>. QED BY <1>9, <1>11, <1>14, <2>2, <2>3, <3>2
  <2>. QED BY <2>1, <2>5, <2>6
<1>c. CASE clear_group_policy(n)
  <2>1. PolicyKnown(d, s) /\ s.prov # None
    BY <1>c, <1>2, <1>4, <1>7 DEF clear_group_policy, At, Expects
  <2>. QED BY <1>c, <1>2, <1>13, <1>14, <2>1 DEF clear_group_policy, At
<1>d. CASE teardown(n)
  <2>1. PolicyKnown(d, s) /\ s.prov # None
    BY <1>d, <1>2, <1>4, <1>7 DEF teardown, At, Expects
  <2>. QED BY <1>d, <1>2, <1>13, <1>14, <2>1 DEF teardown, At
<1>e. CASE sync_group_policy(n)
  <2>1. j.pc = "policy"
    BY <1>e, <1>2 DEF sync_group_policy, At
  <2>2. PICK t : t = [s EXCEPT !.pol = n]
    OBVIOUS
  <2>3. PICK q : q = [id |-> n, app |-> IF s.prov = n THEN n ELSE apps[d], group |-> s.group]
    OBVIOUS
  <2>4. PolicyOf(n) = q /\ (SettingUp(n) <=> s.prov = n)
    BY <1>2, <1>4, <2>3 DEF PolicyOf, SettingUp
  <2>5. /\ uses_authentik(s) /\ apps[d] # None /\ s.prov # None
        /\ IF s.prov = n THEN apps[d] = n ELSE mwFile
        /\ s.pol = None /\ \A p \in pols : p.app # apps[d]
    BY <1>4, <1>7, <2>1 DEF Expects, PolicyKnown
  <2>6. /\ UNCHANGED <<rows, apps>>
        /\ \/ Moved(n, "dns", s) /\ s.group = None /\ pols' = pols
           \/ Moved(n, "dns", t) /\ s.group # None /\ pols' = pols \cup {q}
        /\ mwFile' = (mwFile \/ SettingUp(n))
    BY <1>e, <1>2, <1>4, <1>8, <2>2, <2>4, PolicyEffect
  <2>7. mwFile'
    BY <2>4, <2>5, <2>6
  <2>8. q = [id |-> n, app |-> apps[d], group |-> s.group]
    BY <2>3, <2>5
  <2>9. ASSUME NEW e \in Domains \ {d}, Matched(e, rows[e]) PROVE Matched(e, rows[e])'
    <3>1. apps[e] # apps[d]
      BY <2>5, OtherPolicies
    <3>2. \A p : p.app = apps[e] => (p \in pols' <=> p \in pols)
      BY <2>6, <2>8, <3>1
    <3>. QED BY <1>10, <2>6, <2>7, <2>9, <3>2
  <2>10. CASE Moved(n, "dns", s) /\ s.group = None /\ pols' = pols
    <3>1. k.pc = "dns" /\ k.op = j.op /\ k.d = d /\ k.svc = s /\ Busy(n)'
      BY <1>2, <1>3, <1>4, <2>10 DEF Moved
    <3>2. Matched(d, s)'
      BY <1>5, <2>5, <2>6, <2>7, <2>10 DEF Matched
    <3>3. Expects(n, k)'
      BY <3>1, <3>2 DEF Expects, Matched
    <3>. QED BY <1>9, <2>6, <2>9, <3>1, <3>3
  <2>11. CASE Moved(n, "dns", t) /\ s.group # None /\ pols' = pols \cup {q}
    <3>1. k.pc = "dns" /\ k.op = j.op /\ k.d = d /\ k.svc = t /\ Busy(n)'
      BY <1>2, <1>3, <1>4, <2>11 DEF Moved
    <3>2. t.prov = s.prov /\ t.pol = n /\ t.auth = s.auth /\ t.group = s.group
      BY <2>2 DEF Service
    <3>3. uses_authentik(t)
      BY <2>5, <3>2 DEF uses_authentik
    <3>4. t # None
      <4>1. n \in Ids
        BY <1>1, <1>2, <2>1, StepFacts DEF Sound
      <4>. QED BY <2>2, <4>1, ServiceChanges, NoServiceAssumption
    <3>5. /\ [id |-> n, app |-> apps[d], group |-> s.group] \in pols'
          /\ \A p \in pols' : p.app = apps[d] => p = [id |-> n, app |-> apps[d], group |-> s.group]
      BY <2>5, <2>8, <2>11
    <3>6. Matched(d, t)'
      BY <2>5, <2>6, <2>7, <2>11, <3>2, <3>3, <3>4, <3>5 DEF Matched
    <3>7. Expects(n, k)'
      BY <3>1, <3>6 DEF Expects, Matched
    <3>. QED BY <1>9, <2>6, <2>9, <3>1, <3>7
  <2>. QED BY <2>6, <2>10, <2>11
<1>f. CASE delete_application(n)
  <2>1. j.pc = "del_application"
    BY <1>f, <1>2 DEF delete_application, At
  <2>2. /\ PolicyKnown(d, s) /\ s.prov # None /\ s.pol = None
        /\ j.op = "delete" \/ (~uses_authentik(s) /\ s.group = None)
    BY <1>4, <1>7, <2>1 DEF Expects
  <2>3. /\ Moved(n, "del_provider", s) /\ apps' = [apps EXCEPT ![d] = None]
        /\ UNCHANGED <<rows, mwFile, pols>>
    BY <1>f, <1>2, <1>4, <1>8, <2>2, ApplicationGone
  <2>4. k.pc = "del_provider" /\ k.op = j.op /\ k.d = d /\ k.svc = s /\ Busy(n)'
    BY <1>2, <1>3, <1>4, <2>3 DEF Moved
  <2>5. Expects(n, k)'
    BY <1>5, <2>2, <2>3, <2>4 DEF Expects
  <2>. QED BY <1>5, <1>9, <1>10, <2>3, <2>4, <2>5
<1>g. CASE delete_provider(n)
  <2>1. j.pc = "del_provider"
    BY <1>g, <1>2 DEF delete_provider, At
  <2>2. /\ s.pol = None /\ apps[d] = None
        /\ j.op = "delete" \/ (~uses_authentik(s) /\ s.group = None)
    BY <1>4, <1>7, <2>1 DEF Expects
  <2>3. PICK t : t = Unprovided(s)
    OBVIOUS
  <2>4. PICK l : l = AfterProvider(n)
    OBVIOUS
  <2>5. Moved(n, l, t) /\ UNCHANGED <<rows, mwFile, apps, pols>>
    BY <1>g, <1>2, <1>4, <1>8, <2>3, <2>4, ProviderGone
  <2>6. k.pc = l /\ k.op = j.op /\ k.d = d /\ k.svc = t /\ Busy(n)'
    BY <1>2, <1>3, <1>4, <2>5 DEF Moved
  <2>7. t.prov = None /\ t.pol = None /\ t.group = None /\ t.auth = s.auth
    BY <2>2, <2>3 DEF Service, Unprovided
  <2>8. CASE j.op = "delete"
    <3>1. l = "del_dns"
      BY <1>2, <2>4, <2>8 DEF AfterProvider
    <3>2. Expects(n, k)'
      BY <2>2, <2>5, <2>6, <3>1 DEF Expects
    <3>. QED BY <1>9, <1>10, <2>5, <2>6, <3>2
  <2>9. CASE j.op # "delete"
    <3>1. l = "count"
      BY <1>2, <2>4, <2>9 DEF AfterProvider
    <3>2. ~uses_authentik(t)
      BY <2>2, <2>7, <2>9 DEF uses_authentik
    <3>3. Matched(d, t)'
      BY <2>2, <2>5, <2>7, <3>2 DEF Matched
    <3>4. Expects(n, k)'
      BY <2>2, <2>5, <2>6, <2>7, <3>1, <3>2, <3>3 DEF Expects, Matched
    <3>. QED BY <1>9, <1>10, <2>5, <2>6, <3>4
  <2>. QED BY <2>8, <2>9
<1>h. CASE CountServices(n)
  <2>1. j.pc = "count"
    BY <1>h, <1>2 DEF CountServices, At
  <2>2. /\ apps[d] = None
        /\ j.op # "delete" => Matched(d, s)
        /\ j.op = "delete" \/ (~uses_authentik(s) /\ s.group = None)
    BY <1>4, <1>7, <2>1 DEF Expects
  <2>3. PICK l : l = AfterCount(n)
    OBVIOUS
  <2>4. /\ Moved(n, l, s) /\ UNCHANGED <<rows, apps, pols>>
        /\ mwFile' = (mwFile /\ OthersUse(s.id))
    BY <1>h, <1>2, <1>4, <1>8, <2>3, CountEffect
  <2>5. k.pc = l /\ k.op = j.op /\ k.d = d /\ k.svc = s /\ Busy(n)'
    BY <1>2, <1>3, <1>4, <2>4 DEF Moved
  <2>6. ASSUME NEW e \in Domains \ {d}, Matched(e, rows[e]) PROVE Matched(e, rows[e])'
    <3>1. rows[d] # None /\ rows[d].id = s.id
      BY <1>1, <1>2, <1>4, <2>1 DEF Fits, PcsOf, Ops
    <3>2. rows[e] # None => rows[e].id # s.id
      BY <3>1 DEF IdsFresh
    <3>3. rows[e] # None /\ uses_authentik(rows[e]) => mwFile'
      BY <2>4, <2>6, <3>2 DEF Matched, OthersUse
    <3>. QED BY <1>10, <2>4, <2>6, <3>3
  <2>7. CASE j.op = "delete"
    <3>1. l = "commit" /\ Target(k) = None
      BY <1>2, <2>3, <2>5, <2>7 DEF AfterCount, Target
    <3>2. Matched(d, None)'
      BY <2>2, <2>4 DEF Matched
    <3>3. Matched(k.d, Target(k))'
      BY <2>5, <3>1, <3>2
    <3>4. Expects(n, k)'
      BY <2>5, <3>1, <3>3 DEF Expects, Matched
    <3>. QED BY <1>9, <2>4, <2>5, <2>6, <3>4
  <2>8. CASE j.op # "delete"
    <3>1. l = "dns"
      BY <1>2, <2>3, <2>8 DEF AfterCount
    <3>2. ~uses_authentik(s) /\ Matched(d, s)
      BY <2>2, <2>8
    <3>3. Matched(d, s)'
      BY <2>4, <3>2 DEF Matched
    <3>4. Expects(n, k)'
      BY <2>5, <3>1, <3>3 DEF Expects, Matched
    <3>. QED BY <1>9, <2>4, <2>5, <2>6, <3>4
  <2>. QED BY <2>7, <2>8
<1>i. CASE sync_cloudflare_record(n)
  <2>1. j.pc = "dns"
    BY <1>i, <1>2 DEF sync_cloudflare_record, At
  <2>2. PICK t : t = [s EXCEPT !.rec = RecordOf(n)]
    OBVIOUS
  <2>3. Moved(n, "write", t) /\ UNCHANGED <<rows, mwFile, apps, pols>>
    BY <1>i, <1>2, <1>4, <1>8, <2>2, RecordEffect
  <2>4. k.pc = "write" /\ k.op = j.op /\ k.d = d /\ k.svc = t /\ Busy(n)'
    BY <1>2, <1>3, <1>4, <2>3 DEF Moved
  <2>5. /\ t.prov = s.prov /\ t.pol = s.pol /\ t.auth = s.auth /\ t.group = s.group
        /\ t \in Service /\ t # None
    <3>1. n \in Ids
      BY <1>1, <1>2, <2>1, StepFacts DEF Sound
    <3>2. RecordOf(n) \in Ids \cup {None}
      BY <1>1, <3>1 DEF RecordOf, upsert_service_dns_record, TypeInv, StoresTyped
    <3>3. t \in Service
      BY <2>2, <3>2, ServiceChanges
    <3>. QED BY <2>2, <3>3, NoServiceAssumption DEF Service
  <2>6. Matched(d, s)
    BY <1>4, <1>7, <2>1 DEF Expects
  <2>7. Matched(d, t)'
    BY <1>5, <2>3, <2>5, <2>6 DEF Matched, uses_authentik
  <2>8. Expects(n, k)'
    BY <2>4, <2>7 DEF Expects, Matched
  <2>. QED BY <1>9, <1>10, <2>3, <2>4, <2>8
<1>12. ASSUME NEW l \in {"save", "undo", "del_row", "count", "commit"}, Moved(n, l, s),
              UNCHANGED <<rows, mwFile, apps, pols>>,
              l = "save" => Matched(d, s),
              l \in {"del_row", "count", "commit"} => apps[d] = None /\ j.op = "delete"
       PROVE  AuthentikFollows'
  <2>1. k.pc = l /\ k.op = j.op /\ k.d = d /\ k.svc = s /\ Busy(n)'
    BY <1>2, <1>3, <1>4, <1>12 DEF Moved
  <2>2. l = "save" => Matched(d, s)'
    BY <1>12 DEF Matched
  <2>3. l = "commit" => Matched(d, Target(k))'
    BY <1>12, <2>1 DEF Matched, Target
  <2>4. Expects(n, k)'
    BY <1>12, <2>1, <2>2, <2>3 DEF Expects, Matched
  <2>. QED BY <1>9, <1>10, <1>12, <2>1, <2>4
<1>j. CASE WriteRoute(n)
  <2>1. j.pc = "write" /\ Matched(d, s)
    BY <1>j, <1>2, <1>4, <1>7 DEF WriteRoute, At, Expects
  <2>2. Moved(n, "save", s) \/ Moved(n, "undo", s)
    BY <1>j, <1>2, <1>4, <1>8, WriteEffect DEF RolledBack
  <2>3. UNCHANGED <<rows, mwFile, apps, pols>>
    BY <1>j, WriteEffect
  <2>. QED BY <1>12, <2>1, <2>2, <2>3
<1>k. ~rollback_cloudflare_record(n)
  BY <1>8, UndoEffect
<1>l. CASE delete_cloudflare_record(n)
  <2>1. j.pc = "del_dns" /\ j.op = "delete" /\ apps[d] = None
    BY <1>l, <1>1, <1>2, <1>4, <1>7 DEF delete_cloudflare_record, At, Expects, PcsOf, Ops
  <2>2. Moved(n, "del_row", s) /\ UNCHANGED <<rows, mwFile, apps, pols>>
    BY <1>l, <1>2, <1>4, <1>8, RecordGone
  <2>. QED BY <1>12, <2>1, <2>2
<1>m. CASE save(n)
  <2>1. j.pc = "save" /\ j.op # "delete" /\ Matched(d, s)
    BY <1>m, <1>1, <1>2, <1>4, <1>7 DEF save, At, Expects, PcsOf
  <2>2. UNCHANGED <<rows, mwFile, apps, pols>> /\ (Saved(n) \/ Moved(n, "undo", s))
    BY <1>m, <1>2, <1>4, <1>8, SaveEffect DEF RolledBack
  <2>3. CASE Saved(n)
    <3>1. Busy(n)' /\ k.pc = "commit" /\ k.op = j.op /\ k.d = d /\ k.svc = s
      BY <1>2, <1>3, <1>4, <2>3 DEF Saved
    <3>2. Matched(d, s)' /\ Target(k) = s
      BY <2>1, <2>2, <3>1 DEF Matched, Target
    <3>3. Expects(n, k)'
      BY <2>1, <3>1, <3>2 DEF Expects, Matched
    <3>. QED BY <1>9, <1>10, <2>2, <3>1, <3>3
  <2>. QED BY <1>12, <2>2, <2>3
<1>n. CASE DeleteRow(n)
  <2>1. j.pc = "del_row" /\ j.op = "delete" /\ apps[d] = None
    BY <1>n, <1>1, <1>2, <1>4, <1>7 DEF DeleteRow, At, Expects, PcsOf, Ops
  <2>2. PICK l : l = AfterRow(n)
    OBVIOUS
  <2>3. Moved(n, l, s) /\ UNCHANGED <<rows, mwFile, apps, pols>> /\ l \in {"count", "commit"}
    BY <1>n, <1>2, <1>4, <2>2, RowGone DEF AfterRow
  <2>. QED BY <1>12, <2>1, <2>3
<1>o. CASE Commit(n)
  <2>1. j.pc = "commit"
    BY <1>o, <1>2 DEF Commit, At
  <2>2. PICK t : t = Target(j)
    OBVIOUS
  <2>3. Matched(d, t)
    BY <1>4, <1>7, <2>1, <2>2 DEF Expects
  <2>4. Committable(n) /\ NewRow(n) = t
    BY <1>o, <1>1, <1>2, <2>2, CommitResult
  <2>5. UNCHANGED <<mwFile, apps, pols>> /\ ~Busy(n)' /\ rows' = [rows EXCEPT ![d] = t]
    BY <1>o, <1>2, <1>4, <1>8, <2>4, CommitEffect
  <2>6. \A m \in Jobs : ~Busy(m)'
    BY <1>1, <2>5 DEF Only, Busy
  <2>7. \A e \in Domains \ {d} : Matched(e, rows[e])
    BY <1>1, <1>2, <1>4 DEF AuthentikFollows, Only, Working
  <2>8. rows'[d] = t /\ \A e \in Domains \ {d} : rows'[e] = rows[e]
    BY <1>5, <2>5
  <2>9. \A e \in Domains : Matched(e, rows'[e])
    BY <2>3, <2>7, <2>8
  <2>10. \A e \in Domains : Matched(e, rows[e])'
    BY <2>5, <2>9 DEF Matched
  <2>. QED BY <2>6, <2>10 DEF AuthentikFollows
<1>. QED BY <1>a, <1>b, <1>c, <1>d, <1>e, <1>f, <1>g, <1>h, <1>i, <1>j, <1>k, <1>l, <1>m, <1>n,
            <1>o DEF Step

\* A service that has its application knows the policy of it.
LEMMA MatchedKnows ==
  ASSUME TypeInv, IdsFresh, NEW d \in Domains, NEW r \in Service, Matched(d, r), uses_authentik(r),
         NEW s, s.pol = r.pol
  PROVE  /\ PolicyKnown(d, s) /\ r.prov # None /\ mwFile
         /\ \A p \in pols : p.app = apps[d] => p.id = s.pol
<1>1. r # None /\ \A p \in pols : p.id # None
  BY NoServiceAssumption, NoneAssumption, BoundsAssumption
     DEF TypeInv, StoresTyped, Policy, Ids, Requests
<1>2. CASE r.group = None
  BY <1>1, <1>2 DEF Matched, PolicyKnown
<1>3. CASE r.group # None
  <2>1. PICK q \in pols : q = [id |-> r.pol, app |-> apps[d], group |-> r.group]
    BY <1>1, <1>3 DEF Matched
  <2>2. q.id = r.pol /\ q.app = apps[d]
    BY <2>1
  <2>3. \A p \in pols : p.id = s.pol => p = q
    BY <2>2 DEF IdsFresh
  <2>. QED BY <1>1, <1>3, <2>2, <2>3, <2>1 DEF Matched, PolicyKnown
<1>. QED BY <1>2, <1>3

\* What every new coroutine finds at Authentik.
LEMMA BeginExpects ==
  ASSUME TypeInv, IdsFresh, \A d \in Domains : Matched(d, rows[d]), NEW n \in Requests, Begin(n),
         Busy(n)'
  PROVE  Expects(n, job[n])'
<1>1. UNCHANGED <<rows, mwFile, apps, pols>> /\ At(n, "new")
  BY BeginEffect DEF Untouched
<1>2. PICK k : k = job'[n]
  OBVIOUS
<1>3. ASSUME Expects(n, k) PROVE Expects(n, job[n])'
  BY <1>1, <1>2, <1>3 DEF Expects, Matched, PolicyKnown, Target
<1>4. ASSUME NEW d \in Domains, NEW m \in Modes, NEW a \in Auths, NEW g \in Groups \cup {None},
             rows[d] = None, NewService(n, m, a, g) \in Service,
             Started(n, IF a = "authentik" THEN "provider" ELSE "dns", "create", d,
                        NewService(n, m, a, g))
      PROVE  Expects(n, job[n])'
  <2>1. PICK s : s = NewService(n, m, a, g)
    OBVIOUS
  <2>2. /\ s.prov = None /\ s.pol = None /\ s.auth = a /\ s # None
        /\ a # "authentik" => s.group = None
    BY <1>4, <2>1, NewServiceFields, NoServiceAssumption
  <2>3. apps[d] = None
    BY <1>4 DEF Matched
  <2>4. /\ k.pc = IF a = "authentik" THEN "provider" ELSE "dns"
        /\ k.op = "create" /\ k.d = d /\ k.svc = s
    BY <1>2, <1>4, <2>1 DEF Started
  <2>5. a # "authentik" => Matched(d, s)
    BY <2>2, <2>3 DEF Matched, uses_authentik
  <2>6. Expects(n, k)
    BY <2>2, <2>3, <2>4, <2>5 DEF Expects, uses_authentik
  <2>. QED BY <1>3, <2>6
<1>5. ASSUME NEW d \in Domains, NEW s \in Updated(rows[d]), rows[d] \in Service, rows[d] # None,
             Started(n, AuthentikChange(rows[d], s), "update", d, s)
      PROVE  Expects(n, job[n])'
  <2>1. PICK r \in Service : r = rows[d]
    BY <1>5
  <2>2. PICK l : l = AuthentikChange(r, s)
    OBVIOUS
  <2>3. k.pc = l /\ k.op = "update" /\ k.d = d /\ k.svc = s
    BY <1>2, <1>5, <2>1, <2>2 DEF Started
  <2>4. /\ s \in Service /\ s # None /\ r # None
        /\ s.prov = r.prov /\ s.pol = r.pol
        /\ ~uses_authentik(s) /\ (~uses_authentik(r) => r.group = None) => s.group = None
    BY <1>5, <2>1, UpdatedKeeps, NoServiceAssumption
  <2>5. Matched(d, r) /\ r.prov # n
    BY <1>1, <1>5, <2>1 DEF IdsFresh
  <2>6. CASE uses_authentik(r) /\ ~uses_authentik(s)
    <3>1. l = "teardown"
      BY <2>2, <2>6 DEF AuthentikChange
    <3>2. PolicyKnown(d, s) /\ s.prov # None /\ s.group = None
      BY <2>4, <2>5, <2>6, MatchedKnows
    <3>3. Expects(n, k)
      BY <2>3, <2>6, <3>1, <3>2 DEF Expects
    <3>. QED BY <1>3, <3>3
  <2>7. CASE ~uses_authentik(r) /\ uses_authentik(s)
    <3>1. l = "provider"
      BY <2>2, <2>7 DEF AuthentikChange
    <3>2. apps[d] = None /\ s.prov = None /\ s.pol = None
      BY <2>4, <2>5, <2>7 DEF Matched
    <3>3. Expects(n, k)
      BY <2>3, <2>7, <3>1, <3>2 DEF Expects
    <3>. QED BY <1>3, <3>3
  <2>8. CASE uses_authentik(r) /\ uses_authentik(s) /\ r.group # s.group
    <3>1. l = "clear"
      BY <2>2, <2>8 DEF AuthentikChange
    <3>2. /\ PolicyKnown(d, s) /\ s.prov # None /\ s.prov # n /\ mwFile
          /\ \A p \in pols : p.app = apps[d] => p.id = s.pol
      BY <2>4, <2>5, <2>8, MatchedKnows
    <3>3. Expects(n, k)
      BY <2>3, <2>8, <3>1, <3>2 DEF Expects
    <3>. QED BY <1>3, <3>3
  <2>9. CASE /\ uses_authentik(r) <=> uses_authentik(s)
             /\ uses_authentik(r) => r.group = s.group
    <3>1. l = "dns"
      BY <2>2, <2>9 DEF AuthentikChange
    <3>2. Matched(d, s)
      BY <2>4, <2>5, <2>9 DEF Matched
    <3>3. Expects(n, k)
      BY <2>3, <3>1, <3>2 DEF Expects
    <3>. QED BY <1>3, <3>3
  <2>. QED BY <2>6, <2>7, <2>8, <2>9
<1>6. ASSUME NEW d \in Domains, rows[d] \in Service, rows[d] # None,
             Started(n, IF uses_authentik(rows[d]) THEN "teardown" ELSE "del_dns",
                        "delete", d, rows[d])
      PROVE  Expects(n, job[n])'
  <2>1. PICK r \in Service : r = rows[d]
    BY <1>6
  <2>2. /\ k.pc = IF uses_authentik(r) THEN "teardown" ELSE "del_dns"
        /\ k.op = "delete" /\ k.d = d /\ k.svc = r
    BY <1>2, <1>6, <2>1 DEF Started
  <2>3. Matched(d, r) /\ r # None
    BY <1>6, <2>1
  <2>4. CASE uses_authentik(r)
    <3>1. PolicyKnown(d, r) /\ r.prov # None
      BY <2>3, <2>4, MatchedKnows
    <3>2. Expects(n, k)
      BY <2>2, <2>4, <3>1 DEF Expects
    <3>. QED BY <1>3, <3>2
  <2>5. CASE ~uses_authentik(r)
    <3>1. apps[d] = None
      BY <2>3, <2>5 DEF Matched
    <3>2. Expects(n, k)
      BY <2>2, <2>5, <3>1 DEF Expects
    <3>. QED BY <1>3, <3>2
  <2>. QED BY <2>4, <2>5
<1>. QED BY <1>4, <1>5, <1>6, BeginEffect

\* Every action keeps Authentik in step with the rows.
LEMMA AuthentikNext ==
  ASSUME Serial, TypeInv, OneAtATime, IdsFresh, AuthentikFollows, [Next]_vars,
         failed' = {}, "status" \notin seen'
  PROVE  AuthentikFollows'
<1>1. ASSUME NEW n \in Requests, Begin(n) PROVE AuthentikFollows'
  <2>1. Only(n) /\ ~Busy(n) /\ n \in Jobs /\ UNCHANGED <<rows, mwFile, apps, pols>>
    BY <1>1, OnlyOne, BeginEffect DEF Untouched
  <2>2. \A d \in Domains : Matched(d, rows[d])
    BY <2>1 DEF AuthentikFollows, Only, Working
  <2>3. \A d \in Domains : Matched(d, rows[d])'
    BY <2>1, <2>2 DEF Matched
  <2>4. \A m \in Jobs : Busy(m)' => m = n
    BY <2>1 DEF Only, Busy
  <2>. QED BY <1>1, <2>2, <2>3, <2>4, BeginExpects DEF AuthentikFollows
<1>2. ASSUME NEW d \in Domains, ExpireBegin(d) PROVE AuthentikFollows'
  <2>1. Only(0) /\ ~Busy(0) /\ 0 \in Jobs /\ UNCHANGED <<rows, mwFile, apps, pols>>
    BY <1>2, OnlyOne, ExpireEffect DEF Untouched
  <2>2. \A e \in Domains : Matched(e, rows[e])
    BY <2>1 DEF AuthentikFollows, Only, Working
  <2>3. \A e \in Domains : Matched(e, rows[e])'
    BY <2>1, <2>2 DEF Matched
  <2>4. \A m \in Jobs : Busy(m)' => m = 0
    BY <2>1 DEF Only, Busy
  <2>5. PICK r \in Service : r = rows[d]
    BY <1>2, ExpireEffect
  <2>6. PICK s : s = SetMode(r, "active")
    OBVIOUS
  <2>7. /\ s # None /\ r # None
        /\ s.prov = r.prov /\ s.pol = r.pol /\ s.auth = r.auth /\ s.group = r.group
    <3>1. s \in Service
      BY <1>2, <2>5, <2>6, ExpireEffect
    <3>. QED BY <2>6, <3>1, NoServiceAssumption DEF SetMode, Service
  <2>8. Matched(d, s)'
    BY <2>1, <2>2, <2>5, <2>7 DEF Matched, uses_authentik
  <2>9. job'[0].pc = "write" /\ job'[0].d = d /\ job'[0].svc = s
    BY <1>2, <2>5, <2>6, ExpireFields
  <2>10. Expects(0, job[0])'
    BY <2>8, <2>9 DEF Expects, Matched
  <2>. QED BY <2>3, <2>4, <2>10 DEF AuthentikFollows
<1>3. ASSUME NEW n \in Jobs, Step(n) PROVE AuthentikFollows'
  BY <1>3, AuthentikStep
<1>4. ASSUME UNCHANGED <<rows, apps, pols, job>>, mwFile => mwFile' PROVE AuthentikFollows'
  <2>1. \A d \in Domains : Working(d)' = Working(d)
    BY <1>4 DEF Working, Busy
  <2>2. ASSUME NEW d, NEW s, Matched(d, s) PROVE Matched(d, s)'
    BY <1>4, <2>2 DEF Matched
  <2>3. \A d \in Domains : Working(d)' = {} => Matched(d, rows[d])'
    BY <1>4, <2>1, <2>2 DEF AuthentikFollows
  <2>4. ASSUME NEW n \in Jobs, Busy(n)' PROVE Expects(n, job[n])'
    <3>1. PICK j : j = job[n]
      OBVIOUS
    <3>2. Expects(n, j) /\ job'[n] = j
      BY <1>4, <2>4, <3>1 DEF AuthentikFollows, Busy
    <3>3. /\ Matched(j.d, j.svc) => Matched(j.d, j.svc)'
          /\ Matched(j.d, Target(j)) => Matched(j.d, Target(j))'
          /\ PolicyKnown(j.d, j.svc) => PolicyKnown(j.d, j.svc)'
      BY <1>4, <2>2 DEF PolicyKnown
    <3>4. Expects(n, j)'
      BY <1>4, <3>2, <3>3 DEF Expects
    <3>. QED BY <3>2, <3>4 DEF Expects, Matched, PolicyKnown, Target
  <2>. QED BY <2>3, <2>4 DEF AuthentikFollows
<1>5. SyncStep => UNCHANGED <<rows, apps, pols, job>> /\ (mwFile => mwFile')
  <2>1. SyncStep => UNCHANGED <<rows, apps, pols, job>>
    BY DEF SyncStep, SyncRead, SyncWrite, SyncWritten, SyncMiddleware, SyncFails, authentikVars
  <2>2. SyncMiddleware /\ mwFile => mwFile'
    BY DEF SyncMiddleware
  <2>3. SyncStep => SyncMiddleware \/ mwFile' = mwFile
    BY DEF SyncStep, SyncRead, SyncWrite, SyncWritten, SyncFails
  <2>. QED BY <2>1, <2>2, <2>3
<1>6. ASSUME Killed PROVE AuthentikFollows'
  <2>1. UNCHANGED <<rows, mwFile, apps, pols>> /\ \A n \in Jobs : ~Busy(n)'
    BY <1>6 DEF Killed, authentikVars, Busy, Ended, NoJob
  <2>2. \A n \in Jobs : ~Busy(n)
    BY <1>6 DEF Killed
  <2>3. \A d \in Domains : Matched(d, rows[d])
    BY <2>2 DEF AuthentikFollows, Working
  <2>4. \A d \in Domains : Matched(d, rows[d])'
    BY <2>1, <2>3 DEF Matched
  <2>. QED BY <2>1, <2>4 DEF AuthentikFollows
<1>7. UNCHANGED vars => UNCHANGED <<rows, apps, pols, job>> /\ mwFile' = mwFile
  BY DEF vars, authentikVars
<1>. QED BY <1>1, <1>2, <1>3, <1>4, <1>5, <1>6, <1>7 DEF Next

\* At the start every store is as the row says.
LEMMA StoresInit == Init => RoutesFollow /\ RecordsFollow /\ AuthentikFollows
<1> SUFFICES ASSUME Init PROVE RoutesFollow /\ RecordsFollow /\ AuthentikFollows
  OBVIOUS
<1>1. /\ \A n \in Jobs : ~Busy(n)
      /\ sync.pc = "idle"
      /\ \A d \in Domains : files[d] = RouteOf(rows[d])
      /\ \A d \in Domains : dns[d] = RecOf(rows[d])
  BY DEF Init, Busy, NoJob, RecOf
<1>2. RoutesFollow
  BY <1>1 DEF RoutesFollow
<1>3. RecordsFollow
  BY <1>1, ZonedAssumption DEF RecordsFollow
<1>4. ASSUME NEW d \in Domains PROVE Matched(d, rows[d])
  <2>1. d # None
    BY NoneAssumption
  <2>2. CASE rows[d] = None
    <3>1. d \notin provs
      BY <2>2 DEF Init
    <3>. QED BY <2>2, <3>1 DEF Init, Matched
  <2>3. CASE \E m \in Modes : rows[d] = Settled(d, m, "none", None)
    <3>1. PICK r : r = rows[d]
      OBVIOUS
    <3>2. r.auth = "none" /\ r.prov = None /\ r.pol = None /\ r.group = None
      BY <2>3, <3>1 DEF Settled
    <3>3. d \notin provs
      BY <3>1, <3>2 DEF Init, uses_authentik
    <3>4. apps[d] = None
      BY <3>3 DEF Init
    <3>. QED BY <3>1, <3>2, <3>4 DEF Matched, uses_authentik
  <2>4. CASE \E m \in Modes, g \in Groups \cup {None} : rows[d] = Settled(d, m, "authentik", g)
    <3>1. PICK r : r = rows[d]
      OBVIOUS
    <3>2. r.auth = "authentik" /\ r.prov = d /\ r.pol = (IF r.group # None THEN d ELSE None)
      BY <2>4, <3>1 DEF Settled
    <3>3. r # None
      <4>1. rows[d] \in Service
        BY <2>4, NoServiceAssumption, ModesAssumption, ZonedAssumption
           DEF Settled, Service, Ids, Auths
      <4>. QED BY <3>1, <4>1, NoServiceAssumption
    <3>4. d \in provs /\ apps[d] = d /\ mwFile
      BY <3>1, <3>2, <3>3 DEF Init, uses_authentik
    <3>5. \A p \in pols : \E e \in Domains : p = [id |-> e, app |-> e, group |-> rows[e].group]
                                            /\ rows[e].group # None
      BY DEF Init
    <3>6. CASE r.group = None
      BY <2>1, <3>1, <3>2, <3>3, <3>4, <3>5, <3>6 DEF Matched, uses_authentik
    <3>7. CASE r.group # None
      <4>1. [id |-> d, app |-> d, group |-> r.group] \in pols
        BY <3>1, <3>3, <3>7 DEF Init
      <4>2. \A p \in pols : p.app = d => p = [id |-> d, app |-> d, group |-> r.group]
        BY <3>1, <3>5
      <4>. QED BY <2>1, <3>1, <3>2, <3>3, <3>4, <3>7, <4>1, <4>2 DEF Matched, uses_authentik
    <3>. QED BY <3>6, <3>7
  <2>. QED BY <2>2, <2>3, <2>4 DEF Init, SettledRows
<1>5. AuthentikFollows
  BY <1>1, <1>4 DEF AuthentikFollows
<1>. QED BY <1>2, <1>3, <1>5

\* Ids are fresh in serial runs.
IdsInv == Serial => IdsFresh
\* Authentik, as far as nothing fails.
AuthentikInv == Serial /\ failed = {} /\ "status" \notin seen => AuthentikFollows

\* The inductive invariant of StoresFollowRows.
StoresInv == TypeInv /\ OrderInv /\ RoutesInv /\ RecordsInv /\ IdsInv /\ AuthentikInv

\* Requests that come one at a time leave every store as the rows say: routes
\* whatever calls of Authentik and Cloudflare fail, records when calls are
\* refused, Authentik when nothing fails.  update_service and delete_service
\* touch the file after the last call, and setup, sync_group_policy and teardown
\* leave each coroutine the application, policies and references it expects.
THEOREM StoresFollowRows == Spec => []StoresMatchRows
<1>1. Init => StoresInv
  BY TypeInit, OrderInit, StoresInit, IdsInit
     DEF StoresInv, OrderInv, RoutesInv, RecordsInv, IdsInv, AuthentikInv
<1>2. StoresInv /\ [Next]_vars => StoresInv'
  <2> SUFFICES ASSUME StoresInv, [Next]_vars PROVE StoresInv'
    OBVIOUS
  <2>1. TypeInv /\ TypeInv' /\ (Serial => OneAtATime /\ OneAtATime') /\ (Serial' <=> Serial)
    BY TypeStep, SerialStep DEF StoresInv, OrderInv, Serial
  <2>2. failed \subseteq failed' /\ seen \subseteq seen'
    BY <2>1, SeenGrows
  <2>3. Serial => IdsFresh /\ IdsFresh'
    BY <2>1, IdsStep DEF StoresInv, IdsInv
  <2>4. Serial /\ seen' \subseteq FileMishaps => RoutesFollow'
    BY <2>1, <2>2, RoutesStep DEF StoresInv, RoutesInv
  <2>5. Serial /\ seen' \subseteq RecordMishaps => RecordsFollow'
    BY <2>1, <2>2, RecordsStep DEF StoresInv, RecordsInv
  <2>6. Serial /\ failed' = {} /\ "status" \notin seen' => AuthentikFollows'
    BY <2>1, <2>2, <2>3, AuthentikNext DEF StoresInv, AuthentikInv
  <2>7. FileMishaps' = FileMishaps /\ RecordMishaps' = RecordMishaps
    BY DEF FileMishaps, RecordMishaps
  <2>. QED BY <2>1, <2>3, <2>4, <2>5, <2>6, <2>7
           DEF StoresInv, OrderInv, RoutesInv, RecordsInv, IdsInv, AuthentikInv
<1>3. StoresInv => StoresMatchRows
  <2> SUFFICES ASSUME StoresInv, Serial, Quiet PROVE StoresMatchRows
    BY DEF StoresMatchRows, RoutesMatchRows, RecordsMatchRows, AuthentikMatchesRows
  <2>1. (\A n \in Jobs : ~Busy(n)) /\ \A d \in Domains : Working(d) = {}
    BY QuietMeansIdle DEF Working
  <2>2. RoutesMatchRows
    BY <2>1 DEF RoutesMatchRows, StoresInv, RoutesInv, RoutesFollow, FileMishaps
  <2>3. RecordsMatchRows
    BY <2>1, ZonedAssumption
       DEF RecordsMatchRows, StoresInv, RecordsInv, RecordsFollow, RecordMishaps, RecOf
  <2>4. ASSUME failed = {}, "status" \notin seen, NEW d \in Domains, rows[d] # None
        PROVE  IF uses_authentik(rows[d])
                 THEN apps[d] # None /\ mwFile /\ Admitted(d) = {rows[d].group} \ {None}
                 ELSE apps[d] = None
    <3>1. PICK r : r = rows[d]
      OBVIOUS
    <3>2. Matched(d, r)
      BY <2>1, <2>4, <3>1 DEF StoresInv, AuthentikInv, AuthentikFollows
    <3>3. CASE uses_authentik(r) /\ r.group = None
      BY <2>4, <3>1, <3>2, <3>3 DEF Matched, Admitted
    <3>4. CASE uses_authentik(r) /\ r.group # None
      <4>1. PICK q : q = [id |-> r.pol, app |-> apps[d], group |-> r.group]
        OBVIOUS
      <4>2. /\ q \in pols /\ q.app = apps[d] /\ q.group = r.group
            /\ \A p \in pols : p.app = apps[d] => p = q
        BY <2>4, <3>1, <3>2, <3>4, <4>1 DEF Matched
      <4>3. Admitted(d) = {r.group}
        BY <4>2 DEF Admitted
      <4>. QED BY <2>4, <3>1, <3>2, <3>4, <4>3 DEF Matched
    <3>5. CASE ~uses_authentik(r)
      BY <2>4, <3>1, <3>2, <3>5 DEF Matched
    <3>. QED BY <3>3, <3>4, <3>5
  <2>5. AuthentikMatchesRows
    BY <2>4 DEF AuthentikMatchesRows
  <2>. QED BY <2>2, <2>3, <2>5 DEF StoresMatchRows
<1>. QED BY <1>1, <1>2, <1>3, PTL DEF Spec
=============================================================================
