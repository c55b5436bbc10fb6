---------------------------- MODULE ServiceRoutes ----------------------------
(* The life of a proxied service: ServiceUseCases and the collaborators it  *)
(* calls.  A service is a database row, a Traefik route file, a Cloudflare   *)
(* record and, with Authentik, a provider, an application, a group policy    *)
(* and one middleware file that all such services share.  A request changes  *)
(* them one after the other, awaiting in between, and commits last; the      *)
(* leader's start-up synchronisation and the maintenance monitor write the   *)
(* same rows and files.                                                      *)
(*                                                                           *)
(* Each await at which another coroutine can run ends an action.  A request  *)
(* is known by its number, which is also the id of every object it creates;  *)
(* the objects that exist at the start are known by their domain.  Data is   *)
(* cut down to the routing mode, the authentication mode and the group.      *)
EXTENDS Naturals, FiniteSets

CONSTANTS
  None,          \* no row, file, record, reference or group
  Domains,       \* domain names
  Zoned,         \* the domains inside a configured Cloudflare zone
  Groups,        \* Authentik groups
  Modes,         \* the routing modes considered
  Kinds,         \* the kinds of mishap considered
  MaxRequests,   \* bound on the API requests
  MaxActive,     \* bound on the coroutines that overlap
  MaxMishaps     \* bound on mishaps

ASSUME ZonedAssumption == Zoned \subseteq Domains
ASSUME ModesAssumption == "active" \in Modes /\ Modes \subseteq {"active", "maintenance", "disabled"}
ASSUME NoneAssumption == None \notin Domains \cup Groups \cup Nat
ASSUME IdsAssumption == Domains \cap Nat = {}
ASSUME BoundsAssumption == MaxRequests \in Nat /\ MaxActive \in Nat /\ MaxMishaps \in Nat

\* A call is refused, or carried out with the answer lost; a deletion is
\* answered by an error status; a file cannot be written; the database refuses
\* a transaction; the process is killed.
AllKinds == {"call", "lost", "status", "disk", "db", "kill"}
ASSUME KindsAssumption == Kinds \subseteq AllKinds

VARIABLES
  rows,      \* the services table, by its unique domain
  files,     \* the route files
  mwFile,    \* authentik-middleware.yml exists
  provs,     \* Authentik providers
  apps,      \* by domain, as the slug is: the provider of the application
  pols,      \* group policies, each with the application it is bound to
  dns,       \* Cloudflare records
  job,       \* the coroutines: 0 is the maintenance monitor
  sync,      \* the start-up synchronisation
  mishaps,   \* how many mishaps there were
  seen,      \* and of which kinds
  failed     \* the operations some run of which failed

authentikVars == <<provs, apps, pols>>
mishapVars == <<mishaps, seen>>
vars == <<rows, files, mwFile, authentikVars, dns, job, sync, mishapVars, failed>>

Requests == 1..MaxRequests
Jobs == 0..MaxRequests
Ids == Domains \cup Requests

Auths == {"none", "authentik"}
Routes == {"open", "protected", "maintenance"}

\* A services row, and the entity made from it.
Service == [id : Ids, mode : Modes, auth : Auths, group : Groups \cup {None},
            prov : Ids \cup {None}, pol : Ids \cup {None}, rec : Ids \cup {None}]

ASSUME NoServiceAssumption == None \notin Service

\* A policy that is bound to no application yet, or any more, admits nobody.
Policy == [id : Ids, app : Ids \cup {None}, group : Groups]

uses_authentik(s) == s.auth = "authentik"

\* TraefikConfigGenerator.generate: a maintenance page needs no login.
generate(s) ==
  IF s.mode = "maintenance" THEN "maintenance" ELSE IF uses_authentik(s) THEN "protected" ELSE "open"

\* FileProviderWriter.write: a disabled service has no file.
RouteOf(s) ==
  CASE s = None -> None
    [] s # None /\ s.mode = "disabled" -> None
    [] OTHER -> generate(s)

-----------------------------------------------------------------------------
(* Coroutines and mishaps.                                                 *)

Ops == {"create", "update", "delete", "expire"}

Pcs == {"new", "provider", "application", "clear", "clear_policy", "policy", "teardown",
        "teardown_policy", "del_application", "del_provider", "count", "dns", "write", "save",
        "commit", "undo", "del_dns", "del_row", "done"}

NoJob == [pc |-> "new", op |-> None, d |-> None, svc |-> None, base |-> None]

\* Bug: the monitor's loop ends with its first transition.
Ended_for_good(n) == [NoJob EXCEPT !.pc = "done"]

Ended(n) == IF n = 0 THEN NoJob ELSE [NoJob EXCEPT !.pc = "done"]

Busy(n) == job[n].pc \notin {"new", "done"}
Syncing == sync.pc \in {"write", "middleware"}
ActiveCount == Cardinality({n \in Jobs : Busy(n)}) + (IF Syncing THEN 1 ELSE 0)
Quiet == ActiveCount = 0

At(n, l) == job[n].pc = l

NoMishap == UNCHANGED mishapVars

Mishap(kind) ==
  /\ kind \in Kinds
  /\ mishaps < MaxMishaps
  /\ mishaps' = mishaps + 1
  /\ seen' = seen \cup {kind}

Become(n, j) == job' = [job EXCEPT ![n] = j] /\ UNCHANGED failed
Goto(n, l) == Become(n, [job[n] EXCEPT !.pc = l])
Finish(n) == Become(n, Ended(n))
Fail(n) == job' = [job EXCEPT ![n] = Ended(n)] /\ failed' = failed \cup {job[n].op}

\* How a call of Authentik or Cloudflare ends: with an answer, after which
\* the coroutine is j; carried out, but the answer never came; not at all.
Answered(n, j) == Become(n, j) /\ NoMishap
Unanswered(n) == Fail(n) /\ Mishap("lost")
Refused(n) == Fail(n) /\ Mishap("call")

\* The deletions of Authentik do not look at the status of the answer.
Unnoticed(n, j) == Become(n, j) /\ Mishap("status")

\* Any new coroutine is seen by the synchronisation's claim to be alone.
Starts(n) ==
  /\ At(n, "new")
  /\ ActiveCount < MaxActive
  /\ sync' = [sync EXCEPT !.alone = FALSE]

-----------------------------------------------------------------------------
(* The first step of each operation.                                       *)

\* Service.create: a group is kept only with Authentik.
NewService(n, m, a, g) ==
  [id |-> n, mode |-> m, auth |-> a, group |-> IF a = "authentik" THEN g ELSE None,
   prov |-> None, pol |-> None, rec |-> None]

\* find_by_domain, then setup_created_service or the DNS record.
CreateBegin(n, d, m, a, g) ==
  /\ n # 0
  /\ Starts(n)
  /\ LET s == NewService(n, m, a, g)
         next == IF uses_authentik(s) THEN "provider" ELSE "dns"
     IN  IF rows[d] # None
           THEN Finish(n)
           ELSE Become(n, [pc |-> next, op |-> "create", d |-> d, svc |-> s, base |-> None])
  /\ UNCHANGED <<rows, files, mwFile, authentikVars, dns, mishapVars>>

\* apply_service_update_payload: every field is optional.
SetMode(s, m) == [s EXCEPT !.mode = m]
SetAuth(s, a) == [s EXCEPT !.auth = a, !.group = IF a = "authentik" THEN @ ELSE None]
SetGroup(s, g) == [s EXCEPT !.group = IF uses_authentik(s) THEN g ELSE None]

Updated(s) ==
  LET moded == {SetMode(s, m) : m \in Modes}
      authed == moded \cup {SetAuth(t, a) : t \in moded, a \in Auths}
  IN  authed \cup {SetGroup(t, g) : t \in authed, g \in Groups \cup {None}}

\* sync_updated_service.
AuthentikChange(old, new) ==
  CASE uses_authentik(old) /\ ~uses_authentik(new) -> "teardown"
    [] ~uses_authentik(old) /\ uses_authentik(new) -> "provider"
    [] uses_authentik(old) /\ uses_authentik(new) /\ old.group # new.group -> "clear"
    [] OTHER -> "dns"

UpdateBegin(n, d) ==
  /\ n # 0
  /\ Starts(n)
  /\ rows[d] # None
  /\ \E s \in Updated(rows[d]) :
       Become(n, [pc |-> AuthentikChange(rows[d], s), op |-> "update", d |-> d, svc |-> s,
                  base |-> None])
  /\ UNCHANGED <<rows, files, mwFile, authentikVars, dns, mishapVars>>

DeleteBegin(n, d) ==
  /\ n # 0
  /\ Starts(n)
  /\ rows[d] # None
  /\ Become(n, [pc |-> IF uses_authentik(rows[d]) THEN "teardown" ELSE "del_dns",
                op |-> "delete", d |-> d, svc |-> rows[d], base |-> None])
  /\ UNCHANGED <<rows, files, mwFile, authentikVars, dns, mishapVars>>

\* _transition_service: the end of the maintenance has come, at any time.
ExpireBegin(d) ==
  /\ sync.pc = "idle"
  /\ Starts(0)
  /\ rows[d] # None /\ rows[d].mode = "maintenance"
  /\ Become(0, [pc |-> "write", op |-> "expire", d |-> d, svc |-> SetMode(rows[d], "active"),
                base |-> None])
  /\ UNCHANGED <<rows, files, mwFile, authentikVars, dns, mishapVars>>

-----------------------------------------------------------------------------
(* ServiceAuthentikSync.setup and sync_group_policy.                       *)

create_proxy_provider(n) ==
  /\ At(n, "provider")
  /\ \/ /\ provs' = provs \cup {n}
        /\ Answered(n, [job[n] EXCEPT !.pc = "application"]) \/ Unanswered(n)
     \/ UNCHANGED provs /\ Refused(n)
  /\ UNCHANGED <<rows, files, mwFile, apps, pols, dns, sync>>

\* A slug that is taken is refused.
create_application(n) ==
  /\ At(n, "application")
  /\ LET d == job[n].d IN
     \/ /\ apps[d] = None
        /\ apps' = [apps EXCEPT ![d] = n]
        /\ Answered(n, [job[n] EXCEPT !.pc = "clear", !.svc.prov = n]) \/ Unanswered(n)
     \/ UNCHANGED apps /\ Refused(n)
     \/ apps[d] # None /\ UNCHANGED apps /\ Fail(n) /\ NoMishap
  /\ UNCHANGED <<rows, files, mwFile, provs, pols, dns, sync>>

\* clear_group_policy makes two calls, one for the binding and one for the
\* policy, unless the row names neither.  Deleting what is gone already is no
\* error.
BindingGone(pol) == {IF p.id = pol THEN [p EXCEPT !.app = None] ELSE p : p \in pols}

DeleteBinding(n, deleting, cleared) ==
  /\ IF job[n].svc.pol = None
       THEN Answered(n, [job[n] EXCEPT !.pc = cleared]) /\ UNCHANGED pols
       ELSE \/ /\ pols' = BindingGone(job[n].svc.pol)
               /\ Answered(n, [job[n] EXCEPT !.pc = deleting]) \/ Unanswered(n)
            \/ /\ UNCHANGED pols
               /\ Unnoticed(n, [job[n] EXCEPT !.pc = deleting]) \/ Refused(n)
  /\ UNCHANGED <<rows, files, mwFile, provs, apps, dns, sync>>

DeletePolicy(n, next) ==
  /\ LET cleared == [job[n] EXCEPT !.pc = next, !.svc.pol = None]
     IN  \/ /\ pols' = {p \in pols : p.id # job[n].svc.pol}
            /\ Answered(n, cleared) \/ Unanswered(n)
         \/ UNCHANGED pols /\ (Unnoticed(n, cleared) \/ Refused(n))
  /\ UNCHANGED <<rows, files, mwFile, provs, apps, dns, sync>>

clear_group_policy(n) ==
  \/ At(n, "clear") /\ DeleteBinding(n, "clear_policy", "policy")
  \/ At(n, "clear_policy") /\ DeletePolicy(n, "policy")

SettingUp(n) == job[n].svc.prov = n

\* Bug: the middleware file is left to the next start.
AfterPolicy_forgets(n, j) == Answered(n, j) /\ UNCHANGED mwFile

\* What follows the policy: only a set-up writes the middleware file.
AfterPolicy(n, j) ==
  \/ Answered(n, j) /\ mwFile' = (mwFile \/ SettingUp(n))
  \/ SettingUp(n) /\ Fail(n) /\ Mishap("disk") /\ UNCHANGED mwFile

\* Bug: the group is not looked at.
sync_group_policy_groupless(n) ==
  /\ At(n, "policy")
  /\ pols' = pols \cup {[id |-> n, app |-> apps[job[n].d], group |-> job[n].svc.group]}
  /\ AfterPolicy(n, [job[n] EXCEPT !.pc = "dns", !.svc.pol = n])
  /\ UNCHANGED <<rows, files, provs, apps, dns, sync>>

\* Without a group there is no policy.  The application is the one just
\* created, or it is looked up by its slug.  The policy is created, then bound;
\* one whose binding failed stays unbound.
sync_group_policy(n) ==
  /\ At(n, "policy")
  /\ LET j == job[n]
         app == IF SettingUp(n) THEN n ELSE apps[j.d]
         policy == [id |-> n, app |-> app, group |-> j.svc.group]
     IN  \/ /\ j.svc.group = None
            /\ AfterPolicy(n, [j EXCEPT !.pc = "dns"])
            /\ UNCHANGED pols
         \/ /\ j.svc.group # None /\ app # None
            /\ pols' = pols \cup {policy}
            /\ \/ AfterPolicy(n, [j EXCEPT !.pc = "dns", !.svc.pol = n])
               \/ Unanswered(n) /\ UNCHANGED mwFile
         \/ /\ j.svc.group # None /\ app # None
            /\ pols' = pols \cup {[policy EXCEPT !.app = None]}
            /\ Unanswered(n) \/ Refused(n)
            /\ UNCHANGED mwFile
         \/ j.svc.group # None /\ UNCHANGED <<pols, mwFile>> /\ Refused(n)
         \/ /\ j.svc.group # None /\ app = None
            /\ UNCHANGED <<pols, mwFile>> /\ Fail(n) /\ NoMishap
  /\ UNCHANGED <<rows, files, provs, apps, dns, sync>>

-----------------------------------------------------------------------------
(* ServiceAuthentikSync.teardown, and the count of what remains.           *)

teardown(n) ==
  \/ At(n, "teardown") /\ DeleteBinding(n, "teardown_policy", "del_application")
  \/ At(n, "teardown_policy") /\ DeletePolicy(n, "del_application")

delete_application(n) ==
  /\ At(n, "del_application")
  /\ LET known == job[n].svc.prov # None
         deleted == [job[n] EXCEPT !.pc = "del_provider"]
     IN  \/ /\ apps' = IF known THEN [apps EXCEPT ![job[n].d] = None] ELSE apps
            /\ Answered(n, deleted) \/ (known /\ Unanswered(n))
         \/ known /\ UNCHANGED apps /\ (Unnoticed(n, deleted) \/ Refused(n))
  /\ UNCHANGED <<rows, files, mwFile, provs, pols, dns, sync>>

\* The references are dropped from the entity.  delete_service counts only
\* when the row is deleted.
delete_provider(n) ==
  /\ At(n, "del_provider")
  /\ LET next == IF job[n].op = "delete" THEN "del_dns" ELSE "count"
         known == job[n].svc.prov # None
         deleted == [job[n] EXCEPT !.pc = next, !.svc.prov = None, !.svc.group = None]
     IN  \/ /\ provs' = provs \ {job[n].svc.prov}
            /\ Answered(n, deleted) \/ (known /\ Unanswered(n))
         \/ known /\ UNCHANGED provs /\ (Unnoticed(n, deleted) \/ Refused(n))
  /\ UNCHANGED <<rows, files, mwFile, apps, pols, dns, sync>>

\* count_services and delete_authentik_middleware_if_unused.
OthersUse(id) == \E d \in Domains : rows[d] # None /\ uses_authentik(rows[d]) /\ rows[d].id # id

\* The count of delete_service flushes the deletion, which then holds
\* SQLite's write lock until it is committed.
Flushed(n) == job[n].op = "delete" /\ At(n, "commit") /\ uses_authentik(job[n].svc)
WriteLockFree(n) == \A m \in Jobs \ {n} : ~Flushed(m)

\* Bug: the service that is left is counted with the others.
CountServices_itself(n) ==
  /\ At(n, "count")
  /\ job[n].op = "delete" => WriteLockFree(n)
  /\ mwFile' = (mwFile /\ OthersUse(None))
  /\ Goto(n, IF job[n].op = "delete" THEN "commit" ELSE "dns")
  /\ NoMishap
  /\ UNCHANGED <<rows, files, authentikVars, dns, sync>>

CountServices(n) ==
  /\ At(n, "count")
  /\ job[n].op = "delete" => WriteLockFree(n)
  /\ \/ /\ mwFile' = (mwFile /\ OthersUse(job[n].svc.id))
        /\ Goto(n, IF job[n].op = "delete" THEN "commit" ELSE "dns")
        /\ NoMishap
     \/ UNCHANGED mwFile /\ Fail(n) /\ Mishap("disk")
  /\ UNCHANGED <<rows, files, authentikVars, dns, sync>>

-----------------------------------------------------------------------------
(* Cloudflare and the route file.                                          *)

\* The existing record is kept.
upsert_service_dns_record(n, d) == IF dns[d] = None THEN n ELSE dns[d]

\* Outside the zones nothing is called and the reference is none.
sync_cloudflare_record(n) ==
  /\ At(n, "dns")
  /\ LET d == job[n].d
         rec == IF d \in Zoned THEN upsert_service_dns_record(n, d) ELSE None
     IN  \/ /\ dns' = [dns EXCEPT ![d] = rec]
            /\ \/ Answered(n, [job[n] EXCEPT !.pc = "write", !.svc.rec = rec])
               \/ d \in Zoned /\ Unanswered(n)
         \/ d \in Zoned /\ UNCHANGED dns /\ Refused(n)
  /\ UNCHANGED <<rows, files, mwFile, authentikVars, sync>>

\* A create whose write or save fails removes the file and, if it has one,
\* the record; any other run just ends.
RollBack(n) ==
  IF job[n].op = "create"
    THEN /\ files' = [files EXCEPT ![job[n].d] = None]
         /\ IF job[n].svc.rec # None THEN Goto(n, "undo") ELSE Fail(n)
    ELSE UNCHANGED files /\ Fail(n)

WriteRoute(n) ==
  /\ At(n, "write")
  /\ \/ /\ files' = [files EXCEPT ![job[n].d] = RouteOf(job[n].svc)]
        /\ Goto(n, "save") /\ NoMishap
     \/ RollBack(n) /\ Mishap("disk")
  /\ UNCHANGED <<rows, mwFile, authentikVars, dns, sync>>

\* DELETE by the id, or of all the records of the domain without one.
DnsDeleted(d, rec) == IF rec \in {None, dns[d]} THEN [dns EXCEPT ![d] = None] ELSE dns

\* Its failure is only logged.
rollback_cloudflare_record(n) ==
  /\ At(n, "undo")
  /\ \/ dns' = DnsDeleted(job[n].d, job[n].svc.rec) /\ NoMishap
     \/ dns' = DnsDeleted(job[n].d, job[n].svc.rec) /\ Mishap("lost")
     \/ UNCHANGED dns /\ Mishap("call")
  /\ Fail(n)
  /\ UNCHANGED <<rows, files, mwFile, authentikVars, sync>>

\* Bug: the row is deleted even though the record could not be.
delete_cloudflare_record_lenient(n) ==
  /\ At(n, "del_dns")
  /\ files' = [files EXCEPT ![job[n].d] = None]
  /\ Goto(n, "del_row")
  /\ \/ dns' = DnsDeleted(job[n].d, job[n].svc.rec) /\ NoMishap
     \/ UNCHANGED dns /\ Mishap("call")
  /\ UNCHANGED <<rows, mwFile, authentikVars, sync>>

\* Bug: the file goes first.
delete_cloudflare_record_after_file(n) ==
  /\ At(n, "del_dns")
  /\ files' = [files EXCEPT ![job[n].d] = None]
  /\ \/ Goto(n, "del_row") /\ NoMishap /\ dns' = DnsDeleted(job[n].d, job[n].svc.rec)
     \/ UNCHANGED dns /\ Refused(n)
  /\ UNCHANGED <<rows, mwFile, authentikVars, sync>>

\* The file goes once the record is gone.
delete_cloudflare_record(n) ==
  /\ At(n, "del_dns")
  /\ LET d == job[n].d IN
     \/ /\ dns' = IF d \in Zoned THEN DnsDeleted(d, job[n].svc.rec) ELSE dns
        /\ \/ Goto(n, "del_row") /\ NoMishap /\ files' = [files EXCEPT ![d] = None]
           \/ UNCHANGED files /\ Fail(n) /\ Mishap("disk")
           \/ UNCHANGED files /\ d \in Zoned /\ Unanswered(n)
     \/ d \in Zoned /\ UNCHANGED <<dns, files>> /\ Refused(n)
  /\ UNCHANGED <<rows, mwFile, authentikVars, sync>>

-----------------------------------------------------------------------------
(* The repository, and the commit by get_db.                               *)

\* save looks the row up again, the session having let go of the first.
save(n) ==
  /\ At(n, "save")
  /\ \/ LET r == rows[job[n].d]
            mine == r # None /\ r.id = job[n].svc.id
        IN  /\ Become(n, [job[n] EXCEPT !.pc = "commit", !.base = IF mine THEN r ELSE None])
            /\ NoMishap
            /\ UNCHANGED files
     \/ RollBack(n) /\ Mishap("db")
  /\ UNCHANGED <<rows, mwFile, authentikVars, dns, sync>>

\* delete; with Authentik the count that follows flushes it.
DeleteRow(n) ==
  /\ At(n, "del_row")
  /\ Goto(n, IF uses_authentik(job[n].svc) THEN "count" ELSE "commit")
  /\ NoMishap
  /\ UNCHANGED <<rows, files, mwFile, authentikVars, dns, sync>>

\* What the transaction makes of the row: deleted, inserted, left alone, or
\* updated in the columns that differ from what save found.
NewRow(n) ==
  LET j == job[n]
      r == rows[j.d]
      mine == r # None /\ r.id = j.svc.id
  IN  CASE j.op = "delete" -> IF mine THEN None ELSE r
        [] j.op # "delete" /\ j.base = None -> j.svc
        [] j.op # "delete" /\ j.base = j.svc -> r
        [] OTHER -> [f \in DOMAIN r |-> IF j.svc[f] # j.base[f] THEN j.svc[f] ELSE r[f]]

\* Bug: the constraint on the domain is missing.
Committable_duplicate(n) ==
  LET j == job[n]
      r == rows[j.d]
  IN  j.op = "delete" \/ j.base \in {None, j.svc} \/ (r # None /\ r.id = j.svc.id)

\* The domain is unique, and an update finds the row it updates.
Committable(n) ==
  LET j == job[n]
      r == rows[j.d]
  IN  CASE j.op = "delete" -> TRUE
        [] j.op # "delete" /\ j.base = None -> r = None
        [] j.op # "delete" /\ j.base = j.svc -> TRUE
        [] OTHER -> r # None /\ r.id = j.svc.id

Commit(n) ==
  /\ At(n, "commit")
  /\ WriteLockFree(n)
  /\ \/ /\ Committable(n)
        /\ rows' = [rows EXCEPT ![job[n].d] = NewRow(n)]
        /\ Finish(n) /\ NoMishap
     \/ ~Committable(n) /\ UNCHANGED rows /\ Fail(n) /\ NoMishap
     \/ UNCHANGED rows /\ Fail(n) /\ Mishap("db")
  /\ UNCHANGED <<files, mwFile, authentikVars, dns, sync>>

-----------------------------------------------------------------------------
(* The leader's start-up synchronisation, and the end of the process.      *)

\* find_all, before any of the files is written.
SyncRead ==
  /\ sync.pc = "read"
  /\ ActiveCount < MaxActive
  /\ sync' = [pc |-> "write", todo |-> rows, alone |-> Quiet]
  /\ UNCHANGED <<rows, files, mwFile, authentikVars, dns, job, mishapVars, failed>>

\* Bug: disabled services, having no file, are passed over.
SyncWrite_enabled(d) ==
  /\ sync.pc = "write"
  /\ sync.todo[d] # None
  /\ files' = IF sync.todo[d].mode = "disabled" THEN files
              ELSE [files EXCEPT ![d] = RouteOf(sync.todo[d])]
  /\ sync' = [sync EXCEPT !.todo[d] = None]
  /\ NoMishap
  /\ UNCHANGED <<rows, mwFile, authentikVars, dns, job, failed>>

\* A file that cannot be written is logged and passed over.
SyncWrite(d) ==
  /\ sync.pc = "write"
  /\ sync.todo[d] # None
  /\ \/ /\ files' = [files EXCEPT ![d] = RouteOf(sync.todo[d])]
        /\ sync' = [sync EXCEPT !.todo[d] = None]
        /\ NoMishap
     \/ /\ sync' = [sync EXCEPT !.todo[d] = None, !.alone = FALSE]
        /\ Mishap("disk")
        /\ UNCHANGED files
  /\ UNCHANGED <<rows, mwFile, authentikVars, dns, job, failed>>

\* Bug: the middleware file is left to the next service that needs it.
SyncWritten_is_all ==
  /\ sync.pc = "write"
  /\ \A d \in Domains : sync.todo[d] = None
  /\ sync' = [sync EXCEPT !.pc = "idle"]
  /\ UNCHANGED <<rows, files, mwFile, authentikVars, dns, job, mishapVars, failed>>

SyncWritten ==
  /\ sync.pc = "write"
  /\ \A d \in Domains : sync.todo[d] = None
  /\ sync' = [sync EXCEPT !.pc = "middleware"]
  /\ UNCHANGED <<rows, files, mwFile, authentikVars, dns, job, mishapVars, failed>>

\* ensure_authentik_middleware_file only ever creates the file.
SyncMiddleware ==
  /\ sync.pc = "middleware"
  /\ mwFile' = (mwFile \/ OthersUse(None))
  /\ sync' = [sync EXCEPT !.pc = "idle"]
  /\ UNCHANGED <<rows, files, authentikVars, dns, job, mishapVars, failed>>

\* An exception ends the leader's tasks; the supervisor starts them again.
SyncFails ==
  /\ sync.pc # "idle"
  /\ Mishap("db") \/ Mishap("disk")
  /\ sync' = [pc |-> "read", todo |-> [d \in Domains |-> None], alone |-> FALSE]
  /\ UNCHANGED <<rows, files, mwFile, authentikVars, dns, job, failed>>

Killed ==
  /\ Mishap("kill")
  /\ job' = [n \in Jobs |-> IF Busy(n) THEN Ended(n) ELSE job[n]]
  /\ failed' = failed \cup {job[n].op : n \in {m \in Jobs : Busy(m)}}
  /\ sync' = [pc |-> "read", todo |-> [d \in Domains |-> None], alone |-> FALSE]
  /\ UNCHANGED <<rows, files, mwFile, authentikVars, dns>>

-----------------------------------------------------------------------------
(* Services that are in order, each with objects known by its domain.      *)

Settled(d, m, a, g) ==
  [id |-> d, mode |-> m, auth |-> a, group |-> g,
   prov |-> IF a = "authentik" THEN d ELSE None,
   pol |-> IF g # None THEN d ELSE None,
   rec |-> IF d \in Zoned THEN d ELSE None]

SettledRows(d) ==
  {None} \cup {Settled(d, m, "none", None) : m \in Modes}
    \cup {Settled(d, m, "authentik", g) : m \in Modes, g \in Groups \cup {None}}

Init ==
  /\ rows \in {r \in [Domains -> UNION {SettledRows(d) : d \in Domains}] :
                 \A d \in Domains : r[d] \in SettledRows(d)}
  /\ files = [d \in Domains |-> RouteOf(rows[d])]
  /\ mwFile = \E d \in Domains : rows[d] # None /\ uses_authentik(rows[d])
  /\ provs = {d \in Domains : rows[d] # None /\ uses_authentik(rows[d])}
  /\ apps = [d \in Domains |-> IF d \in provs THEN d ELSE None]
  /\ pols = {[id |-> d, app |-> d, group |-> rows[d].group] :
               d \in {e \in Domains : rows[e] # None /\ rows[e].group # None}}
  /\ dns = [d \in Domains |-> IF rows[d] = None THEN None ELSE rows[d].rec]
  /\ job = [n \in Jobs |-> NoJob]
  /\ sync = [pc |-> "idle", todo |-> [d \in Domains |-> None], alone |-> FALSE]
  /\ mishaps = 0
  /\ seen = {}
  /\ failed = {}

Step(n) ==
  \/ create_proxy_provider(n) \/ create_application(n) \/ clear_group_policy(n)
  \/ sync_group_policy(n) \/ teardown(n) \/ delete_application(n) \/ delete_provider(n)
  \/ CountServices(n) \/ sync_cloudflare_record(n) \/ WriteRoute(n)
  \/ rollback_cloudflare_record(n) \/ delete_cloudflare_record(n) \/ save(n) \/ DeleteRow(n)
  \/ Commit(n)

SyncStep == SyncRead \/ (\E d \in Domains : SyncWrite(d)) \/ SyncWritten \/ SyncMiddleware \/ SyncFails

Begin(n) ==
  \E d \in Domains :
    \/ \E m \in Modes, a \in Auths, g \in Groups \cup {None} : CreateBegin(n, d, m, a, g)
    \/ UpdateBegin(n, d)
    \/ DeleteBegin(n, d)

\* The requests are numbered in the order in which they come.
NextRequest(n) == \A m \in Requests : m < n => ~At(m, "new")

Next ==
  \/ \E n \in Requests : NextRequest(n) /\ Begin(n)
  \/ \E d \in Domains : ExpireBegin(d)
  \/ \E n \in Jobs : Step(n)
  \/ SyncStep
  \/ Killed

Spec == Init /\ [][Next]_vars

\* The event loop runs every coroutine on, the supervisor starts the leader's
\* tasks again, and the monitor comes round every 30 seconds.
Fairness ==
  /\ \A n \in Jobs : WF_vars(Step(n))
  /\ WF_vars(SyncStep)
  /\ \A d \in Domains : WF_vars(ExpireBegin(d))

FairSpec == Spec /\ Fairness

-----------------------------------------------------------------------------
(* Correctness.                                                            *)

TypeOK ==
  /\ rows \in [Domains -> Service \cup {None}]
  /\ files \in [Domains -> Routes \cup {None}]
  /\ mwFile \in BOOLEAN
  /\ provs \subseteq Ids
  /\ apps \in [Domains -> Ids \cup {None}]
  /\ pols \subseteq Policy
  /\ dns \in [Domains -> Ids \cup {None}]
  /\ job \in [Jobs -> [pc : Pcs, op : Ops \cup {None}, d : Domains \cup {None},
                       svc : Service \cup {None}, base : Service \cup {None}]]
  /\ sync \in [pc : {"idle", "read", "write", "middleware"},
                todo : [Domains -> Service \cup {None}], alone : BOOLEAN]
  /\ mishaps \in 0..MaxMishaps
  /\ seen \subseteq Kinds
  /\ failed \subseteq Ops

Serial == MaxActive = 1

\* Requests that come one at a time leave every route as its row says, and
\* no route without a row, however many Authentik and Cloudflare calls fail,
\* unnoticed or not, or lose their answer on the way: update and delete touch the file after
\* the last call, and a rolled back request has not touched it.
RoutesMatchRows ==
  Serial /\ Quiet /\ seen \subseteq {"call", "lost", "status"} =>
    \A d \in Domains : files[d] = RouteOf(rows[d])

\* Nor do they lose or leak a Cloudflare record when calls are refused: a
\* zoned domain has a record, known to its row, just as long as it has a row.
RecordsMatchRows ==
  Serial /\ Quiet /\ seen \subseteq {"call", "status"} =>
    \A d \in Zoned : dns[d] = (IF rows[d] = None THEN None ELSE rows[d].rec)

\* A deletion that failed part way, in any manner that was noticed, can be
\* repeated until it succeeds, and then nothing of the service is left
\* anywhere, the shared middleware file included when no other service needs
\* it.
DeleteIsComplete ==
  Serial /\ Quiet /\ failed \subseteq {"delete"} /\ "status" \notin seen =>
    /\ \A d \in Domains : rows[d] = None =>
         files[d] = None /\ dns[d] = None /\ apps[d] = None
    /\ \A i \in provs : \E d \in Domains : rows[d] # None /\ rows[d].prov = i
    /\ \A p \in pols : \E d \in Domains : rows[d] # None /\ rows[d].pol = p.id
    /\ (\A d \in Domains : rows[d] # None => ~uses_authentik(rows[d])) => ~mwFile

\* The groups an application lets in.
Admitted(d) == {p.group : p \in {q \in pols : q.app = apps[d]}}

\* Without failures, an Authentik service has its application, which admits
\* the group its row names, or everybody when it names none, the middleware
\* file is there, and other services have no application.
AuthentikMatchesRows ==
  Serial /\ Quiet /\ failed = {} /\ "status" \notin seen =>
    \A d \in Domains : rows[d] # None =>
      IF uses_authentik(rows[d])
        THEN apps[d] # None /\ mwFile /\ Admitted(d) = {rows[d].group} \ {None}
        ELSE apps[d] = None

\* Route files, DNS records and Authentik follow the rows, each as far as
\* the failures of the other systems allow.
StoresMatchRows == RoutesMatchRows /\ RecordsMatchRows /\ AuthentikMatchesRows

\* Whatever overlapped, failed or was killed before it, a synchronisation
\* that ran alone puts right every route that has a row, and the middleware
\* file if it is needed.
SyncRepairs ==
  sync.pc = "idle" /\ sync.alone =>
    \A d \in Domains : rows[d] # None =>
      files[d] = RouteOf(rows[d]) /\ (uses_authentik(rows[d]) => mwFile)

\* A row only goes when a deletion of that very service commits, and it is
\* never replaced by another service's, overlapping requests for one domain
\* or for one service included.
RowsKeepIdentity ==
  [][\A d \in Domains : rows[d] # None /\ rows'[d] # rows[d] =>
       \/ rows'[d] # None /\ rows'[d].id = rows[d].id
       \/ /\ rows'[d] = None
          /\ \E n \in Requests : /\ job[n].op = "delete" /\ job[n].svc.id = rows[d].id
                                 /\ At(n, "commit") /\ job'[n].pc = "done"]_vars

\* A maintenance whose end has come ends, failures and restarts on the way
\* included: the row leaves the maintenance mode or is deleted.
MaintenanceEnds ==
  \A d \in Domains :
    (rows[d] # None /\ rows[d].mode = "maintenance")
      ~> (rows[d] = None \/ rows[d].mode # "maintenance")

-----------------------------------------------------------------------------
(* What the repository says and the code does not do.                      *)

\* file_provider_writer.py: the middleware file is deleted only when no
\* service uses Authentik.
MiddlewareWhileUsed ==
  Quiet => \A d \in Domains : rows[d] # None /\ uses_authentik(rows[d]) => mwFile
=============================================================================
