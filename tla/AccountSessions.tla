-------------------------- MODULE AccountSessions ---------------------------
(***************************************************************************)
(* Users and their sessions in the backend.  A request is a coroutine with *)
(* a database session of its own: it is admitted (dependencies.py), acts,  *)
(* and is committed when its handler returns or rolled back when it raises *)
(* (get_db).  A step is what it does between two awaits.                   *)
(*                                                                         *)
(* A repository reads a row into an entity and forgets the row; save reads *)
(* it once more (the base), and the commit writes the columns in which the *)
(* entity differs from the base.  What others commit between the first and *)
(* the second reading is overwritten, what they commit later is kept.      *)
(*                                                                         *)
(* Names, addresses and CSRF tokens are left out; a password is the number *)
(* of the request that set it.  A rejected login raises, so that get_db    *)
(* takes back the failure it counted: rejected logins change nothing, the  *)
(* counters stay zero and are left out.  Time may pass at any moment.      *)
(***************************************************************************)
EXTENDS Naturals

CONSTANTS
    Users,          \* numbers of users, each with a session of that number at first
    SessionIds,     \* numbers of sessions
    Requests,       \* numbers of the requests that can be under way at once
    Campaigns,      \* which requests are explored together, see Campaign
    MaxAccountRequests,    \* bound: requests
    None            \* no row, nothing read

AdminOps == {"update", "delete", "create"}
AllOps == {"read", "logout", "logout all", "revoke", "login"} \cup AdminOps
Changes == {"password", "demote", "promote", "deactivate", "activate"}

(* A bound of the exploration: ops are the requests that come, racing the  *)
(* ones that may be under way beside any other, perishable the sessions    *)
(* whose time may run out.                                                 *)
Campaign == [ops : SUBSET AllOps, racing : SUBSET AllOps, perishable : SUBSET SessionIds]

ASSUME CampaignsAssumption == \A c \in Campaigns : c \in Campaign
ASSUME BoundsAssumption == MaxAccountRequests \in Nat /\ Users \subseteq SessionIds
ASSUME NumbersAssumption == SessionIds \subseteq Nat /\ Requests \subseteq Nat

VARIABLES
    users,      \* the table of users
    enrolled,   \* history: users created so far
    sessions,   \* the table of sessions; pw is history: the password signed in with
    issued,     \* history: sessions issued so far
    idle,       \* sessions whose idle_expires_at has passed
    over,       \* sessions whose expires_at has passed
    job,        \* the coroutine of each request
    started,    \* requests so far
    ended,      \* history: how each session was revoked
    crossed,    \* history: a user was written while another request was past its check
    overwritten,    \* history: an update has written a row that is not the one it read
    campaign    \* the requests that are explored

accountVars == <<users, enrolled, sessions, issued, idle, over, job, started, ended, crossed,
                 overwritten, campaign>>

User == [role : {"admin", "viewer"}, active : BOOLEAN, ver : Nat, pw : Nat]
Session == [user : Users, ver : Nat, revoked : BOOLEAN, pw : Nat]

ASSUME NoneAssumption == None \notin User \cup Session

NewUser(role, active, pw) == [role |-> role, active |-> active, ver |-> 0, pw |-> pw]
issue(u, row) == [user |-> u, ver |-> row.ver, revoked |-> FALSE, pw |-> row.pw]

(* A request that is not under way. *)
NoJob == [at |-> "idle", op |-> None, num |-> 0, sid |-> None, ent |-> None, admin |-> FALSE,
          rows |-> None, base |-> None, who |-> None, change |-> None, row |-> None,
          ubase |-> None]

(* Installations with an active administrator. *)
Installations ==
    {table \in [Users -> {NewUser("admin", TRUE, 0), NewUser("viewer", TRUE, 0), None}] :
       \E u \in Users : table[u] = NewUser("admin", TRUE, 0)}

AccountsStart(c, table) ==
    /\ campaign = c
    /\ users = table
    /\ enrolled = {u \in Users : users[u] # None}
    /\ sessions = [s \in SessionIds |-> IF s \in enrolled THEN issue(s, users[s]) ELSE None]
    /\ issued = Users
    /\ idle = {} /\ over = {}
    /\ job = [r \in Requests |-> NoJob]
    /\ started = 0
    /\ ended = [s \in SessionIds |-> "no"]
    /\ crossed = FALSE /\ overwritten = FALSE

AccountsInit == \E c \in Campaigns, table \in Installations : AccountsStart(c, table)

(* A request comes with state j, and takes the lowest number that is free. *)
Begin(r, op, j) ==
    /\ job[r].at = "idle" /\ \A q \in Requests : q < r => job[q].at # "idle"
    /\ op \in campaign.ops /\ started < MaxAccountRequests
    /\ op \in campaign.racing \/ \A q \in Requests : \/ job[q].at = "idle"
                                                    \/ job[q].op \in campaign.racing
    /\ started' = started + 1
    /\ job' = [job EXCEPT ![r] = [j EXCEPT !.op = op, !.num = started + 1]]

At(r, at, ops) == job[r].at = at /\ job[r].op \in ops
JobGoesTo(r, at) == job' = [job EXCEPT ![r].at = at]
End(r) == job' = [job EXCEPT ![r] = NoJob]
Accounts == <<users, enrolled, crossed, overwritten>>
SessionTable == <<sessions, issued, idle, over, ended>>

(* What a commit leaves of a row: new, or the row with the changed columns. *)
Written(cur, ent, base) ==
    IF base = None THEN ent
    ELSE [c \in DOMAIN ent |-> IF ent[c] # base[c] THEN ent[c] ELSE cur[c]]

(* The row was there for save just if it is there for the commit; the      *)
(* database refuses the INSERT or SQLAlchemy the UPDATE otherwise.         *)
Writable(cur, base) == (cur = None) = (base = None)

-----------------------------------------------------------------------------
(* resolve_authenticated_user. *)

is_active(s) == sessions[s] # None /\ ~sessions[s].revoked /\ s \notin idle \cup over

FindSession(r, op, s) ==
    /\ op # "login" /\ is_active(s)
    /\ Begin(r, op, [NoJob EXCEPT !.at = "user", !.sid = s, !.ent = sessions[s]])
    /\ UNCHANGED <<Accounts, SessionTable>>

Accepted(ent, row) == row # None /\ row.active /\ ent.ver = row.ver

(* The touch may be due or not. *)
FindUser(r) ==
    /\ job[r].at = "user"
    /\ LET row == users[job[r].ent.user]
       IN  IF Accepted(job[r].ent, row)
           THEN \E at \in {"touch", "act"} :
                  job' = [job EXCEPT ![r].at = at, ![r].admin = (row.role = "admin")]
           ELSE End(r)
    /\ UNCHANGED <<Accounts, SessionTable, started>>

(* touch moves the idle time; save and commit follow. *)
TouchRead(r) ==
    /\ job[r].at = "touch"
    /\ job' = [job EXCEPT ![r].at = "touched", ![r].base = sessions[job[r].sid]]
    /\ UNCHANGED <<Accounts, SessionTable, started>>

TouchCommit(r) ==
    LET s == job[r].sid
    IN  /\ job[r].at = "touched"
        /\ IF Writable(sessions[s], job[r].base)
           THEN /\ sessions' = [sessions EXCEPT ![s] = Written(@, job[r].ent, job[r].base)]
                /\ idle' = idle \ {s}
                /\ job' = [job EXCEPT ![r].at = "act", ![r].base = None]
           ELSE End(r) /\ UNCHANGED <<sessions, idle>>
        /\ UNCHANGED <<Accounts, issued, over, started, ended>>

(* A request that only reads, and one of a viewer that require_admin       *)
(* refuses.                                                                *)
AnswerRead(r) ==
    /\ At(r, "act", {"read"}) \/ (At(r, "act", AdminOps) /\ ~job[r].admin)
    /\ End(r)
    /\ UNCHANGED <<Accounts, SessionTable, started>>

-----------------------------------------------------------------------------
(* Logout of this session, of all sessions of the user, of one of them.    *)

(* In place of revoke: the reason is set and the time forgotten. *)
RevokeReasonOnly(ent) == ent

revoke(ent) == [ent EXCEPT !.revoked = TRUE]

Revoking(r, ents) == job' = [job EXCEPT ![r].at = "save", ![r].rows = ents]

logout(r) ==
    /\ At(r, "act", {"logout"})
    /\ Revoking(r, [s \in {job[r].sid} |-> revoke(job[r].ent)])
    /\ UNCHANGED <<Accounts, SessionTable, started>>

find_active_by_user_id(u) == {s \in SessionIds : is_active(s) /\ sessions[s].user = u}

logout_all(r) ==
    /\ At(r, "act", {"logout all"})
    /\ Revoking(r, [s \in find_active_by_user_id(job[r].ent.user) |-> revoke(sessions[s])])
    /\ UNCHANGED <<Accounts, SessionTable, started>>

revoke_session(r, s) ==
    /\ At(r, "act", {"revoke"})
    /\ IF sessions[s] # None /\ sessions[s].user = job[r].ent.user /\ ~sessions[s].revoked
       THEN Revoking(r, [t \in {s} |-> revoke(sessions[s])])
       ELSE End(r)
    /\ UNCHANGED <<Accounts, SessionTable, started>>

SaveSessions(r) ==
    /\ job[r].at = "save"
    /\ job' = [job EXCEPT ![r].at = "commit",
                          ![r].base = [s \in DOMAIN job[r].rows |-> sessions[s]]]
    /\ UNCHANGED <<Accounts, SessionTable, started>>

(* Another request has read the session and may still write it back. *)
InUse(r, s) ==
    \E q \in Requests \ {r} : job[q].sid = s /\ job[q].at \in {"user", "touch", "touched"}

CommitSessions(r) ==
    LET ents == job[r].rows
    IN  /\ job[r].at = "commit"
        /\ IF \A s \in DOMAIN ents : Writable(sessions[s], job[r].base[s])
           THEN /\ sessions' = [s \in SessionIds |->
                     IF s \in DOMAIN ents THEN Written(sessions[s], ents[s], job[r].base[s])
                     ELSE sessions[s]]
                /\ ended' = [s \in SessionIds |->
                     IF s \notin DOMAIN ents \/ ended[s] # "no" THEN ended[s]
                     ELSE IF InUse(r, s) THEN "overlapped" ELSE "alone"]
           ELSE UNCHANGED <<sessions, ended>>
        /\ End(r)
        /\ UNCHANGED <<Accounts, issued, idle, over, started>>

-----------------------------------------------------------------------------
(* User management. *)

NeedsOtherAdmin(row, op, change) ==
    row.role = "admin" /\ (op = "delete" \/ change \in {"demote", "deactivate"})

(* For a roll back the change comes from the audit log instead of the form. *)
ReadTarget(r, u, change) ==
    /\ At(r, "act", {"update", "delete"}) /\ job[r].admin
    /\ IF users[u] = None THEN End(r)
       ELSE job' = [job EXCEPT ![r].who = u, ![r].row = users[u], ![r].change = change,
                      ![r].at = IF NeedsOtherAdmin(users[u], job[r].op, change)
                                THEN "check" ELSE "change"]
    /\ UNCHANGED <<Accounts, SessionTable, started>>

(* In place of OtherAdminExists: the administrator itself is counted. *)
AnyAdminExists(u) == \E v \in Users : users[v] # None /\ users[v].role = "admin" /\ users[v].active

OtherAdminExists(u) ==
    \E v \in Users \ {u} : users[v] # None /\ users[v].role = "admin" /\ users[v].active

ensure_other_admin_exists(r) ==
    /\ job[r].at = "check"
    /\ IF OtherAdminExists(job[r].who) THEN JobGoesTo(r, "change") ELSE End(r)
    /\ UNCHANGED <<Accounts, SessionTable, started>>

(* In place of update: the version is counted down. *)
UpdateCountsDown(row, change, num) ==
    CASE change = "password"   -> [row EXCEPT !.pw = num, !.ver = @ - 1]
      [] change = "demote"     -> [row EXCEPT !.role = "viewer"]
      [] change = "promote"    -> [row EXCEPT !.role = "admin"]
      [] change = "deactivate" -> [row EXCEPT !.active = FALSE]
      [] change = "activate"   -> [row EXCEPT !.active = TRUE]

update(row, change, num) ==
    CASE change = "password"   -> [row EXCEPT !.pw = num, !.ver = @ + 1]
      [] change = "demote"     -> [row EXCEPT !.role = "viewer"]
      [] change = "promote"    -> [row EXCEPT !.role = "admin"]
      [] change = "deactivate" -> [row EXCEPT !.active = FALSE]
      [] change = "activate"   -> [row EXCEPT !.active = TRUE]

(* The request is to update a row that is no longer as it was read.        *)
Outdated(r, read) == job[r].op = "update" /\ users[job[r].who] # read

SaveUser(r) ==
    /\ job[r].at = "change"
    /\ job' = [job EXCEPT ![r].at = "write", ![r].ubase = users[job[r].who],
                          ![r].row = IF job[r].op = "update"
                                     THEN update(@, job[r].change, job[r].num) ELSE @]
    /\ overwritten' = (overwritten \/ Outdated(r, job[r].row))
    /\ UNCHANGED <<users, enrolled, crossed, SessionTable, started>>

(* Another request is past its check and about to write a user. *)
OtherWriting(r) == \E q \in Requests \ {r} : job[q].at \in {"change", "write"}

CommitUser(r) ==
    LET u == job[r].who
    IN  /\ job[r].at = "write"
        /\ crossed' = (crossed \/ OtherWriting(r))
        /\ overwritten' = (overwritten \/ Outdated(r, job[r].ubase))
        /\ users' = [users EXCEPT ![u] =
             IF job[r].op = "delete" THEN (IF job[r].ubase = None THEN @ ELSE None)
             ELSE IF Writable(@, job[r].ubase) THEN Written(@, job[r].row, job[r].ubase) ELSE @]
        /\ End(r)
        /\ UNCHANGED <<enrolled, SessionTable, started>>

create_user(r, u, role, active) ==
    /\ At(r, "act", {"create"}) /\ job[r].admin /\ u \notin enrolled
    /\ users' = [users EXCEPT ![u] = NewUser(role, active, job[r].num)]
    /\ enrolled' = enrolled \cup {u}
    /\ End(r)
    /\ UNCHANGED <<SessionTable, started, crossed, overwritten>>

-----------------------------------------------------------------------------
(* Login, time and the clean-up. *)

(* authenticate_user found the password right. *)
FindLogin(r, u) ==
    /\ users[u] # None /\ users[u].active
    /\ Begin(r, "login", [NoJob EXCEPT !.at = "issue", !.who = u, !.row = users[u]])
    /\ UNCHANGED <<Accounts, SessionTable>>

(* A session gets a number that was not used before. *)
IsNext(s) == s \notin issued /\ \A t \in SessionIds \ issued : s <= t

(* In place of IssueSession: the version is read again for the session. *)
IssueForCurrentVersion(r, s) ==
    /\ job[r].at = "issue" /\ IsNext(s) /\ users[job[r].who] # None
    /\ sessions' = [sessions EXCEPT ![s] =
         [issue(job[r].who, job[r].row) EXCEPT !.ver = users[job[r].who].ver]]
    /\ issued' = issued \cup {s}
    /\ End(r)
    /\ UNCHANGED <<Accounts, idle, over, started, ended>>

IssueSession(r, s) ==
    /\ job[r].at = "issue" /\ IsNext(s)
    /\ sessions' = [sessions EXCEPT ![s] = issue(job[r].who, job[r].row)]
    /\ issued' = issued \cup {s}
    /\ End(r)
    /\ UNCHANGED <<Accounts, idle, over, started, ended>>

IdleTimePasses(s) ==
    /\ s \in (issued \cap campaign.perishable) \ idle /\ idle' = idle \cup {s}
    /\ UNCHANGED <<Accounts, sessions, issued, over, job, started, ended>>

LifeTimePasses(s) ==
    /\ s \in (issued \cap campaign.perishable) \ over /\ over' = over \cup {s}
    /\ UNCHANGED <<Accounts, sessions, issued, idle, job, started, ended>>

delete_inactive ==
    /\ sessions' = [s \in SessionIds |->
         IF sessions[s] # None /\ (sessions[s].revoked \/ s \in idle \cup over) THEN None
         ELSE sessions[s]]
    /\ sessions' # sessions
    /\ UNCHANGED <<Accounts, issued, idle, over, job, started, ended>>

AccountsNext ==
    /\ campaign' = campaign
    /\ \/ \E r \in Requests :
            \/ \E op \in AllOps, s \in SessionIds : FindSession(r, op, s)
            \/ FindUser(r) \/ TouchRead(r) \/ TouchCommit(r) \/ AnswerRead(r)
            \/ logout(r) \/ logout_all(r) \/ \E s \in SessionIds : revoke_session(r, s)
            \/ SaveSessions(r) \/ CommitSessions(r)
            \/ \E u \in Users, change \in Changes : ReadTarget(r, u, change)
            \/ ensure_other_admin_exists(r) \/ SaveUser(r) \/ CommitUser(r)
            \/ \E u \in Users, role \in {"admin", "viewer"}, active \in BOOLEAN :
                 create_user(r, u, role, active)
            \/ \E u \in Users : FindLogin(r, u)
            \/ \E s \in SessionIds : IssueSession(r, s)
       \/ \E s \in SessionIds : IdleTimePasses(s) \/ LifeTimePasses(s)
       \/ delete_inactive

AccountsSpec == AccountsInit /\ [][AccountsNext]_accountVars

-----------------------------------------------------------------------------
(* The tables and the requests have their types. *)
AccountsTypeOK ==
    /\ users \in [Users -> User \cup {None}] /\ enrolled \subseteq Users
    /\ sessions \in [SessionIds -> Session \cup {None}] /\ issued \subseteq SessionIds
    /\ idle \subseteq issued /\ over \subseteq issued
    /\ \A r \in Requests : DOMAIN job[r] = DOMAIN NoJob
    /\ started \in 0..MaxAccountRequests /\ campaign \in Campaigns
    /\ ended \in [SessionIds -> {"no", "alone", "overlapped"}]
    /\ crossed \in BOOLEAN /\ overwritten \in BOOLEAN

(* Whatever administrators change, delete and create, of themselves and of *)
(* each other, somebody can still administer: an active administrator      *)
(* remains, unless a user was written between the check and the write of   *)
(* another request.                                                        *)
AdminRemains ==
    crossed \/ \E u \in Users : users[u] # None /\ users[u].role = "admin" /\ users[u].active

Revoked(s) == sessions[s] = None \/ sessions[s].revoked

(* A revoked session never comes back, whichever revocations, clean-ups    *)
(* and touches follow, unless a request had read it and not yet touched it *)
(* when the revocation was committed.                                      *)
RevokedStays == \A s \in SessionIds : ended[s] = "alone" => Revoked(s)

(* A session is accepted only as long as the password it was opened with   *)
(* is the password of its user, although a login reads the user and stores *)
(* the session at different times.  An update that writes back a row it    *)
(* read before another commit may repeat a version number or return to an  *)
(* old one: the property is about the time before that.                    *)
OldPasswordRefused ==
    [][\A r \in Requests :
         job[r].at = "user" /\ job'[r].at \in {"touch", "act"} /\ ~overwritten =>
           /\ users[job[r].ent.user] # None
           /\ users[job[r].ent.user].pw = job[r].ent.pw]_accountVars

=============================================================================
